-------------------------------- MODULE Recon --------------------------------
(***************************************************************************)
(* sdr_recon.py: detections and task answers arrive on one reactor thread; *)
(* a detection of a bin that has cooled down starts a capture in a thread  *)
(* of its own, one at a time.  The capture requests a task by RPC, collects*)
(* IQ from its socket, saves it and starts the bin's cooldown.  Requests   *)
(* are numbered; a detection below the SNR threshold and a dry run change  *)
(* nothing here.  Time passes in ticks.                                    *)
(***************************************************************************)
EXTENDS Integers, FiniteSets

CONSTANTS Bins,         \* frequency bins of detections
          Cooldown,     \* args.cooldown, in ticks
          MaxCaptures,  \* bound: captures begun
          MaxTime       \* bound: ticks

ASSUME ReconAssumption ==
  Bins # {} /\ Cooldown \in Nat \ {0} /\ MaxCaptures \in Nat /\ MaxTime \in Nat

VARIABLES
  sess,        \* main() has assigned sess: the constructor of ReconSession has returned
  reactor,     \* the reactor thread: where on_message() is
  detBin,      \* the bin of the detection it handles
  answer,      \* the answer it handles
  locked,      \* _record_lock
  capture,     \* the capture thread: where _capture() is
  capBin,      \* its bin
  request,     \* its request (0: none yet)
  sockets,     \* requests whose UDP socket is open
  pending,     \* requests in _pending
  box,         \* answers put into a request's box
  asked,       \* controller: requests received and not answered
  answers,     \* answers on their way
  cooldown,    \* _cooldown (-Cooldown: no entry)
  time,        \* time.time()
  saved,       \* history: time of the last capture saved, per bin
  overtaken,   \* history: the handled detection's bin was marked after its check
  raced        \* history: so was that of the detection that started the capture

reactorVars == <<reactor, detBin, answer, overtaken>>
captureVars == <<capture, capBin, request, sockets, raced>>
rpcVars     == <<pending, box>>
brokerVars  == <<asked, answers>>
timeVars    == <<cooldown, time, saved>>
recorderVars == <<sess, reactorVars, locked, captureVars, rpcVars, brokerVars, timeVars>>

Requests == 1..MaxCaptures
Statuses == {"ACCEPTED", "REJECTED"}
NoAnswer == [req |-> 0, status |-> "REJECTED"]

RecorderInit ==
  /\ reactor = "idle" /\ detBin = (CHOOSE b \in Bins : TRUE) /\ answer = NoAnswer
  /\ overtaken = FALSE /\ raced = FALSE /\ locked = FALSE /\ sess = FALSE
  /\ capture = "none" /\ capBin = detBin /\ request = 0 /\ sockets = {}
  /\ pending = {} /\ box = {} /\ asked = {} /\ answers = {}
  /\ cooldown = [b \in Bins |-> -Cooldown] /\ time = 0
  /\ saved = [b \in Bins |-> -Cooldown]

-----------------------------------------------------------------------------
(* on_message() and on_detection(), on the reactor thread.                  *)

CooledDown(b) == time - cooldown[b] >= Cooldown

(* main() goes on: the session was ready. *)
Constructed ==
  /\ ~sess /\ sess' = TRUE
  /\ UNCHANGED <<reactorVars, locked, captureVars, rpcVars, brokerVars, timeVars>>

(* The callback names sess: before it is assigned, NameError ends the reactor. *)
DetectTooEarly ==
  /\ ~sess /\ reactor = "idle" /\ reactor' = "dead"
  /\ UNCHANGED <<sess, detBin, answer, overtaken, locked, captureVars, rpcVars, brokerVars,
                 timeVars>>

(* A detection passes _is_cooled_down(); the lock is tried in a later step. *)
Detect(b) ==
  /\ sess /\ reactor = "idle" /\ CooledDown(b)
  /\ reactor' = "checked" /\ detBin' = b /\ overtaken' = FALSE
  /\ UNCHANGED <<sess, answer, locked, captureVars, rpcVars, brokerVars, timeVars>>

StartCapture ==
  /\ reactor = "checked" /\ ~locked /\ request < MaxCaptures
  /\ reactor' = "idle" /\ locked' = TRUE
  /\ capture' = "begun" /\ capBin' = detBin /\ raced' = overtaken
  /\ UNCHANGED <<sess, detBin, answer, overtaken, request, sockets, rpcVars, brokerVars, timeVars>>

SkipDetection ==
  /\ reactor = "checked" /\ locked
  /\ reactor' = "idle"
  /\ UNCHANGED <<sess, detBin, answer, overtaken, locked, captureVars, rpcVars, brokerVars, timeVars>>

(* An answer of a request that still waits: its box is looked up, and filled *)
(* in a later step.  Any other is taken for a detection, of no SNR.          *)
ReceiveAnswer(a) ==
  /\ reactor = "idle" /\ a \in answers
  /\ answers' = answers \ {a}
  /\ answer' = IF a.req \in pending THEN a ELSE NoAnswer
  /\ reactor' = IF a.req \in pending THEN "answering" ELSE "idle"
  /\ UNCHANGED <<sess, detBin, overtaken, locked, captureVars, rpcVars, asked, timeVars>>

FillBox ==
  /\ reactor = "answering"
  /\ box' = box \cup {answer} /\ reactor' = "idle" /\ answer' = NoAnswer
  /\ UNCHANGED <<sess, detBin, overtaken, locked, captureVars, pending, brokerVars, timeVars>>

-----------------------------------------------------------------------------
(* _capture_thread() and _capture().                                        *)

(* The socket is bound, the request registered in _pending and sent. *)
Request ==
  /\ capture = "begun"
  /\ request' = request + 1 /\ sockets' = sockets \cup {request + 1}
  /\ pending' = pending \cup {request + 1} /\ asked' = asked \cup {request + 1}
  /\ capture' = "waiting"
  /\ UNCHANGED <<sess, reactorVars, locked, capBin, raced, box, answers, timeVars>>

\* Variants (named <action>_<mistake>) are plausible wrong edits of the action
\* that follows; no specification uses them, they show what a property rejects.
RpcReturns_KeepsPending ==
  /\ capture = "waiting"
  /\ UNCHANGED pending
  /\ IF [req |-> request, status |-> "ACCEPTED"] \in box
       THEN capture' = "collecting" /\ UNCHANGED sockets
       ELSE capture' = "ending" /\ sockets' = sockets \ {request}
  /\ UNCHANGED <<sess, reactorVars, locked, capBin, request, raced, box, brokerVars, timeVars>>

RpcReturns_NoTimeout ==
  /\ capture = "waiting" /\ \E a \in box : a.req = request
  /\ pending' = pending \ {request}
  /\ IF [req |-> request, status |-> "ACCEPTED"] \in box
       THEN capture' = "collecting" /\ UNCHANGED sockets
       ELSE capture' = "ending" /\ sockets' = sockets \ {request}
  /\ UNCHANGED <<sess, reactorVars, locked, capBin, request, raced, box, brokerVars, timeVars>>

(* rpc() returns, answered or timed out; unless accepted, the socket is closed. *)
RpcReturns ==
  /\ capture = "waiting"
  /\ pending' = pending \ {request}
  /\ IF [req |-> request, status |-> "ACCEPTED"] \in box
       THEN capture' = "collecting" /\ UNCHANGED sockets
       ELSE capture' = "ending" /\ sockets' = sockets \ {request}
  /\ UNCHANGED <<sess, reactorVars, locked, capBin, request, raced, box, brokerVars, timeVars>>

(* collect_iq() closes the socket; without any sample nothing is saved. *)
Collect ==
  /\ capture = "collecting"
  /\ sockets' = sockets \ {request} /\ capture' \in {"saving", "ending"}
  /\ UNCHANGED <<sess, reactorVars, locked, capBin, request, raced, rpcVars, brokerVars, timeVars>>

(* save_iq() writes the files, or raises. *)
Save ==
  /\ capture = "saving"
  /\ \/ capture' = "saved" /\ saved' = [saved EXCEPT ![capBin] = time]
     \/ capture' = "ending" /\ UNCHANGED saved
  /\ UNCHANGED <<sess, reactorVars, locked, capBin, request, sockets, raced, rpcVars, brokerVars,
                 cooldown, time>>

Mark_Forgotten ==
  /\ capture = "saved" /\ capture' = "ending"
  /\ UNCHANGED <<sess, reactorVars, locked, capBin, request, sockets, raced, rpcVars, brokerVars, timeVars>>

(* _mark_captured(); then the row is written, whose failure is only logged. *)
Mark ==
  /\ capture = "saved" /\ capture' = "ending"
  /\ cooldown' = [cooldown EXCEPT ![capBin] = time]
  /\ overtaken' = (overtaken \/ (reactor = "checked" /\ detBin = capBin))
  /\ UNCHANGED <<sess, reactor, detBin, answer, locked, capBin, request, sockets, raced, rpcVars, brokerVars,
                 time, saved>>

Release_OnSuccessOnly ==
  /\ capture = "ending" /\ capture' = "none"
  /\ locked' = (saved[capBin] # cooldown[capBin] \/ cooldown[capBin] # time)
  /\ UNCHANGED <<sess, reactorVars, capBin, request, sockets, raced, rpcVars, brokerVars, timeVars>>

(* The thread ends in every case by releasing the lock. *)
Release ==
  /\ capture = "ending" /\ capture' = "none" /\ locked' = FALSE
  /\ UNCHANGED <<sess, reactorVars, capBin, request, sockets, raced, rpcVars, brokerVars, timeVars>>

-----------------------------------------------------------------------------
(* The controller (external) and the clock.                                 *)

Answer(r, s) ==
  /\ r \in asked /\ asked' = asked \ {r}
  /\ answers' = answers \cup {[req |-> r, status |-> s]}
  /\ UNCHANGED <<sess, reactorVars, locked, captureVars, rpcVars, timeVars>>

Tick ==
  /\ time < MaxTime /\ time' = time + 1
  /\ UNCHANGED <<sess, reactorVars, locked, captureVars, rpcVars, brokerVars, cooldown, saved>>

-----------------------------------------------------------------------------
Capture == Request \/ RpcReturns \/ Collect \/ Save \/ Mark \/ Release
Reactor == StartCapture \/ SkipDetection \/ FillBox \/ \E a \in answers : ReceiveAnswer(a)

RecorderNext ==
  \/ Constructed \/ DetectTooEarly \/ \E b \in Bins : Detect(b)
  \/ Reactor \/ Capture \/ Tick
  \/ \E r \in asked, s \in Statuses : Answer(r, s)

RecorderSpec == RecorderInit /\ [][RecorderNext]_recorderVars

(* Both threads are scheduled, rpc() and collect_iq() have time limits; the *)
(* controller need not answer.                                              *)
FairSpec == /\ RecorderSpec
            /\ WF_recorderVars(Constructed) /\ WF_recorderVars(Reactor) /\ WF_recorderVars(Capture)

-----------------------------------------------------------------------------
(* Properties.                                                              *)

AnswerType == [req : Requests, status : Statuses]

\* Every variable keeps its type; the lock is held exactly while a capture runs.
TypeOK ==
  /\ reactor \in {"idle", "checked", "answering", "dead"} /\ detBin \in Bins
  /\ answer \in AnswerType \cup {NoAnswer} /\ {sess, overtaken, raced} \subseteq BOOLEAN
  /\ capture \in {"none", "begun", "waiting", "collecting", "saving", "saved", "ending"}
  /\ locked \in BOOLEAN /\ locked = (capture # "none")
  /\ capBin \in Bins /\ request \in 0..MaxCaptures
  /\ {sockets, pending, asked} \subseteq SUBSET Requests
  /\ box \subseteq AnswerType /\ answers \subseteq AnswerType
  /\ time \in 0..MaxTime /\ cooldown \in [Bins -> (-Cooldown)..MaxTime]
  /\ saved \in [Bins -> (-Cooldown)..MaxTime]

\* A request that is answered, rejected or abandoned leaves nothing behind: _pending
\* holds the one that waits, so a late answer finds nothing to fill, and a socket is
\* open only for the running capture until its samples are collected.
RequestsLeaveNothing ==
  /\ pending = IF capture = "waiting" THEN {request} ELSE {}
  /\ sockets \subseteq {request}
  /\ sockets # {} => capture \in {"waiting", "collecting"}

\* A capture of a bin begins within the cooldown of the last one only if that one
\* was marked between the detection's check and its attempt at the lock.
RecaptureOnlyByRace ==
  capture = "begun" => time - saved[capBin] >= Cooldown \/ raced

\* No capture lasts for ever, and the lock is released.
CapturesEnd == locked ~> ~locked
=============================================================================
