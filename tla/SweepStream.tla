----------------------------- MODULE SweepStream -----------------------------
(***************************************************************************)
(* The data path of one scanner: the tasks its sweep thread submits one    *)
(* after the other, the IQ packets the controller streams for the          *)
(* positions of a task, and next(), which assembles them into dwells and   *)
(* moves resume_hz_.  UDP loses, damages, delays and repeats packets;      *)
(* other datagrams arrive, also those of a task the scanner abandoned and  *)
(* whose stream goes to the same fixed port; and a task is preempted at    *)
(* any packet.  A packet carries one unit of samples of one channel, which *)
(* stands for all its samples.  How a task is obtained and stopped is      *)
(* ScanSession's.                                                          *)
(***************************************************************************)
EXTENDS SweepPlan, FiniteSets

CONSTANTS Channels,        \* cfg.device.rx_channels
          DwellSamples,    \* cfg.sweep.dwell_samples, in packets
          StreamLengths,   \* packets per channel a controller may send for a position
          InitialTimeout,  \* INITIAL_TIMEOUT_MS, in receive timeouts
          StreamTimeout,   \* STREAM_TIMEOUT_MS, in receive timeouts
          MaxTasks,        \* bound: tasks in a behaviour
          MaxFaults,       \* bound: packets lost, damaged, delayed, repeated or injected
          MaxInFlight      \* bound: packets in the socket's buffer

ASSUME StreamAssumption ==
  /\ {Channels, DwellSamples} \subseteq Nat \ {0}
  /\ StreamLengths \subseteq Nat \ {0}
  /\ StreamTimeout \in Nat \ {0} /\ InitialTimeout \in Nat /\ StreamTimeout <= InitialTimeout
  /\ {MaxTasks, MaxFaults, MaxInFlight} \subseteq Nat

VARIABLES
  streaming,         \* TRUE between open() and close()
  resume,            \* resume_hz_
  current,           \* current_center_hz_ (0: none)
  accum,             \* ch_accum_: the samples collected per channel
  firstTaskPacket,   \* first_task_packet_
  noData,            \* no_data_ms of the running next(), in receive timeouts
  dwell,             \* the dwell next() returned last
  plan,              \* controller: entries of the task
  streamed,          \* controller: packets per channel it sends for a position
  sent,              \* controller: packets of the task sent so far
  sending,           \* controller: FALSE once the task is preempted
  network,           \* packets that reached the socket's buffer, in that order
  late,              \* packets held up on the way, and second copies
  tasks, faults,     \* counters for the bounds
  arrivals,          \* history: the controller's packets that reached the buffer
  base,              \* history: positions of earlier tasks
  lostChanges,       \* history: positions whose DWELL_CHANGE packet was lost
  accepted, returned,\* history: samples taken from packets, and given out, per channel
  lastReturned,      \* history: the last sample given out, per channel
  reported,          \* history: positions of this task some dwell was returned for
  seen,              \* history: cells of this task a packet arrived for
  started            \* history: a packet of this task has arrived

controllerVars == <<plan, streamed, sent, sending, base>>
historyVars    == <<lostChanges, accepted, returned, lastReturned, reported, seen, started>>
accumVars      == <<current, accum, dwell>>
vars == <<streaming, resume, accumVars, firstTaskPacket, noData, controllerVars,
          network, late, arrivals, tasks, faults, historyVars>>

Chs      == 0..(Channels - 1)
Empty    == [ch \in Chs |-> <<>>]
NoDwell  == [center |-> 0, samples |-> Empty]
PerPosition == Channels * streamed

\* The packet the controller sends after k others of this task.  Positions are
\* numbered through all tasks (pos); a packet out of its place in the stream has
\* pos 0.  Packets get their number (id) as they enter the buffer.
Packet(k) ==
  LET i == k \div PerPosition + 1
  IN  [kind |-> "good", center |-> plan[i], pos |-> base + i, ch |-> k % Channels,
       change |-> k % PerPosition = 0, id |-> 0]
Foreign == [kind |-> "foreign", center |-> 0, pos |-> 0, ch |-> 0, change |-> FALSE, id |-> 0]

Init ==
  /\ streaming = FALSE /\ resume = Start
  /\ current = 0 /\ accum = Empty /\ dwell = NoDwell
  /\ firstTaskPacket = TRUE /\ noData = 0
  /\ plan = <<>> /\ streamed \in StreamLengths /\ sent = 0 /\ sending = FALSE /\ base = 0
  /\ network = <<>> /\ late = {} /\ arrivals = 0 /\ tasks = 0 /\ faults = 0
  /\ lostChanges = {} /\ reported = {} /\ seen = {} /\ started = FALSE
  /\ accepted = [ch \in Chs |-> 0] /\ returned = [ch \in Chs |-> 0]
  /\ lastReturned = [ch \in Chs |-> 0]

-----------------------------------------------------------------------------
(* The session: open() and the end of the stream.                           *)

(* A task is accepted: the accumulators start empty.  With a fixed port,    *)
(* packets of the task before may still be under way to the new socket.     *)
Open ==
  /\ ~streaming /\ tasks < MaxTasks
  /\ streaming' = TRUE /\ tasks' = tasks + 1
  /\ firstTaskPacket' = TRUE /\ noData' = 0
  /\ current' = 0 /\ accum' = Empty
  /\ plan' = Entries(resume) /\ base' = base + Len(plan)
  /\ streamed' \in StreamLengths /\ sent' = 0 /\ sending' = TRUE
  /\ network' \in {<<>>, network}
  /\ accepted' = returned /\ reported' = {} /\ seen' = {} /\ started' = FALSE
  /\ UNCHANGED <<resume, dwell, late, arrivals, faults, lostChanges, returned, lastReturned>>

(* stop(), or an error of recvfrom() other than a timeout or EINTR. *)
Abort ==
  /\ streaming /\ streaming' = FALSE
  /\ UNCHANGED <<resume, accumVars, firstTaskPacket, noData, controllerVars, network,
                 late, arrivals, tasks, faults, historyVars>>

Limit == IF firstTaskPacket THEN InitialTimeout ELSE StreamTimeout

(* recvfrom() times out: the stream is over after enough of them in a row. *)
ReceiveTimesOut ==
  /\ streaming /\ network = <<>>
  /\ noData' = noData + 1
  /\ streaming' = (noData' < Limit)
  /\ UNCHANGED <<resume, accumVars, firstTaskPacket, controllerVars, network, late,
                 arrivals, tasks, faults, historyVars>>

-----------------------------------------------------------------------------
(* The controller (external) and the network.                               *)

Numbered(p, n) == [p EXCEPT !.id = n]
Deliver(p) == network' = Append(network, Numbered(p, arrivals + 1)) /\ arrivals' = arrivals + 1

\* A packet that comes, if it does, after others sent later, or a second time;
\* the fault that made it tells it from others of its kind.
Delayed(p) == [p EXCEPT !.pos = 0, !.id = faults]

(* The next packet of the task reaches the buffer in its place, alone or      *)
(* ahead of a second copy; or damaged; or it is held up, perhaps for ever.    *)
Send ==
  /\ sending /\ sent < Len(plan) * PerPosition /\ Len(network) < MaxInFlight
  /\ sent' = sent + 1
  /\ LET p == Packet(sent) IN
     \/ Deliver(p) /\ UNCHANGED <<late, faults, lostChanges>>
     \/ /\ faults < MaxFaults /\ faults' = faults + 1
        /\ \/ Deliver(p) /\ late' = late \cup {Delayed(p)} /\ UNCHANGED lostChanges
           \/ /\ \/ Deliver([p EXCEPT !.kind = "truncated"]) /\ UNCHANGED late
                 \/ late' = late \cup {Delayed(p)} /\ UNCHANGED <<network, arrivals>>
              /\ lostChanges' = IF p.change THEN lostChanges \cup {p.pos} ELSE lostChanges
  /\ UNCHANGED <<streaming, resume, accumVars, firstTaskPacket, noData, plan, streamed, sending,
                 base, tasks, accepted, returned, lastReturned, reported, seen, started>>

(* A packet held up arrives, perhaps when a later task streams to the same port. *)
LateArrives ==
  /\ Len(network) < MaxInFlight
  /\ \E p \in late : Deliver(p) /\ late' = late \ {p}
  /\ UNCHANGED <<streaming, resume, accumVars, firstTaskPacket, noData, controllerVars,
                 tasks, faults, historyVars>>

(* A task the scanner gave up streams to the same fixed port: a packet with any *)
(* centre a task of this scanner lists.                                         *)
StaleArrives ==
  /\ streaming /\ faults < MaxFaults /\ Len(network) < MaxInFlight
  /\ faults' = faults + 1
  /\ \E center \in Centres, ch \in Chs, change \in BOOLEAN :
       Deliver([kind |-> "good", center |-> center, pos |-> 0, ch |-> ch,
                change |-> change, id |-> 0])
  /\ UNCHANGED <<streaming, resume, accumVars, firstTaskPacket, noData, controllerVars,
                 late, tasks, historyVars>>

(* A task of a better rank takes the device: the stream just stops. *)
Preempt ==
  /\ sending /\ sending' = FALSE
  /\ UNCHANGED <<streaming, resume, accumVars, firstTaskPacket, noData, plan, streamed, sent,
                 base, network, late, arrivals, tasks, faults, historyVars>>

ForeignArrives ==
  /\ streaming /\ faults < MaxFaults /\ Len(network) < MaxInFlight
  /\ faults' = faults + 1 /\ network' = Append(network, Foreign)
  /\ UNCHANGED <<streaming, resume, accumVars, firstTaskPacket, noData, controllerVars,
                 late, arrivals, tasks, historyVars>>

-----------------------------------------------------------------------------
(* next(): one packet.  Variants (<definition>_<mistake>) as in SweepPlan.   *)

Sample(p)     == [id |-> p.id, pos |-> p.pos, center |-> p.center]
Added(acc, p) == [acc EXCEPT ![p.ch] = Append(@, Sample(p))]
PositionsIn(acc) == UNION {{acc[ch][i].pos : i \in 1..Len(acc[ch])} : ch \in Chs}

Return_NewTaskBudget(center, acc) ==
  /\ dwell' = [center |-> center, samples |-> acc]
  /\ returned' = [ch \in Chs |-> returned[ch] + Len(acc[ch])]
  /\ lastReturned' = [ch \in Chs |-> IF acc[ch] = <<>> THEN lastReturned[ch]
                                     ELSE acc[ch][Len(acc[ch])].id]
  /\ reported' = reported \cup PositionsIn(acc)
  /\ firstTaskPacket' = TRUE

(* next() gives a dwell out; the next call keeps first_task_packet_. *)
Return(center, acc) ==
  /\ dwell' = [center |-> center, samples |-> acc]
  /\ returned' = [ch \in Chs |-> returned[ch] + Len(acc[ch])]
  /\ lastReturned' = [ch \in Chs |-> IF acc[ch] = <<>> THEN lastReturned[ch]
                                     ELSE acc[ch][Len(acc[ch])].id]
  /\ reported' = reported \cup PositionsIn(acc)
  /\ firstTaskPacket' = FALSE

Collect(center, acc) ==
  /\ current' = center /\ accum' = acc /\ firstTaskPacket' = FALSE
  /\ UNCHANGED <<dwell, returned, lastReturned, reported>>

EndsDwell_NoFlag(p) == FALSE

\* The packet opens a new position while samples of another are waiting.
EndsDwell(p) == p.change /\ current # 0 /\ accum # Empty

NewPosition_KeepsAccum(p) ==
  /\ Return(current, accum)
  /\ current' = p.center /\ accum' = Added(accum, p)

(* What is waiting is returned, and the packet begins the next dwell. *)
NewPosition(p) ==
  /\ Return(current, accum)
  /\ current' = p.center /\ accum' = Added(Empty, p)

SamePosition_NeverFull(p) == Collect(p.center, Added(accum, p))

(* The packet is added; the dwell is returned once channel 0 is complete. *)
SamePosition(p) ==
  LET acc == Added(accum, p) IN
  \/ Len(acc[0]) < DwellSamples /\ Collect(p.center, acc)
  \/ Len(acc[0]) >= DwellSamples /\ Return(p.center, acc) /\ current' = 0 /\ accum' = Empty

(* A packet of the controller moves resume_hz_, and is used unless damaged. *)
ReceivePacket ==
  /\ streaming /\ network # <<>> /\ network' = Tail(network)
  /\ noData' = 0 /\ started' = TRUE
  /\ LET p == Head(network) IN
     /\ p.kind # "foreign"
     /\ resume' = Resume(p.center)
     /\ seen' = seen \cup Cells(p.center)
     /\ \/ /\ p.kind = "truncated"
           /\ Collect(current, accum) /\ UNCHANGED accepted
        \/ /\ p.kind = "good"
           /\ accepted' = [accepted EXCEPT ![p.ch] = @ + 1]
           /\ \/ EndsDwell(p) /\ NewPosition(p)
              \/ ~EndsDwell(p) /\ SamePosition(p)
  /\ UNCHANGED <<streaming, controllerVars, late, arrivals, tasks, faults, lostChanges>>

(* A datagram that is too short or has another magic number counts as data only. *)
ReceiveForeign ==
  /\ streaming /\ network # <<>> /\ Head(network).kind = "foreign"
  /\ network' = Tail(network)
  /\ noData' = 0 /\ firstTaskPacket' = FALSE /\ started' = TRUE
  /\ UNCHANGED <<streaming, resume, accumVars, controllerVars, late, arrivals, tasks, faults,
                 lostChanges, accepted, returned, lastReturned, reported, seen>>

-----------------------------------------------------------------------------
Finished == ~streaming /\ tasks = MaxTasks /\ UNCHANGED vars

Next == \/ Open \/ Abort \/ ReceiveTimesOut \/ ReceivePacket \/ ReceiveForeign
        \/ Send \/ LateArrives \/ StaleArrives \/ Preempt \/ ForeignArrives
        \/ Finished

Spec == Init /\ [][Next]_vars

-----------------------------------------------------------------------------
(* Properties.                                                              *)

IsSample(s) == s.id \in Nat /\ s.pos \in Nat /\ s.center \in Nat

\* Every variable keeps its type; resume_hz_ stays inside the band.
TypeOK ==
  /\ {streaming, firstTaskPacket, sending, started} \subseteq BOOLEAN
  /\ resume \in Start..(Stop - 1)
  /\ {current, noData, sent, base, arrivals} \subseteq Nat
  /\ \A ch \in Chs : \A i \in 1..Len(accum[ch]) : IsSample(accum[ch][i])
  /\ \A i \in 1..Len(plan) : plan[i] \in (Start + Half)..Stop
  /\ tasks \in 0..MaxTasks /\ faults \in 0..MaxFaults

\* Of the packets that came in their place, those of two positions meet in one dwell
\* only if the first packet of the later one did not: it was lost, damaged or delayed.
\* A dwell of such packets only is then labelled with the later one's frequency.
OneDwell(center, samples) ==
  LET P == PositionsIn(samples) IN
  /\ \A p, q \in P \ {0} : p < q => q \in lostChanges
  /\ 0 \notin P => \A ch \in Chs : \A i \in 1..Len(samples[ch]) :
       (\A q \in P : q <= samples[ch][i].pos) => samples[ch][i].center = center

\* What a dwell mixes can be told from the network: positions of the running task
\* only when the packet that opens the later one is lost, damaged or delayed, and
\* other samples only when a delayed or repeated packet, or one of a task the
\* scanner abandoned, lands in it (next() takes any packet with the magic number);
\* both for the dwell next() returned and for the one it collects, on all channels.
MixesOnlyAfterLoss == OneDwell(dwell.center, dwell.samples) /\ OneDwell(current, accum)

\* Within a task every sample taken from a packet is given out once, in the order of
\* arrival, or still waits: none is dropped or repeated when a dwell ends inside a
\* packet.
SamplesConserved ==
  \A ch \in Chs :
    /\ accepted[ch] = returned[ch] + Len(accum[ch])
    /\ \A i \in 1..Len(accum[ch]) :
         accum[ch][i].id > (IF i = 1 THEN lastReturned[ch] ELSE accum[ch][i - 1].id)

\* Packets of the running task that have arrived.
Arrived == sent - Cardinality({i \in 1..Len(network) : network[i].pos > base})

\* As long as nothing is lost, every position whose successor has begun to
\* arrive has been returned; so has the last, if the controller streams enough.
NoPositionMissed ==
  streaming /\ faults = 0 =>
    \A i \in 1..Len(plan) :
      \/ Arrived > i * PerPosition
      \/ Arrived = i * PerPosition /\ streamed >= DwellSamples
      => base + i \in reported

\* Once data has arrived for a task, StreamTimeout receive timeouts end it: the
\* long first budget is granted once per task, not once per dwell.
LongBudgetOncePerTask == streaming /\ started => noData < StreamTimeout

\* The entries of every task cover the band from Start to half a step below
\* Stop, wherever the sweep resumes and whatever the band's width is.
TaskCoversBand == streaming => \A f \in Start..(Stop - Half - 1) : Covering(plan, f) # {}

\* TaskManagerIqSource.cpp:316 "a re-submission after preemption continues the
\* sweep": the frequency just below where the next task begins was received.
ContinuesSweep == ~streaming /\ seen # {} /\ resume # Start => resume - 1 \in seen
=============================================================================
