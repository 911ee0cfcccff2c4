# TLA+ models of AcquisitionApp

AcquisitionApp sweeps bands of spectrum through software radios that another
process (the "controller") owns. It submits SCAN tasks to the controller over
AMQP, receives the IQ samples over UDP, detects signals, and passes what it
detects on: to PostgreSQL and to AMQP consumers. This
directory holds TLA+ models of that program, the TLC runs that check them on
small instances, and proofs, checked by TLAPS, of every safety and action
property of the passing runs, and of the refinements, for all values of the constants. Source paths below are
relative to the repository root.

## 1. Inventory

| Component | State it keeps | Operations | Talks to |
|---|---|---|---|
| Sweep control: `SpectrumScanner` (`src/SpectrumScanner.cpp`) | `running_`, its thread | `start`, `stop`, `sweepLoop` | calls `IqSource` |
| Task session: `TaskManagerIqSource` (`src/TaskManagerIqSource.cpp`) | `running_`, `task_id_`, `udp_fd_`, `prebound_port_`, `resume_hz_` | `open`, `next`, `close`, `stop`, `submitTask`, `sendTaskStop`, `queryDeviceCount` | channel, UDP socket |
| `TaskAmqpChannel` (same file) | `ready_`, `reply_addr_`, `pending_corr_`, `pending_result_`, work queue | `exchange`, `send`, `start`, `stop`, proton callbacks | broker, controller |
| Dwell assembly: `TaskManagerIqSource::next`, `buildScanRequest` | `ch_accum_`, `current_center_hz_`, `first_task_packet_`, `resume_hz_` | one step per packet or receive timeout | UDP |
| Persistence filter: `SpectrumScanner::processDwell` | `ch_persist_`: hits and misses per channel, centre and 10 kHz bucket | one step per dwell | detection callback |
| Detection: `FftProcessor` | the averaged spectrum, prefix sums | `computeSpectrum`, `detectFromSpectrum` | none |
| Detection log: `DetectionDb` | `queue_`, `stopped_`, worker thread | `push`, `workerLoop`, `flush`, destructor | PostgreSQL |
| Detection publisher: `AmqpPublisher` | `work_queue_`, `stopping_`, the sender, its thread | `start`, `stop`, `publish`, callbacks | broker |
| P25 grants: `P25GrantConsumer` | `queue_` (5 at most), `running_`, worker | `on_message`, `enqueue`, `worker_loop`, `start`, `stop` | broker, the capture handler in `main.cpp` |
| P25 inventory: `P25Db` | one connection | `upsert_control`, `upsert_grant` with one reconnect | PostgreSQL |
| Alerts: `AlertConsumer`, `AlertStore`, `AlertPublisher` | `work_q_`, a worker, one connection | `on_message`, `workerLoop`, `insert` | broker, PostgreSQL |
| GPS position: `GpsCache` | the last fix | `on_message`, `get` | broker |
| GPS band monitor: `GpsMonitor` | per-band baseline | `tick`, `checkBand` | alerts |
| Configuration: `SweepConfig` | immutable after start | `from_file`, `splitBands` | start-up |
| Start-up and shutdown: `main.cpp` | `g_running`, the objects above | construction, signal, orderly stop | everything |
| Recorder: `sdr_recon.py` | `_cooldown`, `_record_lock`, `_pending`, a capture thread | `on_detection`, `_capture`, `rpc`, `collect_iq` | broker, controller, disk |

### How they interact

`main()` builds one `TaskManagerIqSource` and one `SpectrumScanner` per band.
A scanner owns a *sweep thread* that drives its source: `open()` pre-binds a
UDP socket, submits a SCAN task through the channel and waits for the answer;
`next()` assembles datagrams into dwells; `close()` sends TASK_STOP and closes
the socket; a failed `open()` is closed, slept on and retried. Each channel has
a *proton thread*; the sweep thread hands it closures through a work queue and
waits on condition variables for its callbacks. The *main thread* waits for a
signal and stops the scanners one after the other. A detection callback runs on
the sweep thread and calls `DetectionDb::push` (a mutex, a condition variable
and a worker thread that writes batches) and `AmqpPublisher::publish` (the work
queue of another proton thread). P25 grants and alerts follow the same pattern:
a proton callback enqueues, a worker drains.

### What is hard, and what makes each part correct

* **Sweep control and task session.** Three threads and a remote controller
  interleave; every step of `open()` may fail after an earlier one took a
  resource; an exchange may time out while its answer is on the way; the channel
  may drop a stop; `open()` sets a flag that `stop()` has just cleared. Correct
  means: no socket leaks, one live task at most, packets are received from the
  scanner's own task, an answer is matched with its request, `stop()` returns.
* **Dwell assembly and sweep plan.** UDP packets are lost, damaged, delayed and
  repeated, a task that was given up may go on streaming to the same fixed port,
  and a task may be preempted at any packet. Nothing in a packet tells `next()` any of this.
  Correct means: a dwell mixes centre frequencies only where such a packet
  explains it, no accepted sample is dropped or given out twice, a resumed sweep leaves
  no part of the band out.
* **Persistence filter.** A weak signal is reported only after it is seen
  twice; a stale entry disappears; of two signals in one bucket, the order of their peaks decides
  which one is reported. Correct means: counts and expiry agree with
  the sequence of dwells.
* **Queues and workers** (log, grants, alerts). A condition variable with
  its predicate, a destructor, a bounded queue that drops the oldest entry,
  a failed write. Correct means: nothing is lost but what is documented as
  lost, order is kept, nothing is written twice, stop drains and terminates.
* **Start-up, publisher, GPS cache, shutdown.** The callback of every scanner
  uses three objects that the main thread destroys; the publisher's queue is
  known only after the first connection, which may never come, and the
  connection is lost at any moment. Correct means: no callback reaches an object
  that is gone, what was handed over is drained, and
  the program exits after a signal.
* **Recorder.** A reactor thread checks a cooldown and answers requests of
  capture threads that may have given up. Correct means: every exit frees the
  socket, the request and the lock.
* **Band splitting, CFAR.** Pure computations with boundaries: integer division
  with a remainder, windows clamped at the edges, a run that is open when the
  loop ends.

## 2. Plan

Modules are written in the order of the behaviour that matters most: first the
task session and the data path, on which everything else depends, then the
filter, then the hand-over queues, then what surrounds them.

| Module | Models | State |
|---|---|---|
| `TaskLease` | abstract: what a session promises the controller, one task at a time | done |
| `ScanSession` | sweep control, task session, channel, controller; implements `TaskLease` | done, proved (`ScanSessionProofs`) |
| `SweepPlan`, `SweepStream` | positions of a task, resume, dwell assembly | done, proved (`SweepStreamProofs`) |
| `Persistence` | persistence filter | done, proved (`DetectionProofs`) |
| `Mailbox` | abstract: what a hand-over queue promises | done, proved (`MailboxProofs`) |
| `GrantQueue` | P25 grants and their records (`P25Db`), implements `Mailbox`, uses `DbLink` | done, proved (`GrantQueueProofs`) |
| `DbLink`, `DetectionDb` | a PostgreSQL connection; the detection log, implements `Mailbox` | done, proved (`DetectionDbProofs`) |
| `AlertQueue` | alerts, implements `Mailbox`, uses `DbLink` | done, proved (`AlertQueueProofs`) |
| `Recon` | recorder | done, proved (`DetectionProofs`) |
| `Bands` | the bands of the scanners, composed with `SweepPlan` | done, proved (`ApplicationProofs`) |
| `Publisher` | `AmqpPublisher` across disconnections | done, proved (`ApplicationProofs`) |
| `Application` | `main()`: construction, the callbacks of all threads, `GpsCache`, P25 captures, orderly stop; extends `Bands` and `Publisher` | done, proved (`ApplicationProofs`) |
| `Cfar` | the loop of the detector, against sets of bins | done, proved (`DetectionProofs`) |

What is left: a
composition of `Persistence` with `SweepStream`, which would bound the number of
centres that have entries (a sweep tunes to centres a whole number of half steps
above `Start` only, which `SweepStreamProofs` has in its invariant).

## 3. The models

Conventions. A definition keeps the name of the function it stands for where
that is possible. `Cfar`, `Persistence` and `Recon` are extended by one module of proofs, so
their specifications are named apart (`DetectorSpec`, `FilterSpec`, `RecorderSpec`). A variable's comment names the field it models; *history*
variables are ours and only read by properties. Definitions called
`<name>_<mistake>` are plausible wrong edits of the definition `<name>` below
them; no specification uses them, they document which mistake each property
rejects. A bound on a behaviour is a constant whose comment starts with
"bound:", and occurs in guards and types only.

### `ScanSession`: sweep control, task session, channel

*Threads.* `mainPc` is the thread that starts, stops and destroys a scanner and
its source; `sweepPc` is the place of the sweep thread in `sweepLoop()`, `open()` and
`next()`; the proton thread of the channel is the group `Proton`; the
controller and the broker are `Controller`. One step is one critical section or
one access to an atomic that another thread can observe: `stop()`'s two stores
(`StopScanner`, `StopSource`), the tests of the two flags (`InnerTest`,
`NextTest`, `HandleDwell`), the two halves of `exchange()` around its wait.

*Failures.* Each bind may fail; the channel may not be ready; the wait for an
answer may end before it comes; the answer may be a rejection, an acceptance
without a port, or one with another port; the link may break at any moment,
which loses the answers under way (the reply address is dynamic); the controller
may end a task at any moment. While the connection is away (`attached` is false), posted closures
wait, and so does the channel's `stop()`, which posts its close behind them and joins
the proton thread (`StopChannel`). Only a channel that never connected has no work queue and
is stopped without. A closure that runs between the return of the connection and that of
the receiver may be lost on the old sender.

*Abstracted.* Sleeps and how long waits are: a wait may end whenever its
predicate is false. An ACCEPTED answer is assumed to name its task.
`queryDeviceCount()`, which `main()` calls on a separate source before any
scanner exists, is in `Application`. The samples in a dwell are `SweepStream`'s matter,
so `Receive` chooses freely among "nothing yet", "stream over" and "dwell".

*The promise.* `TaskLease` is the session as the controller may rely on it, with
neither threads nor queues: a scanner asks for a task only when it has none, holds
one only if the controller started it, gives each back once, and a task starts
only when every earlier one that still runs was abandoned (given up unanswered, or its return
was lost). `ScanSession` implements it under the mapping `Lease`: `Holder` is read off
`sweepPc` and `task_id_`, `Returning` are the TASK_STOPs in the two queues. Which
step of the code is which step of the lease: `SubmitTask` is `Ask`; the three ends of
`exchange()` are `Hold`, `Refused` and `GiveUp`; any `close()` with a task is
`Return`; a stop that a channel drops is `Lose`; the controller's steps are
`Start`, `Stopped` and `End`; everything else leaves the lease alone.

### `SweepPlan` and `SweepStream`: what is swept and what becomes of the samples

`SweepPlan` has the two loops of `buildScanRequest()` (`Entries`) and the
update of `resume_hz_` (`Resume`), over integers whose unit is fine enough for
half a step. `SweepStream` adds the controller that streams the positions of a
task, a network, and
`next()`: `ReceiveTimesOut`, `ReceivePacket` (with `EndsDwell`, `NewPosition`,
`SamePosition` for its branches) and `ReceiveForeign`. In the network a packet
may be damaged, held up behind any others (perhaps for ever, which is its loss, or until a later task streams to the same port), or arrive a
second time; other datagrams arrive (`ForeignArrives`), and packets of a task that was
given up and streams to the same port, with any centre a task of this scanner can
list (`StaleArrives`). A packet that arrives in its place names the position
it was sent for, which the code cannot see and the properties can; any other packet has
position 0. Packets are numbered as they reach the socket's buffer. The number
of packets a controller sends for a position (`StreamLengths`) may be smaller
or larger than a dwell, since `dwell_ms` is truncated to whole milliseconds.
Rounding of doubles is not modelled.

### `Persistence`: the persistence filter

`ProcessDwell` is the filter part of `processDwell()`: candidates in the order
the detector returns them, the strongest peak first (`place`), one hit each in the bucket of
their frequency, emission at `MinHits` or on the bypass, a miss for every bucket of that centre not seen, eviction.
The properties define the filter a second time, from the history of dwells
alone, and demand equality.

### `Mailbox` and its three implementations

`Mailbox` accepts numbered items, lets one consumer take them in order, and
handles or loses what was taken; an overflow may give up the oldest. It is a
PROPERTY of `GrantQueue`, `DetectionDb` and `AlertQueue` under the refinement
mappings named `Abstract` in these modules.

* `GrantQueue` (`P25GrantConsumer`) and `AlertQueue` (`AlertConsumer`) split
  `cv.wait(lock, pred)` into the evaluation of the predicate under the lock and
  the step that blocks and unlocks, and make each notification a step of its
  own. The difference between the two is where `stop()` sets the flag:
  `AlertConsumer` does it with the mutex held, `P25GrantConsumer` does not.
* `DetectionDb` waits with a time limit, so its wait may end at any moment and
  notifications need no steps.
* `DbLink` is the PostgreSQL connection used by `DetectionDb`, `AlertStore` and
  `P25Db`: a transaction commits, fails on a live connection, ends with an unknown
  outcome, or meets a broken connection, and only the last makes the owner
  connect again. In `GrantQueue` the worker records each grant (`Record`) before it
  captures, if the program has such a connection (`recorder`). Rows, and
  the `ON CONFLICT` updates, are not modelled.

### `Recon`: the recorder

The reactor thread runs `on_message()` for detections and answers, one capture
thread at a time runs `_capture()`. The check of the cooldown, the attempt at the lock,
the lookup of a pending request and the filling of its box are separate steps. The cooldown is
measured in ticks; file contents, the WAV header and the database row are not
modelled.

### `Bands`, `Publisher` and `Application`: the program as a whole

`Bands` is the arithmetic that turns a configuration and the number of devices
into one band per scanner: `Configured` and `Effective` follow `main()`,
`SplitBands` is `SweepConfig::splitBands()`, of which `main()` has a copy.
Frequencies are integers of a unit that divides every slice.

`Publisher` is `AmqpPublisher`: `Post` hands a closure to the work queue, `RunJob`
runs the oldest on the proton thread, `StopBegins` and `StopEnds` are `stop()`
up to its join and after it. The work queue is proton's, so what it does while
the connection is away is external: closures wait. A closure that runs between
the reopening of the connection and that of the sender uses the old sender;
such detections are in `spoilt`.

`Application` extends both with `main()`. `mainPc` is the place of the main
thread: the objects are made in the code's order, each of which may fail as the
code allows, `queryDeviceCount()` is asked up to five times (`MaxAttempts`;
three here), the scanners and the P25 consumer are started, and after the signal
everything is taken down in the code's order. Each scanner's thread, and the
voice scanner's, goes through `on_detection()` in separate steps (`Stamp`, `Log`,
`PublishTests`, `PublishPosts`), with the publisher's test and its use of the
work queue apart. `alive` is the set of objects that exist. A scanner, the log
and the P25 consumer are no more here than what `main()` relies on: the
threads of the first two are gone when they are stopped, which their own modules check
(`StopReturns` of `ScanSession`, `RecordsSettle`). The stop of the P25 consumer may not
return: `p25` goes from `stopping` to `hung` in `WorkerMissesStop`, which is finding 2 seen
from `main()`. The sources' channels are
joined where the code destroys them: the probe after the device query (`CloseProbe`),
the others when `main()` returns (`DestroySources`); `away` says that the broker, once
reached by such a channel, is not there at that moment, and the join then waits
for `BrokerBack`. Of the position cache, its thread and its use by the callbacks are here,
the value of a position is not (section 7).

### `Cfar`: the detector

`Prepare` is `detectFromSpectrum()` up to the prefix sums, `Bin` one turn of its
loop with the lambda `flush` as `Flushed`, `LastFlush` the call after the loop.
Powers are integers of decibels and means fractions, so nothing is rounded. The
properties define the result a second time, from the spectrum as a whole: bins,
windows and runs as sets. Frequencies are left out, and the order of the result, which
is that of falling peaks: it is an input of `Persistence`, as `place`.

## 4. Runs

Nine runs pass, three show a disagreement between the code and something the
repository says about it. Each property of a passing run is broken by at least
one wrong edit of the model listed in `PROJECT.json`.

| Run | Bounds | States | Shows |
|---|---|---|---|
| `scan_session` | 1 local port, 1 substitute, 3 requests, 2 connections | 624 k | the safety properties of the session, `TaskLease`, and `StopReturns` |
| `sweep_stream` | 5 cells, step 2, 2 channels, 2 packets per dwell, streams of 1 or 3, 2 tasks, 1 fault | 6.6 M | what a dwell mixes comes from a packet lost or out of its place, no accepted sample dropped or repeated, no position missed, one long budget per task, plans cover the band |
| `sweep_resume_skips` | 8 cells, step 2, 1 channel, 1 packet per dwell, 1 task, no fault | – | finding 1 |
| `persistence` | 2 centres, 3 frequencies in 2 buckets, 2 signals per dwell, 5 dwells | 839 k | the filter equals its definition by history |
| `grant_queue` | the code's depth, 7 grants, 1 outage, 1 error | 450 k | the mailbox, the newest grants, at most one capture begun after `stop()`, no forgotten grant, at most one record lost after the server is back |
| `grant_queue_stop` | depth 1, 1 grant | – | finding 2 |
| `detection_db` | batches of 2, 6 detections, 2 outages, 2 errors | 36 k | the mailbox, at most one batch lost after the server is back, every detection settled, destruction drains and ends |
| `alert_queue` | 4 alerts, 2 outages, 1 error | 12 k | the mailbox, every alert settled, `stop()` drains and returns |
| `recon` | 2 bins, cooldown of 2, 3 captures, 4 ticks | 254 k | sockets and pending requests are cleaned up, captures end, a second capture within the cooldown happens only by the race described below |
| `application` | 6 configurations, 3 devices, 3 query attempts, 2 detections, 1 capture, 1 broken connection | 536 k | callbacks find their objects, what was posted is drained, the bands are shared out, gaps only at slice ends, a signal ends the program unless the P25 consumer's stop hangs |
| `application_capture` | 1 device, 1 capture, no detection | – | finding 3 |
| `cfar` | 8 usable bins, 4 levels, guard 1, reference 2, threshold 2 | 1.4 M | the loop finds the maximal runs, and a lone tone anywhere |

*Why the bounds are enough.* Three requests allow an abandoned one, its retry
and one more while the answer to the first is still under way; two connections
allow one loss of the link at any place, so that an answer can go to a dead
reply address. One fixed port is the hard case of re-binding (a leaked socket
makes the next bind fail). For all other values of the bounds the theorems of section 5 hold. Two tasks with a
preemption at every packet give a resume from every position and a
continuation of the position numbers; the band is no multiple of the step, and
streams of 1 and 3 packets lie on both sides of the dwell of 2. One fault is one packet
lost, damaged, held up for any time (into the next task, too), repeated, foreign or of an
abandoned task, at any place. Two signals in a dwell are
enough for two of one bucket, in either order. Five dwells let
an entry be made, age beyond the code's limit of misses (here 2 for 4 in the
code, the eviction rule is the same) and be made again. Seven grants overflow
a queue of depth 4 (which holds 5) twice. Six detections in batches of two give three batches,
so that two outages can meet consecutive ones. In `application`, two detections
are two threads in `on_detection()` at once, in any pair of places, and one loss
of the connection can come before, between and after their closures; the configurations cover each branch
of `Assignments`, bands of which all, one or none require a device among them, with widths that are no multiple of the step and slices with
two, one and no positions. With a guard of 1 and 2 reference bins, every
combination of full, clamped and empty windows on the two sides occurs among
8 bins except both empty, which needs at most 2 guards + 1 bins; the four levels lie on
both sides of the threshold and of the peak-to-mean ratio.

*Deadlock.* Checked for the session, the sweep, the filter and the detector,
whose ends are the explicit stuttering actions `Finished`. The queues, the
recorder and the program may stop for good, when nobody sends any more or all
have exited, so their configurations say CHECK_DEADLOCK FALSE; that they do not
stop early is what their liveness properties are for.

### Fairness

* Weak fairness of each thread's own steps: the operating system schedules the
  threads, and no step of theirs waits for another except where the model has a guard.
  Waits with a time limit are enabled as long as they may run out, and
  `recvfrom()` has a receive timeout. An attempt of `queryDeviceCount()` times
  out (`QueryUnanswered`); that it is answered is not assumed.
* `AlertQueue` needs strong fairness of `SetFlag`: `stop()` waits for a mutex
  that the worker takes again and again, and a mutex does not pass over a waiter for ever.
* In `ScanSession` nothing is assumed of the connection. Posted closures
  (`RunPosted`) and the channel's close (`StopChannel`) are guarded by its presence, and
  `StopReturns` says what follows: `SpectrumScanner::stop()` returns whatever the
  broker does, and the destructor reaches its channel; the channel's own `stop()` returns
  if there never was a connection or there is one for good from some moment on.
* In `Application`, a broker that was reached once is reached again
  (`workQueue /\ Network(Reconnects)` for the publisher, `BrokerBack` for the channels of the
  sources): the code's reconnection has no limit of
  attempts. Without this, `AmqpPublisher::stop()` waits with its close in the queue for as
  long as the broker is away, and so do the channels. A broker that was never there need not come.
* That the P25 consumer's worker is in time for its notification is not assumed;
  `ExitsAfterSignal` excepts its stop by name.
* `CapturesEnd` assumes that `_write_db()`, which has no timeout, returns.
* Not assumed: spurious wake-ups, an operator who stops the program, a broker or
  controller that answers, a server that comes back, arriving messages. In
  `DetectionDb` no notification is assumed either.

## 5. Proofs

Every safety invariant and action property that the passing runs check, and
every refinement, is a theorem that TLAPS checks for all values of the
constants. What remains to TLC is named at the end of the section.

| Module | Theorems (the property of a run they state) |
|---|---|
| `ScanSessionProofs` | `TypeCorrect` (`TypeOK`), `NoSocketLeakCorrect` (`NoSocketLeak`), `StopIsSeenCorrect` (`StopIsSeen`), `ReceivesItsOwnTaskCorrect` (`ReceivesItsOwnTask`), `LateAnswerIsIgnoredCorrect` (`LateAnswerIsIgnored`), `OrphansWereAbandonedCorrect` (`OrphansWereAbandoned`), `AtMostOneLiveTaskCorrect` (`AtMostOneLiveTask`), `Refinement` (`ImplementsTaskLease`); `StoppedOnce`: a task has at most one TASK_STOP under way, after it was let go |
| `SweepStreamProofs` | `TypeCorrect` (`TypeOK`), `SamplesOnceInOrder` (`SamplesConserved`), `DwellsMixOnlyAfterLoss` (`MixesOnlyAfterLoss`), `LongBudgetOnce` (`LongBudgetOncePerTask`), `EveryTaskCoversTheBand` (`TaskCoversBand`), `NoPositionIsMissed` (`NoPositionMissed`) |
| `MailboxProofs` | `InOrder`: items are handled in order and at most once; `NothingVanishes`: each is accounted for, in one place |
| `GrantQueueProofs` | `TypeCorrect` (`TypeOK`), `QueueHoldsNewest` (`QueueIsNewest`), `StopTakesAtMostOne` (`AtMostOneAfterStop`), `OneGrantUnrecorded` (`RecoversAfterOneGrant`), `Refinement` (`ImplementsMailbox`), `GrantsInOrder`; `NoGrantSleeps`: the worker does not sleep on a grant |
| `DetectionDbProofs` | `TypeCorrect`: types, and batches within their limit; `OneBatchLost` (`RecoversAfterOneBatch`), `Refinement` (`ImplementsMailbox`), `DetectionsInOrder`; `DestructorDrains`: nothing is left when the destructor returns |
| `AlertQueueProofs` | `Refinement` (`ImplementsMailbox`), `AlertsInOrder`; `NoNotificationForgotten`: the worker does not sleep through a notification; `StopDrains`: nothing is left when `stop()` returns |
| `ApplicationProofs` | `ObjectsOutliveCallbacks` (`CallbacksFindTheirObjects`), `NothingLeftAtExit` (`DrainedAtExit`), `BandsAreShared` (`DevicesShareTheBands`), `GapsAreNearTheEnds` (`GapsAreAtSliceEnds`) |
| `DetectionProofs` | `RunsAreDetected` (`DetectsTheRuns`), `ToneIsFound` (`LoneToneIsFound`), `MapAgreesWithHistory` (`MapMatchesHistory`), `EmitsTheConfirmed` (`EmitsConfirmed`), `RecorderTypeCorrect` (`TypeOK`), `NothingLeft` (`RequestsLeaveNothing`), `RecaptureIsARace` (`RecaptureOnlyByRace`) |

### Assumptions

Bounds are natural numbers and sizes positive; TLC evaluates every `ASSUME` in
the runs. The others:

* `StreamAssumption`: the first packet of a task is waited for no shorter than the next ones.
* `ConfigAssumption`: what `SweepConfig::from_file()` enforces (`Accepted`), and types.
* `UnitAssumption`: a slice is a whole number of units. This is the choice of the
  unit and no restriction of a configuration: `main()` divides doubles, the
  model integers.
* `ApplicationAssumption`: there are as many scanners as `Assignments` asks for at the most
  (`MaxScanners` bounds the set of threads).
* `CfarAssumption`: there is a bin outside the margins, at least one reference bin, a
  threshold that is not negative. `LoneToneIsFound` asks for a threshold above 0:
  without one, the proof attempt showed, another bin may be as strong as the tone.
* `FilterAssumption`: finitely many frequencies, as an FFT has. `ReconAssumption`: some bin.

### The arguments

Few of the properties are inductive by themselves. Each module of
proofs names its inductive invariant and its parts.

* *Task session* (`SafetyInv`, `TasksInv`). `ControlInv` relates the two
  threads' places and flags: after `stop()` has stored both flags the sweep
  thread can be in `next()` with the source's flag set only if `open()` set it
  afterwards, and then `InnerTest` has still to be passed. `SocketInv` says what
  is held at each place of the sweep thread. `QueueInv` says that SCAN requests
  are in the order of their ids in the work queue and the broker's queue, the
  latter before the former. `AnswerInv` says that every answer belongs to a
  request that is no longer under way, and that `pending_corr_`, the pending
  result and `task_id_` name the latest request or nothing; it needs the order
  of the queues, from which no request is handled twice. `TasksInv` adds where a
  live task can come from: ahead of a request that was not given up, the queues
  hold the stop of every live task that was not given up either (`StopsFirst`). That is
  why the controller, which works the queue off in order, never has two. `StartedOK`
  says when a task may have started, and that answers tell the truth about it: an
  acceptance is only ever seen of a started task, a rejection of one that never
  starts. `ReturnsOK` counts the stops: one per task in both queues together, none of the
  task held or waited for. With these, each step is one of `TaskLease` or a stutter.
* *Data path* (`SafetyInv`, `ProgressInv`). Packets carry the number with which they
  came into the socket's buffer, through all tasks. Everything that waits in an
  accumulator is older than everything in the buffer, and the buffer is in order of
  these numbers (`IdsOK`), whatever the network did. Packets that came in their place also carry the
  number of their position, and are in order of it, with any number of others in between
  (`PositionsOK`); ahead of the packets of a position is the one that
  opens it, unless that one did not come in its place (`OpenersOK`). `ProgressInv` counts: without a
  loss the buffer is what is left of the task, from the packet after the first
  `a`, and the positions those `a` packets have passed have been returned. `TaskCoversBand` is
  arithmetic: a list of centres a step apart leaves no cell out between two of them, and
  the second loop of `buildScanRequest()` starts where the first list did.
* *Queues.* The invariants tie what a worker holds to its place. The steps of
  the implementation are then, case by case, `Accept`, `Take`, `Settle` or
  stutters of the mailbox, and `HandledInOrder` and `NoneVanishes`, proved once in
  `MailboxProofs`, carry over through the refinement mapping. `LinkOK` is the
  strengthening behind both recovery theorems: while the server is up and
  the connection broken, no transaction has failed for it yet.
  In `AlertQueue` the invariant also shows what `P25GrantConsumer` lacks: the
  worker cannot go to sleep once the flag is set, because it is set under the lock.
* *Program.* The place of `main()` determines which threads may be in
  `on_detection()` (`ThreadsOK`, `VoiceOK`) and which objects exist
  (`AliveOK`); if there is a log, a detection is in it or in the hands of a
  thread on its way there (`LoggedOK`), and one that was posted is in the work
  queue, sent or spoilt (`JobsOK`). The bands are the concatenation of each band's
  slices; that every frequency is in as many slices as bands is
  proved slice by slice (`SlicesAre`, `PiecesAre`, `CountConcat`), and that none of them
  names a device if no band does (`SlicesArePlain`), from which there is a band for each device.
* *Detector* (`DetectorInv`). Before a bin, the signals are those of the runs
  that ended before it, and `run` is the run that is open, with its peak and its
  sum. The prefix sums give the sums of windows, also the clamped ones.
* *Filter* (`FilterInv`). The map of a centre is a function of its history, which
  each dwell extends; the run of sightings that counts is found from the last
  gap that was too long. What a candidate finds on its turn is the earlier sightings and those of
  its dwell with a stronger peak.
* *Recorder* (`RecorderInv`). A bin that was checked has cooled down unless a
  capture has marked it since (`CheckedOK`); only the capture at hand has saved
  a file and not yet marked its bin (`CooldownOK`).

Two facts are proved by induction over data: sums and prefix sums
in the detector, and the concatenation of slices in `Bands`. The induction theorems of
the library take an operator as a parameter and cannot be used; the proofs take
the least counterexample instead, which exists since `<` is well founded on the
natural numbers (`LeastElement`).

### Only model-checked

* The liveness properties: `StopReturns`, `GrantsAreTaken`, `RecordsSettle`,
  `AlertsSettle`, `CapturesEnd`, `ExitsAfterSignal`, and the absence of deadlock
  where it is checked. The prover handles neither fairness nor ENABLED. What they
  need of safety is proved where it is the hard part: `NoGrantSleeps`,
  `NoNotificationForgotten`, `StopIsSeenCorrect`.
* The three findings, which are counterexamples.

## 6. Findings

1. **A resumed sweep skips half a step** (`sweep_resume_skips`). `resume_hz_` is
   set to a centre plus a step (`TaskManagerIqSource.cpp:577`) but used as a
   lower edge (line 332); `TaskManagerIqSource.cpp:316` says the sweep
   continues. The whole task still covers the band, because it wraps
   (`TaskCoversBand`).
2. **`P25GrantConsumer::stop()` can hang** (`grant_queue_stop`): the flag and
   the notification come between the worker's predicate and its wait
   (`P25GrantConsumer.cpp:122`).
3. **A P25 capture does not tune to its grant** (`application_capture`): the
   handler gives the granted channel to its scanner, but the source that builds
   the SCAN task has the program's own configuration (`main.cpp:278`), so the
   configured range is swept. `main.cpp:252` and `:292` say otherwise.

Noted while modelling, without a run:

* A task accepted late is never stopped. `close()` sends TASK_STOP only for a
  task whose acceptance was seen (`TaskManagerIqSource.cpp:406`); `IqSource.hpp:63`
  promises to "cancel any in-flight task". `OrphansWereAbandoned` shows that
  this and a stop dropped by a channel that is down are the only ways.
* The last flush of the log does not reconnect (`DetectionDb.cpp:133`): after an
  outage that is over, the remaining detections are lost, while
  `DetectionDb.hpp:43` says the destructor flushes them. In the model it is
  `FinalFlush`, with `Flush(FALSE)`.
* A detection that arrives before `ReconSession()` has returned ends the recorder's
  reactor thread, since the callback uses `sess` before it is assigned
  (`sdr_recon.py:524`; `DetectTooEarly`); line 26 says it runs continuously.
* `scan_device_ids` takes precedence over `bands` (`main.cpp:162`), where
  `SweepConfig.hpp:178` and `main.cpp:144` say the opposite.
* A required device is passed on only when no bands are configured
  (`main.cpp:174-183`); `SweepConfig.hpp:60` knows no such exception.
* Bands of which only some require a device are all split (`main.cpp:202`), so that one
  device gets several slices and another may get none: `main.cpp:204` distributes
  the bands "so all devices are used", and lines 188-190 say why not to split a
  required band. `DevicesShareTheBands` therefore counts on every device only if no band requires
  one (`Usable`: the devices that are named, and one for each band without).
* Slices do not end at positions: what lies above the last position's cell of a
  slice, up to half a step, is swept by no scanner, and a slice narrower than half a step has no
  position at all (`TaskManagerIqSource.cpp:332`). `GapsAreAtSliceEnds` shows there is no
  other gap; `SweepConfig.hpp:216` lets every device cover its range.
* The position stamped on a detection reaches the log; `AmqpPublisher::makeMessage` leaves it out.
  A message that is JSON but has no coordinates sets the position to (0, 0, 0)
  (`GpsCache.cpp:76`; the test `MissingFieldsDefaultToZero` expects it of `parse_fix`).
* `FftProcessor.hpp:32` describes an IQ imbalance correction that
  `FftProcessor.cpp` does not have.
* `SpectrumScanner.hpp:23` and `:92` and `SpectrumScanner.cpp:184` speak of consecutive sweeps.
  A hit is not taken back by a miss (line 239), so two hits up to four misses apart confirm a
  candidate, and two signals in one bucket confirm each other in a single dwell, where
  the one with the weaker peak is emitted. `EmitsConfirmed` states this, not what the comments
  say. A signal near a bucket's edge may be counted in either
  (`SpectrumScanner.hpp:100`).
* `IqSource.hpp:29` describes a dwell from a single frequency position; when the packet
  that announces a position does not come in its place, the dwell contains both and is labelled
  with the later, and `next()` takes any packet with the magic number
  (`TaskManagerIqSource.cpp:567`), so that a delayed or repeated packet and one of an
  abandoned task on the same fixed port are mixed in as well. `MixesOnlyAfterLoss` shows
  that nothing else is.
* As long as a broker that was reached once is away, the channel's `stop()` waits for its proton
  thread (`TaskManagerIqSource.cpp:91-106`); the comment there treats only
  a broker that never came. `StopReturns` states both cases.
* `TaskManagerIqSource.cpp:317-319` says a task covers every position exactly once;
  after a resume off the grid neighbouring entries overlap.
* `AlertConsumer.hpp:55-56` says message handling and storage both run on the
  proton thread; storage has a worker of its own.
* The recorder checks the cooldown before it takes the lock
  (`sdr_recon.py:289`), so a detection that arrives as a capture of the same
  bin ends starts another (`RecaptureOnlyByRace` shows it is the only way).

## 7. Not modelled

The Fourier transform, its window and averaging in `FftProcessor` and the noise
floor's moving average, which only serves monitoring, are floating-point
computations outside TLC's reach. The detector's optional floor (no caller passes
one) and the conversion of bins to Hertz are left out. The value of a GPS position is not
modelled: it is the content of the last message that is JSON, copied under
a mutex. Parsing of configuration
and messages is input handling. `P25Db::upsert_control` has no caller;
`GpsMonitor` is built but never created, and its list of bands is never filled;
`AlertPublisher` is a declaration only; the schema and packaging files have no
behaviour. What proton does with a sender that `sdr_recon.py` uses from a thread
other than the reactor's (line 169) is not defined in this repository.

The network of `SweepStream` loses, damages, delays and repeats packets and injects others, but it
changes no content other than by damage that `next()` notices; a packet of an
abandoned task carries a centre that a task of this scanner can list.

A limit of `Application`: its scanners, log and P25 consumer are what `main()` sees
of them, and its publisher knows closures and connections, not messages under way.
