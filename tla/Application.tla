----------------------------- MODULE Application -----------------------------
(***************************************************************************)
(* main(): it constructs the publisher, the detection log, the position    *)
(* cache and one scanner per band, waits for a signal and takes them down  *)
(* again.  Meanwhile every scanner's thread, and that of a P25 capture,    *)
(* may call on_detection(), which uses the three others.  Inside, a        *)
(* scanner is ScanSession, the log DetectionDb and the P25 consumer        *)
(* GrantQueue; here they are what main() relies on: once stopped, their    *)
(* threads are gone, but the stop of the P25 consumer may not return.      *)
(* Detections are numbered as they occur.                                  *)
(***************************************************************************)
EXTENDS Bands, Publisher, FiniteSets

CONSTANTS Channels,       \* frequencies of P25 voice channels
          MaxScanners,    \* bound: scanners of a configuration
          MaxAttempts,    \* kMaxWaitMs / kStepMs in queryDeviceCount()
          MaxDetections, MaxCaptures   \* bounds: calls, grants

ASSUME ApplicationAssumption ==
  /\ Channels \subseteq Nat \ {0}
  /\ {MaxScanners, MaxAttempts, MaxDetections, MaxCaptures} \subseteq Nat
  /\ \A c \in Configs, n \in 0..MaxDevices :
       Len(Assignments(c, n)) <= MaxScanners

VARIABLES
  mainPc,     \* the main thread
  running,    \* g_running
  cfg, ok,    \* the configuration; amqp_ok and db_ok, as a set
  waited,     \* attempts of queryDeviceCount() that timed out
  devices,    \* the number of devices it reported, while main() uses it
  scanners,   \* the bands of the scanners
  alive,      \* the objects on_detection() may use: constructed, not destroyed
  thread,     \* place of each scanner's thread; that of a P25 capture is Voice
  inHand,     \* the detection that thread handles
  gps,        \* the position cache's thread
  away,       \* the broker, reached once by a source's channel, is away as it is joined
  p25,        \* the P25 consumer: off, on, stopping, or its stop never returns: hung
  capture,    \* the granted channel while its voice scanner exists, or 0
  captures,
  emitted,    \* history: detections so far
  log         \* history: detections pushed to the log

setup    == <<cfg, ok, waited, devices, scanners>>
callback == <<thread, inHand, emitted, log>>
peers    == <<gps, away>>
grant    == <<p25, capture, captures>>
vars     == <<mainPc, running, setup, alive, callback, peers, grant, publisher>>

Voice   == 0
Threads == Voice..MaxScanners

Init ==
  /\ mainPc = "amqp" /\ running = TRUE /\ cfg \in Configs
  /\ ok = {} /\ waited = 0 /\ devices = 0 /\ scanners = <<>> /\ alive = {}
  /\ thread = [t \in Threads |-> "none"] /\ inHand = [t \in Threads |-> 0]
  /\ emitted = 0 /\ log = {}
  /\ gps = "absent" /\ away = FALSE /\ p25 = "off" /\ capture = 0 /\ captures = 0
  /\ PublisherInit

Go(from, to)  == mainPc = from /\ mainPc' = to
Move(t, p)    == thread' = [thread EXCEPT ![t] = p]
Done(t)       == Move(t, "sweeping") /\ inHand' = [inHand EXCEPT ![t] = 0]

-----------------------------------------------------------------------------
(* Start-up.  Starting the publisher does not wait for the broker; opening  *)
(* the log does wait for the server.                                        *)

StartPublisher ==
  /\ Go("amqp", "db")
  /\ \/ ok' = {"amqp"} /\ alive' = {"amqp"} /\ PublisherStart
     \/ UNCHANGED <<ok, alive, publisher>>
  /\ UNCHANGED <<running, cfg, waited, devices, scanners, callback, peers, grant>>

OpenLog ==
  /\ mainPc = "db"
  /\ \/ ok' = ok \cup {"db"} /\ alive' = alive \cup {"db"} /\ mainPc' = "gps"
     \/ mainPc' = (IF ok = {} THEN "exited" ELSE "gps") /\ UNCHANGED <<ok, alive>>
  /\ UNCHANGED <<running, cfg, waited, devices, scanners, callback, peers, grant, publisher>>

(* The cache may exist without a thread, when only its start() fails. *)
StartGps ==
  /\ Go("gps", IF cfg.devices = <<>> THEN "probe" ELSE "spawn")
  /\ \/ "amqp" \in ok /\ gps' \in {"running", "idle"} /\ alive' = alive \cup {"gps"}
     \/ UNCHANGED <<gps, alive>>
  /\ UNCHANGED <<running, setup, callback, away, grant, publisher>>

(* queryDeviceCount(): an attempt times out; after the last, one device is assumed. *)
QueryUnanswered ==
  /\ mainPc = "probe"
  /\ IF waited + 1 < MaxAttempts
       THEN waited' = waited + 1 /\ UNCHANGED <<mainPc, devices, away>>
       ELSE mainPc' = "closeProbe" /\ waited' = 0 /\ devices' = 1 /\ away' \in BOOLEAN
  /\ UNCHANGED <<running, cfg, ok, scanners, alive, callback, gps, grant, publisher>>

(* An answer to any attempt, all of which have one id. *)
QueryAnswered ==
  /\ Go("probe", "closeProbe") /\ waited' = 0 /\ away' \in BOOLEAN
  /\ \E n \in 0..MaxDevices : devices' = IF n = 0 THEN 1 ELSE n
  /\ UNCHANGED <<running, cfg, ok, scanners, alive, callback, gps, grant, publisher>>

(* The probe is destroyed: its channel's proton thread is joined, which waits *)
(* while a broker that the channel has reached is away.                       *)
CloseProbe ==
  /\ Go("closeProbe", "spawn") /\ ~away
  /\ UNCHANGED <<running, setup, alive, callback, peers, grant, publisher>>

Spawn ==
  /\ Go("spawn", "start") /\ scanners' = Assignments(cfg, devices)
  /\ UNCHANGED <<running, cfg, ok, waited, devices, alive, callback, peers, grant, publisher>>

StartScanners ==
  /\ Go("start", "startP25") /\ devices' = 0
  /\ thread' = [t \in Threads |-> IF t \in DOMAIN scanners THEN "sweeping" ELSE "none"]
  /\ UNCHANGED <<running, cfg, ok, waited, scanners, alive, inHand, emitted, log, peers,
                 grant, publisher>>

(* The consumer; GrantQueue has its connection to the database. *)
StartP25 ==
  /\ Go("startP25", "run") /\ p25' = IF cfg.p25 THEN "on" ELSE "off"
  /\ UNCHANGED <<running, setup, alive, callback, peers, capture, captures, publisher>>

-----------------------------------------------------------------------------
(* on_detection(), on the thread of a scanner.                              *)

Detect(t) ==
  /\ thread[t] = "sweeping" /\ emitted < MaxDetections
  /\ Move(t, "stamp") /\ emitted' = emitted + 1 /\ inHand' = [inHand EXCEPT ![t] = emitted + 1]
  /\ UNCHANGED <<mainPc, running, setup, alive, log, peers, grant, publisher>>

(* The position is read, if there is a cache. *)
Stamp(t) ==
  /\ thread[t] = "stamp" /\ Move(t, "log")
  /\ UNCHANGED <<mainPc, running, setup, alive, inHand, emitted, log, peers, grant, publisher>>

Log(t) ==
  /\ thread[t] = "log" /\ Move(t, "publish")
  /\ log' = IF "db" \in ok THEN log \cup {inHand[t]} ELSE log
  /\ UNCHANGED <<mainPc, running, setup, alive, inHand, emitted, peers, grant, publisher>>

(* publish() looks at the queue and the flag, and posts in a later step. *)
PublishTests(t) ==
  /\ thread[t] = "publish"
  /\ IF "amqp" \in ok /\ Publishable THEN Move(t, "post") /\ UNCHANGED inHand ELSE Done(t)
  /\ UNCHANGED <<mainPc, running, setup, alive, emitted, log, peers, grant, publisher>>

PublishPosts(t) ==
  /\ thread[t] = "post" /\ Done(t) /\ Post(inHand[t])
  /\ UNCHANGED <<mainPc, running, setup, alive, emitted, log, peers, grant>>

OnDetection(t) == Stamp(t) \/ Log(t) \/ PublishTests(t) \/ PublishPosts(t)

-----------------------------------------------------------------------------
(* The P25 capture handler, on the consumer's worker thread.                *)

\* The positions the capture's source asks for: it was built with the program's own
\* configuration, only the voice scanner is given the granted channel.
VoiceEntries == Plan(cfg.sweep.lo, cfg.sweep.hi)!Entries(cfg.sweep.lo)

BeginCapture ==
  /\ p25 \in {"on", "stopping"} /\ capture = 0 /\ captures < MaxCaptures
  /\ capture' \in Channels /\ captures' = captures + 1 /\ Move(Voice, "sweeping")
  /\ UNCHANGED <<mainPc, running, setup, alive, inHand, emitted, log, peers, p25, publisher>>

(* The voice scanner is stopped: its thread is joined. *)
EndCapture ==
  /\ capture # 0 /\ thread[Voice] = "sweeping" /\ capture' = 0 /\ Move(Voice, "none")
  /\ UNCHANGED <<mainPc, running, setup, alive, inHand, emitted, log, peers, p25,
                 captures, publisher>>

-----------------------------------------------------------------------------
(* Shutdown.                                                                *)

(* SIGINT or SIGTERM, at any time. *)
Signal ==
  /\ running /\ mainPc # "exited" /\ running' = FALSE
  /\ UNCHANGED <<mainPc, setup, alive, callback, peers, grant, publisher>>

SeeSignal ==
  /\ Go("run", "stopP25") /\ ~running
  /\ p25' = IF p25 = "on" THEN "stopping" ELSE p25
  /\ UNCHANGED <<running, setup, alive, callback, peers, capture, captures, publisher>>

StopP25_Detached ==
  /\ Go("stopP25", "stopScanners") /\ p25' = "off"
  /\ UNCHANGED <<running, setup, alive, callback, peers, capture, captures, publisher>>

(* The consumer's worker is joined, between two captures. *)
StopP25 ==
  /\ Go("stopP25", "stopScanners") /\ capture = 0 /\ p25 # "hung" /\ p25' = "off"
  /\ UNCHANGED <<running, setup, alive, callback, peers, capture, captures, publisher>>

(* The worker was about to wait when stop() notified it (GrantQueue): the join *)
(* does not return.                                                            *)
WorkerMissesStop ==
  /\ p25 = "stopping" /\ capture = 0 /\ p25' = "hung"
  /\ UNCHANGED <<mainPc, running, setup, alive, callback, peers, capture, captures, publisher>>

(* The scanners are stopped one after the other; each thread is joined. *)
StopScanner ==
  /\ mainPc = "stopScanners"
  /\ \E t \in DOMAIN scanners :
       /\ thread[t] = "sweeping" /\ \A u \in 1..(t - 1) : thread[u] = "joined"
       /\ Move(t, "joined") /\ mainPc' = IF t = Len(scanners) THEN "resetGps" ELSE mainPc
  /\ UNCHANGED <<running, setup, alive, inHand, emitted, log, peers, grant, publisher>>

ResetGps ==
  /\ Go("resetGps", "resetAmqp") /\ alive' = alive \ {"gps"}
  /\ gps' = IF gps = "absent" THEN gps ELSE "ended"
  /\ UNCHANGED <<running, setup, callback, away, grant, publisher>>

ResetAmqp ==
  /\ Go("resetAmqp", "joinAmqp") /\ StopBegins
  /\ UNCHANGED <<running, setup, alive, callback, peers, grant>>

JoinAmqp ==
  /\ Go("joinAmqp", "resetDb") /\ StopEnds /\ alive' = alive \ {"amqp"}
  /\ UNCHANGED <<running, setup, callback, peers, grant>>

ResetDb ==
  /\ Go("resetDb", "destroy") /\ alive' = alive \ {"db"} /\ away' \in BOOLEAN
  /\ UNCHANGED <<running, setup, callback, gps, grant, publisher>>

(* main() returns: the consumer has nothing left to stop, the sources close their *)
(* channels as the probe did.                                                     *)
DestroySources ==
  /\ Go("destroy", "exited") /\ ~away
  /\ UNCHANGED <<running, setup, alive, callback, peers, grant, publisher>>

(* The broker is back, and the channel closes. *)
BrokerBack ==
  /\ away /\ away' = FALSE
  /\ UNCHANGED <<mainPc, running, setup, alive, callback, gps, grant, publisher>>

-----------------------------------------------------------------------------
StartUp  == \/ StartPublisher \/ OpenLog \/ StartGps \/ QueryUnanswered
            \/ CloseProbe \/ Spawn \/ StartScanners \/ StartP25
Shutdown == \/ SeeSignal \/ StopP25 \/ StopScanner \/ ResetGps \/ ResetAmqp \/ JoinAmqp
            \/ ResetDb \/ DestroySources

others == <<mainPc, running, setup, alive, callback, peers, grant>>
Network(A) == A /\ UNCHANGED others

Next ==
  \/ StartUp \/ QueryAnswered \/ Shutdown \/ Signal
  \/ \E t \in Threads : Detect(t) \/ OnDetection(t)
  \/ BeginCapture \/ EndCapture \/ WorkerMissesStop \/ BrokerBack
  \/ Network(Reconnects) \/ Network(ConnectionBreaks) \/ Network(Proton)

Spec == Init /\ [][Next]_vars

(* Threads are scheduled, and the query's attempts time out; an answer, a   *)
(* signal or a grant need not come, and the broker need not be there.  A    *)
(* broker that was there once comes back: the reconnections never give up.  *)
FairSpec ==
  /\ Spec
  /\ WF_vars(StartUp) /\ WF_vars(Shutdown) /\ WF_vars(EndCapture) /\ WF_vars(BrokerBack)
  /\ \A t \in Threads : WF_vars(OnDetection(t))
  /\ WF_vars(Network(Proton)) /\ WF_vars(workQueue /\ Network(Reconnects))

-----------------------------------------------------------------------------
(* Properties.                                                              *)

Uses(p) == CASE p = "stamp" /\ gps # "absent"              -> {"gps"}
             [] p = "log" /\ "db" \in ok                  -> {"db"}
             [] p \in {"publish", "post"} /\ "amqp" \in ok -> {"amqp"}
             [] OTHER                                      -> {}

\* on_detection() never reaches an object that main() has destroyed, nor does the work
\* queue go while a closure is being posted: whichever thread calls it, it is joined
\* before the position cache, the publisher and the log go.
CallbacksFindTheirObjects == \A t \in Threads :
  /\ Uses(thread[t]) \subseteq alive
  /\ thread[t] = "post" => workQueue /\ container = "running"

\* At the exit every detection is in the log's queue if there is a log, and AmqpPublisher
\* has kept its promise (AmqpPublisher.hpp:67) to drain: whatever was posted has been
\* sent, or was spoilt by a connection that had been lost.
DrainedAtExit == mainPc = "exited" =>
  /\ "db" \in ok => log = 1..emitted
  /\ posted = sent \cup spoilt

Scanning(f, bands) == Cardinality({i \in DOMAIN bands : f \in Within(bands[i])})
Bounds(bands)      == UNION {Within(bands[i]) : i \in DOMAIN bands}

\* Devices that work at the same time on these bands: those that are named and required,
\* and one for each band that takes any device.
Usable(bands) ==
  LET named == {i \in DOMAIN bands : bands[i].required} IN
  Cardinality({bands[i].device : i \in named}) + Cardinality(DOMAIN bands \ named)

\* In band mode the scanners' bands cover each frequency as often as the configured bands
\* do; bands that all require a device are left as they are; and when none requires one,
\* every device that was reported can be at work on a band of its own.  If only some
\* require one, all are cut (main.cpp:202), and a device may be left without a band.
DevicesShareTheBands ==
  LET bands == Configured(cfg) IN
  mainPc = "start" /\ cfg.devices = <<>> =>
    /\ \A f \in Bounds(bands) \cup Bounds(scanners) : Scanning(f, bands) = Scanning(f, scanners)
    /\ (\A i \in DOMAIN bands : bands[i].required) => scanners = bands
    /\ Usable(scanners) >= devices \/ \E i \in DOMAIN bands : bands[i].required

\* A frequency of the configured bands that no scanner ever tunes over is less than half a
\* step away from the upper end of a scanner's band (where buildScanRequest() has no
\* position any more): the slices leave no other gap.
GapsAreAtSliceEnds == mainPc = "start" /\ cfg.devices = <<>> =>
  \A f \in Bounds(Configured(cfg)) :
    \E i \in DOMAIN scanners :
      \/ f \in TunedIn(scanners[i])
      \/ f \in Within(scanners[i]) /\ scanners[i].hi - f < Half

\* A signal is answered by an orderly exit, whenever it comes: during the start-up, with
\* the controller silent, during a capture, with the broker never reached.  Only the stop
\* of the P25 consumer may fail to return (see StopReturns of GrantQueue).
ExitsAfterSignal == ~running ~> (mainPc = "exited" \/ p25 = "hung")

\* main.cpp:252 "retune to voice channel on grant", :292 "narrow: (...) single step": while
\* a grant's voice scanner runs, its source asks for the granted channel, and only that.
CaptureTunesToGrant == capture # 0 => VoiceEntries = <<capture>>
=============================================================================
