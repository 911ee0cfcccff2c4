------------------------------ MODULE TaskLease ------------------------------
(***************************************************************************)
(* What a scanner's task session promises the controller, whatever the     *)
(* broker loses: tasks are asked for one at a time, each is held only when  *)
(* the controller runs or ran it, is given back exactly once, and the next  *)
(* one starts only when every earlier one has ended or was abandoned, that  *)
(* is, given up unanswered or given back over a channel that was down.  The *)
(* implementation is ScanSession.                                           *)
(***************************************************************************)
EXTENDS Integers

CONSTANT MaxRequests  \* bound: tasks asked for in a behaviour

VARIABLES
  asked,      \* tasks asked for so far; the latest one bears this number
  holder,     \* the scanner: "idle", "waiting" for an answer, or "holding" its task
  live,       \* tasks that run
  ended,      \* tasks that ran and have ended
  returning,  \* tasks given back whose return is under way
  abandoned   \* tasks whose request or whose return nobody follows any more

lease == <<asked, holder, live, ended, returning, abandoned>>

Init == asked = 0 /\ holder = "idle" /\ live = {} /\ ended = {} /\ returning = {} /\ abandoned = {}

(* The scanner, which holds nothing, asks for its next task. *)
Ask ==
  /\ holder = "idle" /\ asked < MaxRequests
  /\ asked' = asked + 1 /\ holder' = "waiting"
  /\ UNCHANGED <<live, ended, returning, abandoned>>

(* A task starts, once: the one waited for when no other runs, or one that   *)
(* was abandoned before it started.                                          *)
Start(r) ==
  /\ r <= asked /\ r \notin live \cup ended
  /\ r \in abandoned \/ (r = asked /\ holder = "waiting" /\ live \subseteq abandoned)
  /\ live' = live \cup {r}
  /\ UNCHANGED <<asked, holder, ended, returning, abandoned>>

(* The answer is in: the scanner holds a task that was started, and only such. *)
Hold ==
  /\ holder = "waiting" /\ asked \in live \cup ended
  /\ holder' = "holding"
  /\ UNCHANGED <<asked, live, ended, returning, abandoned>>

Refused ==
  /\ holder = "waiting" /\ asked \notin live \cup ended
  /\ holder' = "idle"
  /\ UNCHANGED <<asked, live, ended, returning, abandoned>>

(* No answer came in time. *)
GiveUp ==
  /\ holder = "waiting"
  /\ holder' = "idle" /\ abandoned' = abandoned \cup {asked}
  /\ UNCHANGED <<asked, live, ended, returning>>

(* The scanner gives its task back, or cannot reach the controller.  It has  *)
(* not given it back before.                                                 *)
Return ==
  /\ holder = "holding" /\ asked \notin returning
  /\ holder' = "idle"
  /\ \/ returning' = returning \cup {asked} /\ UNCHANGED abandoned
     \/ abandoned' = abandoned \cup {asked} /\ UNCHANGED returning
  /\ UNCHANGED <<asked, live, ended>>

(* A return is lost on its way. *)
Lose(r) ==
  /\ r \in returning
  /\ returning' = returning \ {r} /\ abandoned' = abandoned \cup {r}
  /\ UNCHANGED <<asked, holder, live, ended>>

(* A return reaches the controller, which ends the task if it still runs. *)
Stopped(r) ==
  /\ r \in returning /\ r \in live \cup ended
  /\ returning' = returning \ {r}
  /\ live' = live \ {r} /\ ended' = ended \cup {r}
  /\ UNCHANGED <<asked, holder, abandoned>>

(* A task ends by itself. *)
End(r) ==
  /\ r \in live
  /\ live' = live \ {r} /\ ended' = ended \cup {r}
  /\ UNCHANGED <<asked, holder, returning, abandoned>>

Next == \/ Ask \/ Hold \/ Refused \/ GiveUp \/ Return
        \/ \E r \in 1..MaxRequests : Start(r) \/ Lose(r) \/ Stopped(r) \/ End(r)

Spec == Init /\ [][Next]_lease
=============================================================================
