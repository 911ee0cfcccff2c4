------------------------------ MODULE SweepPlan ------------------------------
(***************************************************************************)
(* The frequency plan of one scanner: the dwell positions that             *)
(* buildScanRequest() lists in a task, and resume_hz_, where the next      *)
(* task begins.  Frequencies are multiples of a unit fine enough for the   *)
(* band's edges and for half the distance between two positions            *)
(* (sample_rate * usable_bw_fraction / 2); cell f is the interval [f, f+1) *)
(* of units.  The rounding of doubles is not modelled.                     *)
(***************************************************************************)
EXTENDS Integers, Sequences

CONSTANTS Start, Stop,     \* cfg.sweep.start_hz and stop_hz
          Half             \* step_hz / 2

ASSUME BandAssumption == /\ Start \in Nat \ {0} /\ Stop \in Nat /\ Start < Stop
                         /\ Half \in Nat \ {0}

Step == 2 * Half

\* Centres of the entries one loop of buildScanRequest() appends: positions from
\* `from' on, a step apart, as long as the centre does not pass `limit'.
Positions(from, limit) ==
  LET n == IF from + Half > limit THEN 0 ELSE (limit - Half - from) \div Step + 1
  IN  [i \in 1..n |-> from + (i - 1) * Step + Half]

\* The centres tasks of this scanner may list: half steps above Start.
Centres == {c \in (Start + Half)..Stop : (c - Start) % Half = 0}

\* Variants (named <definition>_<mistake>) are plausible wrong edits of the definition
\* that follows; no specification uses them, they show what a property rejects.
Entries_NoWrap(resume) == Positions(resume, Stop)

\* The entries of a task: from resume_hz_ up, then from start_hz to resume_hz_.
Entries(resume) == Positions(resume, Stop) \o Positions(Start, resume)

Resume_NoWrap(center) == center + Step

\* resume_hz_ after a packet with this centre.
Resume(center) == IF center + Step >= Stop THEN Start ELSE center + Step

\* The cells a position covers, and the positions of a plan that cover a cell.
Cells(center) == (center - Half)..(center + Half - 1)
Covering(plan, f) == {i \in 1..Len(plan) : f \in Cells(plan[i])}
=============================================================================
