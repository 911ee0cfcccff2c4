----------------------------- MODULE Persistence -----------------------------
(***************************************************************************)
(* The persistence filter of SpectrumScanner::processDwell(): hit and miss *)
(* counts per centre frequency and 10 kHz bucket decide which candidates   *)
(* of a dwell become detections.  The channels' maps are disjoint, so one  *)
(* channel is modelled.  A candidate is its frequency, whether its PAPR    *)
(* passes the bypass, and its place among the signals the detector         *)
(* returns, the strongest peak first.  history is what the filter saw, for *)
(* the definition of what it should do.                                    *)
(***************************************************************************)
EXTENDS Integers, Sequences, FiniteSets

CONSTANTS Centers,    \* LO centre frequencies dwelled on
          Freqs,      \* frequencies of candidates
          Quantum,    \* PERSIST_FREQ_QUANT_HZ
          MinHits,    \* PERSIST_MIN_HITS
          MaxMisses,  \* PERSIST_MAX_MISSES
          MaxSignals, \* bound: candidates in a dwell
          MaxDwells   \* bound: dwells in a behaviour

ASSUME FilterAssumption ==
  /\ Freqs \subseteq Nat /\ IsFiniteSet(Freqs)
  /\ {Quantum, MinHits} \subseteq Nat \ {0} /\ {MaxMisses, MaxSignals, MaxDwells} \subseteq Nat

VARIABLES persist,    \* ch_persist_[ch]: per centre, bucket -> hits and misses
          last,       \* the last dwell: its centre, candidates and detections
          history     \* history: per centre, the frequencies seen in each dwell

filterVars == <<persist, last, history>>

\* The candidates of a dwell: at most one per frequency, in any order of their peaks.
Candidates == {s \in SUBSET [fc : Freqs, strong : BOOLEAN, place : 1..MaxSignals] :
                 /\ \A x, y \in s : x.fc = y.fc \/ x.place = y.place => x = y
                 /\ {x.place : x \in s} = 1..Cardinality(s)}

Bucket(f) == (f \div Quantum) * Quantum
Buckets   == {Bucket(f) : f \in Freqs}

FilterInit ==
  /\ persist = [c \in Centers |-> <<>>]
  /\ last = [center |-> CHOOSE c \in Centers : TRUE, sigs |-> {}, out |-> {}]
  /\ history = [c \in Centers |-> <<>>]

Hits(c, b)   == IF b \in DOMAIN persist[c] THEN persist[c][b].hits ELSE 0
Misses(c, b) == IF b \in DOMAIN persist[c] THEN persist[c][b].misses ELSE 0

\* The candidates of bucket b, and those of s's bucket that come no later than s.
InBucket(sigs, b) == {s \in sigs : Bucket(s.fc) = b}
UpTo(sigs, s)     == {t \in InBucket(sigs, Bucket(s.fc)) : t.place <= s.place}

\* Variants (named <definition>_<mistake>) are plausible wrong edits of the
\* definition that follows; they show what a property rejects.
Detections_NoBypass(c, sigs) ==
  {s \in sigs : Hits(c, Bucket(s.fc)) + Cardinality(UpTo(sigs, s)) >= MinHits}

\* A candidate is emitted if it is strong or its bucket has enough hits by then.
Detections(c, sigs) ==
  {s \in sigs : s.strong \/ Hits(c, Bucket(s.fc)) + Cardinality(UpTo(sigs, s)) >= MinHits}

Updated_EvictsLate(c, sigs) ==
  LET seen == {Bucket(s.fc) : s \in sigs}
      kept == {b \in DOMAIN persist[c] \ seen : Misses(c, b) <= MaxMisses}
  IN  [b \in seen \cup kept |->
         IF b \in seen
           THEN [hits |-> Hits(c, b) + Cardinality(InBucket(sigs, b)), misses |-> 0]
           ELSE [hits |-> Hits(c, b), misses |-> Misses(c, b) + 1]]

\* The map of a centre after a dwell: buckets seen gain their hits and lose their
\* misses, the others gain a miss and are evicted when they have too many.
Updated(c, sigs) ==
  LET seen == {Bucket(s.fc) : s \in sigs}
      kept == {b \in DOMAIN persist[c] \ seen : Misses(c, b) + 1 <= MaxMisses}
  IN  [b \in seen \cup kept |->
         IF b \in seen
           THEN [hits |-> Hits(c, b) + Cardinality(InBucket(sigs, b)), misses |-> 0]
           ELSE [hits |-> Hits(c, b), misses |-> Misses(c, b) + 1]]

Dwells(h) == Cardinality({x \in Centers \X (1..MaxDwells) : x[2] <= Len(h[x[1]])})

ProcessDwell(c, sigs) ==
  /\ Dwells(history) < MaxDwells
  /\ last' = [center |-> c, sigs |-> sigs, out |-> Detections(c, sigs)]
  /\ persist' = [persist EXCEPT ![c] = Updated(c, sigs)]
  /\ history' = [history EXCEPT ![c] = Append(@, {s.fc : s \in sigs})]

FilterFinished == Dwells(history) = MaxDwells /\ UNCHANGED filterVars

FilterNext == (\E c \in Centers, sigs \in Candidates : ProcessDwell(c, sigs)) \/ FilterFinished

FilterSpec == FilterInit /\ [][FilterNext]_filterVars

-----------------------------------------------------------------------------
(* What the filter should do, from the history of a centre.                 *)

SeenIn(c, b, i) == \E f \in history[c][i] : Bucket(f) = b

\* Dwell i still counts for bucket b after dwell n: no run of more than MaxMisses
\* dwells without b has passed since.
Counts(c, b, i, n) ==
  \A j \in (i + 1)..(n - MaxMisses) : \E k \in j..(j + MaxMisses) : SeenIn(c, b, k)

\* Sightings of b that count after dwell n: a dwell and a frequency seen in it.
Sightings(c, b, n) ==
  {x \in (1..n) \X Freqs :
     x[2] \in history[c][x[1]] /\ Bucket(x[2]) = b /\ Counts(c, b, x[1], n)}

\* A bucket has an entry exactly while it was seen at its centre within the last
\* MaxMisses + 1 dwells there, and its counts are those of the current run of
\* sightings: nothing stale confirms a candidate, and the map of a centre that is
\* dwelled on holds no other bucket.
MapMatchesHistory ==
  \A c \in Centers, b \in Buckets :
    LET n == Len(history[c])
        S == Sightings(c, b, n)
    IN  /\ b \in DOMAIN persist[c] <=> S # {}
        /\ Hits(c, b) = Cardinality(S)
        /\ S # {} => \E x \in S : n - x[1] = Misses(c, b) /\ \A y \in S : y[1] <= x[1]

\* A candidate is emitted exactly if it is strong or it is at least the MinHits-th
\* sighting of its bucket in the current run of sightings at this centre, where of
\* one dwell's candidates a stronger peak is the earlier sighting.  These sightings
\* need not be those of consecutive sweeps, as SpectrumScanner.hpp:23 has it: up to
\* MaxMisses dwells between two of them may miss the bucket, and two may be of one dwell.
EmitsConfirmed ==
  LET c == last.center
      n == Len(history[c])
      Before(x, s) == x[1] < n \/ \E t \in last.sigs : t.fc = x[2] /\ t.place <= s.place
  IN  last.out =
        {s \in last.sigs : s.strong \/
           Cardinality({x \in Sightings(c, Bucket(s.fc), n) : Before(x, s)}) >= MinHits}
=============================================================================
