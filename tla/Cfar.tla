-------------------------------- MODULE Cfar --------------------------------
(***************************************************************************)
(* FftProcessor::detectFromSpectrum(): the bins of one averaged spectrum   *)
(* become signals.  A bin is loud if it exceeds the mean of the reference  *)
(* bins on its two sides by a threshold; runs of loud bins are signals.    *)
(* Powers are whole decibels and means fractions [num, den]: rounding is   *)
(* not modelled, nor the order of the result.  No caller passes the        *)
(* optional historical floor.  The spectrum itself is an input.            *)
(***************************************************************************)
EXTENDS Integers, FiniteSets, FiniteSetsExt

CONSTANTS FftSize, Margin,      \* bins; bins left out at either edge (usable_fraction)
          CfarGuard, CfarRef,   \* cfar_guard_, cfar_ref_
          Threshold, MinPapr,   \* threshold_db, min_papr_db
          MinBins,              \* min_signal_bw_hz in bins
          DcGuards,             \* values of dc_guard_hz in bins, 0 for none
          Levels                \* powers of a bin

StartBin == Margin
EndBin   == FftSize - 1 - Margin
Usable   == StartBin..EndBin
N        == EndBin - StartBin + 1

ASSUME CfarAssumption ==
  /\ FftSize \in Nat /\ Margin \in Nat /\ 2 * Margin < FftSize
  /\ CfarGuard \in Nat /\ CfarRef \in Nat \ {0} /\ MinBins \in Nat \ {0}
  /\ Threshold \in Nat /\ MinPapr \in Nat /\ DcGuards \subseteq Nat /\ Levels \subseteq Int

VARIABLES
  raw,      \* power_db_ as computeSpectrum() leaves it
  dcGuard,  \* guard_bins
  power,    \* power_db_
  noise,    \* global_noise
  psum,     \* psum_
  bin,      \* k of the loop; EndBin + 1 after it
  run,      \* run_start, peak_bin_abs, sum and count
  signals,  \* signals, as a set
  pc

detectorVars == <<raw, dcGuard, power, noise, psum, bin, run, signals, pc>>

NoRun == [start |-> -1, peak |-> -1, sum |-> 0, count |-> 0]

DetectorInit ==
  /\ raw \in [Usable -> Levels] /\ dcGuard \in DcGuards
  /\ power = raw /\ noise = 0 /\ psum = <<>> /\ bin = StartBin
  /\ run = NoRun /\ signals = {} /\ pc = "prepare"

-----------------------------------------------------------------------------
\* estimateNoise(): the value at index N / 2 of the sorted powers.
Median(p) == CHOOSE v \in Levels :
  /\ Cardinality({k \in Usable : p[k] < v}) <= N \div 2
  /\ Cardinality({k \in Usable : p[k] <= v}) > N \div 2

\* Bins that are blanked for the receiver's own leakage at the tuned frequency.
DcZone == IF dcGuard = 0 THEN {}
          ELSE Usable \cap ((FftSize \div 2 - dcGuard)..(FftSize \div 2 + dcGuard))

Blanked == [k \in Usable |-> IF k \in DcZone THEN Median(raw) ELSE raw[k]]

PrefixSums(p) ==
  LET ps[i \in 0..N] == IF i = 0 THEN 0 ELSE ps[i - 1] + p[StartBin + i - 1] IN ps

Prepare ==
  /\ pc = "prepare" /\ pc' = "scan"
  /\ power' = Blanked /\ noise' = Median(Blanked) /\ psum' = PrefixSums(Blanked)
  /\ UNCHANGED <<raw, dcGuard, bin, run, signals>>

\* Variants (named <definition>_<mistake>) are plausible wrong edits of the definition
\* that follows; no specification uses them, they show what a property rejects.
RefMean_Unclamped(a, b) ==
  IF a < 0 \/ b > N - 1 THEN [num |-> 0, den |-> 0]
  ELSE [num |-> psum[b + 1] - psum[a], den |-> b - a + 1]

\* ref_mean(): mean of bins a to b, counted from StartBin; den = 0 if there is none.
RefMean(a, b) ==
  LET lo == IF a < 0 THEN 0 ELSE a
      hi == IF b > N - 1 THEN N - 1 ELSE b
  IN  IF lo > hi THEN [num |-> 0, den |-> 0]
      ELSE [num |-> psum[hi + 1] - psum[lo], den |-> hi - lo + 1]

LocalNoise_CountsItself(k) ==
  LET left  == RefMean(k - StartBin - CfarRef, k - StartBin)
      right == RefMean(k - StartBin, k - StartBin + CfarRef)
  IN  [num |-> left.num * right.den + right.num * left.den, den |-> 2 * left.den * right.den]

LocalNoise(k) ==
  LET i     == k - StartBin
      left  == RefMean(i - CfarGuard - CfarRef, i - CfarGuard - 1)
      right == RefMean(i + CfarGuard + 1, i + CfarGuard + CfarRef)
  IN  CASE left.den = 0 /\ right.den = 0 -> [num |-> noise, den |-> 1]
        [] left.den = 0 /\ right.den # 0 -> right
        [] left.den # 0 /\ right.den = 0 -> left
        [] OTHER -> [num |-> left.num * right.den + right.num * left.den,
                     den |-> 2 * left.den * right.den]

AtLeast(x, q) == x * q.den >= q.num

\* The parabola through the peak and its neighbours: how far off the peak's bin its top is.
Offset(k) ==
  LET den == 2 * (2 * power[k] - power[k - 1] - power[k + 1]) IN
  IF StartBin < k /\ k < EndBin /\ den # 0
    THEN [num |-> power[k + 1] - power[k - 1], den |-> den]
    ELSE [num |-> 0, den |-> 1]

Signal(first, last, peak, sum) ==
  [start |-> first, end |-> last, peak |-> peak, sum |-> sum, offset |-> Offset(peak)]

\* flush(): the run that ended at bin `last' is reported if it is wide and peaked enough.
Flushed(last) ==
  LET width == last - run.start + 1 IN
  IF /\ run # NoRun /\ width >= MinBins
     /\ width < 2 \/ AtLeast(power[run.peak] - MinPapr, [num |-> run.sum, den |-> run.count])
    THEN signals \cup {Signal(run.start, last, run.peak, run.sum)}
    ELSE signals

Extended ==
  [start |-> IF run = NoRun THEN bin ELSE run.start,
   peak  |-> IF run = NoRun \/ power[bin] > power[run.peak] THEN bin ELSE run.peak,
   sum   |-> run.sum + power[bin], count |-> run.count + 1]

Bin ==
  /\ pc = "scan" /\ bin <= EndBin /\ bin' = bin + 1
  /\ IF AtLeast(power[bin] - Threshold, LocalNoise(bin))
       THEN run' = Extended /\ UNCHANGED signals
       ELSE signals' = Flushed(bin - 1) /\ run' = NoRun
  /\ UNCHANGED <<raw, dcGuard, power, noise, psum, pc>>

LastFlush ==
  /\ pc = "scan" /\ bin > EndBin /\ pc' = "done"
  /\ signals' = Flushed(EndBin) /\ run' = NoRun
  /\ UNCHANGED <<raw, dcGuard, power, noise, psum, bin>>

DetectorFinished == pc = "done" /\ UNCHANGED detectorVars

DetectorNext == Prepare \/ Bin \/ LastFlush \/ DetectorFinished

DetectorSpec == DetectorInit /\ [][DetectorNext]_detectorVars

-----------------------------------------------------------------------------
(* What the loop should find, from the spectrum as a whole.                 *)

Total(S)  == MapThenSumSet(LAMBDA k : power[k], S)
MeanOf(S) == [num |-> Total(S), den |-> Cardinality(S)]

\* The reference bins on one side of k.
Below(k) == {j \in Usable : k - CfarGuard - CfarRef <= j /\ j < k - CfarGuard}
Beyond(k) == {j \in Usable : k + CfarGuard < j /\ j <= k + CfarGuard + CfarRef}

\* k exceeds the average of the two means, or the one there is, or else the median.
Loud(k) ==
  LET excess == power[k] - Threshold
      sides  == {S \in {Below(k), Beyond(k)} : S # {}}
  IN  CASE sides = {}              -> excess >= Median(power)
        [] Cardinality(sides) = 1  -> \A S \in sides : AtLeast(excess, MeanOf(S))
        [] OTHER -> 2 * excess * Cardinality(Below(k)) * Cardinality(Beyond(k))
                      >= Total(Below(k)) * Cardinality(Beyond(k)) + Total(Beyond(k)) * Cardinality(Below(k))

Strongest(S) == CHOOSE k \in S : \A j \in S : power[j] < power[k] \/ (power[j] = power[k] /\ k <= j)

MaximalRuns ==
  LET loud == {k \in Usable : Loud(k)} IN
  {S \in {a..b : a, b \in Usable} : S # {} /\ S \subseteq loud
     /\ {Min(S) - 1, Max(S) + 1} \cap loud = {}}

\* The result holds a signal for each maximal run of loud bins that is wide enough and,
\* beyond one bin, peaked enough, with its first strongest bin, and no other: the prefix
\* sums, the windows clamped at the edges and the flush after the loop lose nothing.
DetectsTheRuns == pc = "done" =>
  signals = {Signal(Min(S), Max(S), Strongest(S), Total(S)) : S \in
               {S \in MaximalRuns : /\ Cardinality(S) >= MinBins
                                    /\ \/ Cardinality(S) = 1
                                       \/ AtLeast(power[Strongest(S)] - MinPapr, MeanOf(S))}}

\* A tone that exceeds the median and every other bin outside the blanked zone by the
\* threshold is reported as a signal's peak, wherever it is, at an edge of the band too,
\* and its interpolated frequency lies in its bin; the configuration must not ask for a
\* wider signal, nor for more than half the threshold over the run's mean, and a
\* threshold of nothing would let another bin be as strong.
LoneToneIsFound == pc = "done" /\ MinBins = 1 /\ 2 * MinPapr <= Threshold /\ Threshold > 0 =>
  \A tone \in Usable \ DcZone :
    (/\ raw[tone] - Threshold >= Median(raw)
     /\ \A k \in Usable \ (DcZone \cup {tone}) : raw[tone] - Threshold >= raw[k])
    => \E s \in signals : /\ s.peak = tone
                          /\ 2 * s.offset.num <= s.offset.den /\ -2 * s.offset.num <= s.offset.den
=============================================================================
