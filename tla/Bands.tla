-------------------------------- MODULE Bands --------------------------------
(***************************************************************************)
(* What each scanner sweeps: main() turns the configuration and the number *)
(* of devices online into one band per scanner, cutting the configured     *)
(* bands into slices when there are more devices than bands.  Frequencies  *)
(* are multiples of a unit fine enough for every slice's edge and for half *)
(* the distance between two positions of a sweep (Half); the rounding of   *)
(* doubles is not modelled.                                                *)
(***************************************************************************)
EXTENDS Integers, Sequences, SequencesExt

CONSTANTS Configs,     \* configurations: bands, devices (scan_device_ids), sweep,
                       \* pin (device.required_device_id), p25 (p25.enabled)
          MaxDevices,  \* bound: devices the controller reports
          Half         \* step_hz / 2

NoDevice == "any"      \* the empty device id

\* A band or slice: BandConfig.
Band == [lo : Nat, hi : Nat, device : STRING, required : BOOLEAN]

\* from_file() refuses any other configuration.
Accepted(c) ==
  /\ c.sweep.lo < c.sweep.hi
  /\ \A i \in DOMAIN c.bands : c.bands[i].lo < c.bands[i].hi

ASSUME ConfigAssumption ==
  /\ MaxDevices \in Nat \ {0} /\ Half \in Nat \ {0}
  /\ \A c \in Configs : /\ Accepted(c) /\ c.p25 \in BOOLEAN /\ c.bands \in Seq(Band)
                        /\ c.sweep \in Band /\ c.devices \in Seq(STRING) /\ c.pin \in STRING

\* The bands that are to be covered: those configured, or else the sweep range.
Configured(c) ==
  IF c.bands # <<>> THEN c.bands
  ELSE <<[c.sweep EXCEPT !.device = c.pin, !.required = c.pin # NoDevice]>>

\* Variants (named <definition>_<mistake>) are plausible wrong edits of the definition
\* that follows; no specification uses them, they show what a property rejects.
Pieces_NoRemainder(n, nb, i) == n \div nb

\* How many of n devices serve the i-th of nb bands.
Pieces(n, nb, i) == n \div nb + (IF i <= n % nb THEN 1 ELSE 0)

Slice_Rounded(b, pieces, j) ==
  LET step == 2 * Half * ((b.hi - b.lo) \div (2 * Half * pieces))
  IN  [b EXCEPT !.lo = b.lo + (j - 1) * step, !.hi = b.lo + j * step]

\* The j-th of the equal slices of a band.
Slice(b, pieces, j) ==
  LET step == (b.hi - b.lo) \div pieces
  IN  [b EXCEPT !.lo = b.lo + (j - 1) * step, !.hi = b.lo + j * step]

\* SweepConfig::splitBands(), of which main() has a copy.
SplitBands(bands, n) ==
  IF n <= Len(bands) THEN bands
  ELSE FlattenSeq([i \in DOMAIN bands |->
         [j \in 1..Pieces(n, Len(bands), i) |-> Slice(bands[i], Pieces(n, Len(bands), i), j)]])

\* The copy in main(), which leaves bands alone that all name a required device.
Effective(bands, n) ==
  IF \A i \in DOMAIN bands : bands[i].required THEN bands ELSE SplitBands(bands, n)

\* What the scanners sweep: with scan_device_ids all of them the sweep range.
Assignments(c, n) ==
  IF c.devices # <<>> THEN [i \in DOMAIN c.devices |-> [c.sweep EXCEPT !.device = c.devices[i]]]
  ELSE Effective(Configured(c), n)

\* The unit: every slice has a whole number of them.
ASSUME UnitAssumption ==
  \A c \in Configs, n \in 0..MaxDevices :
    LET bands == Configured(c) IN
    n > Len(bands) => \A i \in DOMAIN bands :
                        (bands[i].hi - bands[i].lo) % Pieces(n, Len(bands), i) = 0

-----------------------------------------------------------------------------
(* The cells a band contains, and those its scanner's tasks tune over.      *)

Plan(lo, hi) == INSTANCE SweepPlan WITH Start <- lo, Stop <- hi

Within(b) == b.lo..(b.hi - 1)
TunedIn(b) ==
  LET entries == Plan(b.lo, b.hi)!Entries(b.lo)
  IN  UNION {Plan(b.lo, b.hi)!Cells(entries[i]) : i \in DOMAIN entries}
=============================================================================
