SPECIFICATION FilterSpec
CONSTANTS
  Centers <- TwoCenters
  Freqs <- TwoBuckets
  Quantum = 2
  MinHits = 2
  MaxMisses = 2
  MaxSignals = 2
  MaxDwells = 5
INVARIANTS
  MapMatchesHistory
  EmitsConfirmed
