SPECIFICATION DetectorSpec
CONSTANTS
  FftSize = 10
  Margin = 1
  CfarGuard = 1
  CfarRef = 2
  Threshold = 2
  MinPapr = 1
  MinBins = 1
  DcGuards = {0, 1}
  Levels <- MCLevels
INVARIANTS
  DetectsTheRuns
  LoneToneIsFound
