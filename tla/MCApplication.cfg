SPECIFICATION FairSpec
CONSTANTS
  Configs <- MCConfigs
  MaxDevices = 3
  Half = 5
  MaxBreaks = 1
  Channels = {10}
  MaxScanners = 3
  MaxAttempts = 3
  MaxDetections = 2
  MaxCaptures = 1
INVARIANTS
  CallbacksFindTheirObjects
  DrainedAtExit
  DevicesShareTheBands
  GapsAreAtSliceEnds
PROPERTY
  ExitsAfterSignal
CHECK_DEADLOCK FALSE
