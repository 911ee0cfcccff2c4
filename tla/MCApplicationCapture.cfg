SPECIFICATION Spec
CONSTANTS
  Configs <- MCConfigs
  MaxDevices = 1
  Half = 5
  MaxBreaks = 0
  Channels = {10}
  MaxScanners = 3
  MaxAttempts = 3
  MaxDetections = 0
  MaxCaptures = 1
INVARIANT
  CaptureTunesToGrant
CHECK_DEADLOCK FALSE
