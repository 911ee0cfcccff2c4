SPECIFICATION FairSpec
CONSTANTS
  Depth = 1
  MaxGrants = 1
  MaxOutages = 0
  MaxErrors = 0
PROPERTY
  StopReturns
CHECK_DEADLOCK FALSE
