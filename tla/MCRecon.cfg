SPECIFICATION FairSpec
CONSTANTS
  b1 = b1
  b2 = b2
  Bins <- TwoBins
  Cooldown = 2
  MaxCaptures = 3
  MaxTime = 4
INVARIANTS
  TypeOK
  RequestsLeaveNothing
  RecaptureOnlyByRace
PROPERTY
  CapturesEnd
CHECK_DEADLOCK FALSE
