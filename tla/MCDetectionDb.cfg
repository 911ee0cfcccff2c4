SPECIFICATION FairSpec
CONSTANTS
  BatchSize = 2
  MaxPushed = 6
  MaxOutages = 2
  MaxErrors = 2
INVARIANT
  RecoversAfterOneBatch
PROPERTIES
  ImplementsMailbox
  RecordsSettle
CHECK_DEADLOCK FALSE
