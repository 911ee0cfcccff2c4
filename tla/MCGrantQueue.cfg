SPECIFICATION FairSpec
CONSTANTS
  Depth = 4
  MaxGrants = 7
  MaxOutages = 1
  MaxErrors = 1
INVARIANTS
  TypeOK
  QueueIsNewest
  AtMostOneAfterStop
  RecoversAfterOneGrant
PROPERTIES
  ImplementsMailbox
  GrantsAreTaken
CHECK_DEADLOCK FALSE
