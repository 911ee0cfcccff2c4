SPECIFICATION Spec
CONSTANTS
  Start = 2
  Stop = 7
  Half = 1
  Channels = 2
  DwellSamples = 2
  StreamLengths = {1, 3}
  InitialTimeout = 2
  StreamTimeout = 1
  MaxTasks = 2
  MaxFaults = 1
  MaxInFlight = 2
INVARIANTS
  TypeOK
  MixesOnlyAfterLoss
  SamplesConserved
  NoPositionMissed
  LongBudgetOncePerTask
  TaskCoversBand
