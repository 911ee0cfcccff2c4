SPECIFICATION Spec
CONSTANTS
  Start = 2
  Stop = 10
  Half = 1
  Channels = 1
  DwellSamples = 1
  StreamLengths = {1}
  InitialTimeout = 2
  StreamTimeout = 1
  MaxTasks = 1
  MaxFaults = 0
  MaxInFlight = 1
INVARIANT
  ContinuesSweep
