SPECIFICATION FairSpec
CONSTANTS
  LocalPorts <- OnePort
  OverridePorts <- Override
  MaxRequests = 3
  MaxConnections = 2
INVARIANTS
  TypeOK
  NoSocketLeak
  ReceivesItsOwnTask
  LateAnswerIsIgnored
  StopIsSeen
  OrphansWereAbandoned
  AtMostOneLiveTask
PROPERTIES
  StopReturns
  ImplementsTaskLease
