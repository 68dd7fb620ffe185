SPECIFICATION FairSpec
CONSTANTS
  Clients = {c1, c2}
  RdsCapacity = 2
  ScanCapacity = 1
  MaxRdsLines = 3
  MaxScanLines = 1
  MaxCommands = 1
CHECK_DEADLOCK FALSE
INVARIANTS TypeOK JoinedAll
PROPERTIES KeepsLinePromise StopReturns CatchesUp
