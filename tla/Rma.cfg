SPECIFICATION Spec
CONSTANTS
  NPes = 3
  HostOf <- MCHostOf
  HeapSize = 24
  Grain = 2
  PoolSize = 2
  Requests <- MCRequests
  Fallible = {0}
  Programs <- MCPrograms
  Signals <- MCSignals
  UbSize = 16
  UbUnit = 4
  StagingSize = 4
  Spoilt = Spoilt
CHECK_DEADLOCK FALSE
INVARIANTS
  TypeOK
  InitMeansReady
  AllocatedEverywhere
  AccessBacked
  Synchronised
  Delivered
  SignalAfterData
PROPERTIES
  WorkEnds
