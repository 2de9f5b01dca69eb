SPECIFICATION Spec
CONSTANTS
  NPes = 2
  HostOf <- MCHostOf
  HeapSize = 24
  Grain = 2
  PoolSize = 2
  Requests <- MCRequests
  Fallible = {}
  Programs <- MCSynchronous
  Signals <- MCSignals
  UbSize = 16
  UbUnit = 4
  StagingSize = 4
  Spoilt = Spoilt
CHECK_DEADLOCK FALSE
INVARIANTS
  SynchronousDone
