SPECIFICATION HostSpec
CONSTANTS
  NPes = 1
  HostOf <- OneHost
  HeapSize = 16
  Grain = 2
  PoolSize = 2
  Requests <- MCRequests
  Fallible = {}
CHECK_DEADLOCK FALSE
INVARIANTS
  CallocClears
