SPECIFICATION HostSpec
CONSTANTS
  NPes = 3
  HostOf <- TwoHosts
  HeapSize = 16
  Grain = 2
  PoolSize = 2
  Requests <- MCRequests
  Fallible = {}
CHECK_DEADLOCK FALSE
INVARIANTS
  OnlyPeersListed
