SPECIFICATION HostSpec
CONSTANTS
  NPes = 2
  HostOf <- OneHost
  HeapSize = 16
  Grain = 2
  PoolSize = 2
  Requests <- MCRequests
  Fallible = {0}
CHECK_DEADLOCK FALSE
PROPERTIES
  ErrorsReported
