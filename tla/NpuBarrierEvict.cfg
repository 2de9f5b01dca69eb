SPECIFICATION SpecEvict
CONSTANTS
  NPes = 2
  NVecs = 2
  KVal = 8
  MaxBarriers = 2
INVARIANTS
  NoEarlyLeave
CHECK_DEADLOCK FALSE
