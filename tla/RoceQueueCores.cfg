SPECIFICATION Spec
CONSTANTS
  Cores = {c1, c2}
  c1 = c1
  c2 = c2
  Depth = 4
  CqDepth = 4
  OwnerPeriod = 4
  Margin = 1
  Batch = 2
  Wrap = 16
  DbWrap = 8
  MaxRequests = 3
  Faulty = FALSE
INVARIANT QuietCompletes
