SPECIFICATION Spec
CONSTANTS
  Cores = {c1}
  c1 = c1
  Depth = 4
  CqDepth = 4
  OwnerPeriod = 4
  Margin = 1
  Batch = 2
  Wrap = 16
  DbWrap = 8
  MaxRequests = 20
  Faulty = TRUE
INVARIANTS
  TypeOK
  EntriesIntact
  CompletionsKept
  QuietCompletes
PROPERTY PollsReturn
CHECK_DEADLOCK FALSE
