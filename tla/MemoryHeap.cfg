SPECIFICATION Spec
CONSTANTS
  HeapSize = 15
  Grain = 2
  MaxAlign = 8
CONSTRAINT
  NotMixed
INVARIANTS
  TypeOK
  BlocksApart
  NothingLost
  RefusedOnlyIfFull
