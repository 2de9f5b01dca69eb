SPECIFICATION Spec
CONSTANTS
  NPes = 3
  NVecs = 2
  KVal = 8
  MaxBarriers = 2
INVARIANTS
  TypeOK
  NoEarlyLeave
  CounterCurrent
  NoNumberLost
PROPERTIES
  PublishedTogether
  EveryoneLeaves
  ImplementsBarrier
