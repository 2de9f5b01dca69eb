SPECIFICATION Spec
CONSTANTS
  NCores = 5
  MaxBarriers = 2
INVARIANTS
  TypeOK
  NoEarlyLeave
  CounterCurrent
  NoSignalLost
PROPERTIES
  EveryoneLeaves
  ImplementsBarrier
