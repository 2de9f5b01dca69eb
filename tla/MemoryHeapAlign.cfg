SPECIFICATION Spec
CONSTANTS
  HeapSize = 96
  Grain = 16
  MaxAlign = 16
INVARIANTS
  NeverOverlap
