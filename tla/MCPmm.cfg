SPECIFICATION Spec
CONSTANTS
  MemFrames = 4
  MaxFrames = 5
  RefMax = 3
  MaxHeld = 3
INVARIANTS
  TypeOK
  CountsExact
  UsedExact
PROPERTIES
  FirstFit
  PoolSpec
