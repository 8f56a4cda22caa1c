SPECIFICATION Spec
CONSTANTS
  Word = 256
  Kinds <- MCKinds
  Asks = {0, 5, 21, 200}
INVARIANTS
  Tiles
  LiveExact
  Coalesced
PROPERTIES
  HeapPromise
