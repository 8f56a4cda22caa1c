SPECIFICATION Spec
CONSTANTS
  Word = 18
  PageCells = 2
  ZoneStart = 2
  ZoneEnd = 16
  StackTop = 14
  HeapBase = 6
  HeapEnd = 8
  Video = {8}
  Rom = {10, 11, 14}
  ArgMax = 3
  ArgBytes = 7
  Images <- LocksImages
  Bundled <- MCBundled
  Lines <- MCLines
  Stores = {1, 3, 11, 12}
  Pointers = {1, 8, 9, 15}
  Lengths = {0, 2, 17}
INVARIANTS
  NeverHalts
