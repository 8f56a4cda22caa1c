SPECIFICATION Spec
CONSTANTS
  Names = {m, n, l}
  Long = {l}
  l = l
  m = m
  Cut <- MCCut
  x = x
  y = y
  Contents = {x, y}
  Length <- MCLength
  SlotSectors = 2
  MaxFiles = 2
  MaxSlots = 3
  Faulty = {"data"}
  None = None
INVARIANTS
  Durable
  SlotsSeparate
