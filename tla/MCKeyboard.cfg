SPECIFICATION Spec
CONSTANTS
  Letters = {a, b}
  Arrows = {up}
  Others = {ctrl}
  ShiftKeys = {lshift, rshift}
  BufSize = 3
  MaxEvents = 7
  Nothing = Nothing
PROPERTIES
  QueueSpec
  Drained
