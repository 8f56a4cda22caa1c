SPECIFICATION Spec
CONSTANTS
  Lbas = {s1, s2}
  b = b
  x = x
  y = y
  Values = {b, x, y}
  Blank = b
  Timeout = 2
  None = None
PROPERTIES
  DiskSpec
  Returns
