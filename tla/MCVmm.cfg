SPECIFICATION Spec
CONSTANTS
  Frames = {f1, f2, f3, f4, f5, f6}
  KDir = KDir
  None = None
  DirIdx = {2, 3}
  TabIdx = {0}
  Values = {0, 1}
  Zero = 0
  Perms = {TRUE, FALSE}
  MaxRegions = 1
  MaxSpaces = 6
  RefMax = 255
SYMMETRY Symmetric
INVARIANTS
  RefExact
  TlbCoherent
  WriteExclusive
  FaultResolved
  HaltJustified
PROPERTIES
  SpacesSpec
