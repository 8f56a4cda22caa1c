SPECIFICATION ProcSpec
CONSTANTS
  Frames = {f1, f2, f3, f4, f5, f6}
  KDir = KDir
  None = None
  DirIdx = {2}
  TabIdx = {0}
  Values = {0, 1}
  Zero = 0
  Perms = {TRUE}
  MaxRegions = 0
  MaxSpaces = 16
  RefMax = 255
  MaxProcs = 4
  MaxPid = 4
  Codes = {7}
SYMMETRY Symmetric
INVARIANTS
  CpuOwner
  ParentLive
  SpacesOwned
  AllReturned
PROPERTIES
  UnixSpec
