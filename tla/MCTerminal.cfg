SPECIFICATION TermSpec
CONSTANTS
  Cols = 2
  Rows = 3
  Space = " "
  NL = "nl"
  BS = "bs"
  Glyphs = {">", ".", "up", "?", "o"}
  Chars = {">", "."}
  Arrow = "up"
  Dot = "."
  Prompt <- MCPrompt
  Question <- MCQuestion
  Banner <- MCBanner
  Outputs <- MCOutputs
  LineMax = 4
  HistMax = 2
  NameMax = 2
  BodyMax = 7
INVARIANTS
  Echoed
PROPERTIES
  ReadlineSpec
