SPECIFICATION DirSpec
CONSTANTS
  FileNames = {s1, s2, l1, l2}
  Long = {l1, l2}
  Dot = Dot
  DotDot = DotDot
  NoName = NoName
  BlockUnits = 15
  MaxBlocks = 2
CONSTRAINT Uncut
INVARIANTS FoundWhileUncut Tiled
