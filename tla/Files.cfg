SPECIFICATION Spec
CONSTANTS
  File = {f1, f2}
  Fd = {1, 2}
  Words = {1, 2}
  Flags = {3}
  Counts = {3}
  BlockWords = 2
  EXT2_NDIR_BLOCKS = 1
  NBlocks = 5
INVARIANTS BlocksExclusive NoHoles
PROPERTY IsFileStore
SYMMETRY Symmetry
