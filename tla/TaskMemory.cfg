SPECIFICATION Spec
CONSTANTS
  NFrames = 19
  Images <- MCImages
  Sizes = {1, 4}
  Chunk = 2
  MaxCalls = 4
INVARIANTS FramesExclusive  FramesAccounted
