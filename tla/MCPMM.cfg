SPECIFICATION Spec
CONSTANTS
  BitmapPages = 6
  LowPages = 1
  MinBase = 2
  MemMaps <- MCMemMaps
  MaxRequest = 4
  Misaligned = Misaligned
  NULL = NULL
INVARIANTS TypeOK ExactAccounting 
PROPERTIES FirstFit CallsReturn ImplementsPageAllocator
