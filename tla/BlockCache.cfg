SPECIFICATION CacheSpec
CONSTANTS
  Drives = {d1, d2}
  Blocks = {b1, b2, b3}
  Values = {v1, v2}
  Torn = Torn
  EXT2_CACHE_SIZE = 2
  DescPages = 1
  MaxWrites = 2
INVARIANTS NoDuplicates  
