SPECIFICATION Spec
CONSTANTS
  Data <- MCData
  hash_of <- MCHash
  length_of <- MCLength
  HashSize = 4
  MemSize = 5
  CountLimit = 3
INVARIANTS Linked ProbeEnds InBounds FlushedOnce IInv
PROPERTIES CacheSpec
CHECK_DEADLOCK FALSE
