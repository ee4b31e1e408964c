SPECIFICATION Spec
CONSTANTS
  NumPools = 2
  BlockSize <- Sizes
  BlockCount <- Counts
  Size = {2, 64, 200, 1000}
  Heap = {h1, h2}
  MaxRecords = 4
  WordSize = 1024
  Debugging = TRUE
PROPERTIES
  RecordsSurvive
  NoLeakIsMissed
  ImplementsAllocator
