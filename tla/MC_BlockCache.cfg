SPECIFICATION MCSpec
CONSTANTS
  f1 = f1
  f2 = f2
  Files <- MCFiles
  LastBlock = 2
  BlkLen = 8
  cachesize = 3
  MaxAccesses = 6
INVARIANTS OneSlotPerBlock BuffersAgree RecordRead
PROPERTY IsLRU
CHECK_DEADLOCK FALSE
