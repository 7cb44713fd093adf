SPECIFICATION MCSpec
CONSTANTS
  Images <- MCImagesAll
  MaxSlot = 3
  AddrMax = 15
  RingSize = 2
  AlphabetSize = 2
  Limits <- MCLimits
  Capacity = 3
  Devices = 2
  InitTapes <- MCTapes
  Cost <- MCUnitCost
INVARIANTS TypeOK StacksInStep CacheCoherent FrameConfines WithinLimits
PROPERTIES RefinesIsa Terminates
CHECK_DEADLOCK FALSE
