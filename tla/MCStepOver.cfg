SPECIFICATION SessionSpec
CONSTANTS
  Images <- MCDebugImages
  MaxSlot = 3
  AddrMax = 15
  RingSize = 2
  AlphabetSize = 2
  Limits <- MCDebugLimits
  Capacity = 3
  Devices = 2
  InitTapes <- MCDebugTapes
  Cost <- MCUnitCost
  BreakAddrs = {4, 6}
  StepBudgets = {0, 1, 3}
  MatchEdits = {0, 1, 3}
PROPERTIES OnlyResumesSkipBreakpoints
CHECK_DEADLOCK FALSE
