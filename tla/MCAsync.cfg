SPECIFICATION FairSpec
CONSTANTS
  Images <- MCImagesAll
  MaxSlot = 3
  AddrMax = 15
  RingSize = 2
  AlphabetSize = 2
  Limits <- MCLimits
  Capacity = 2
  Devices = 2
  InitTapes <- MCTapes
  Cost <- MCUnitCost
  MaxPolls = 1
  Reported <- MCReported
  Budgets <- MCBudgets
  BreakAddrs = {3, 5}
INVARIANTS BusQuiet BudgetExact
PROPERTIES IssuedOnce BreakpointsStop PauseAnswered RefinesRun PumpedRunEnds
CHECK_DEADLOCK FALSE
