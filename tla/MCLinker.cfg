SPECIFICATION FairSpec
CONSTANTS
  Programs <- MCPrograms
  Inputs <- MCInputs
  Ring = 2
  Capacity = 3
  Mechanisms = {"mono", "frames", "hybrid"}
INVARIANT ShipsWhatIsCalled
PROPERTIES RefinesBoundCalls LoweringEnds
CHECK_DEADLOCK FALSE
