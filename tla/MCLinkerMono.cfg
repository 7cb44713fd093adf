SPECIFICATION Spec
CONSTANTS
  Programs <- Nested
  Inputs <- MCInputs
  Ring = 2
  Capacity = 3
  Mechanisms = {"mono"}
PROPERTIES RefinesBoundCalls
CHECK_DEADLOCK FALSE
