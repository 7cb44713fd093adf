CONSTANT Inputs <- MCInputs
SPECIFICATION Spec
INVARIANTS LinksTheColumn BothIsColumnClosed FallbacksReported
CHECK_DEADLOCK FALSE
