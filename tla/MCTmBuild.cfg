CONSTANTS
  Fuel = 80
  Ring = 2
  InlineMaxRules = 6
  OutlineMinStates = 7
  MaxRounds = 10
  Programs <- MCPrograms
SPECIFICATION Spec
INVARIANT RoundsSettle
PROPERTIES KeepsTheRun KeepsTheAccesses
CHECK_DEADLOCK FALSE
