CONSTANTS
  Fuel = 80
  Ring = 2
  InlineMaxRules = 6
  OutlineMinStates = 7
  MaxRounds = 10
  Programs <- MCReadingPrograms
SPECIFICATION Spec
PROPERTY KeepsTheAccesses
CHECK_DEADLOCK FALSE
