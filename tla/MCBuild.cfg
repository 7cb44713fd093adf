CONSTANTS
  Fuel = 60
  InlineMaxOps = 3
  MaxRounds = 10
  Programs <- MCPrograms
  Tapes <- MCTapes
  Answers <- MCAnswers
SPECIFICATION Spec
INVARIANT Settles
PROPERTIES KeepsMeaning KeepsAccesses
CHECK_DEADLOCK FALSE
