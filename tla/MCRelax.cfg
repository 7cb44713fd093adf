CONSTANT Programs <- MCPrograms
SPECIFICATION Spec
INVARIANTS WidthsStillFit NoNeedlessFarJump
PROPERTY WidthsSettle
CHECK_DEADLOCK FALSE
