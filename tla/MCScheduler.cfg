SPECIFICATION Spec
CONSTANTS
  MAX_THREADS = 4
  Lengths = {1, 2, 3}
  MayExit = TRUE
INVARIANTS
  TypeOK
  ReturnsWhenAllFree
PROPERTIES
  TakesTurns
  EveryProgramEnds
  ExecutionReturns
CHECK_DEADLOCK FALSE
