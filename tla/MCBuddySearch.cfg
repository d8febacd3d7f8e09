SPECIFICATION StaleSpec
CONSTANTS
  MaxLevel = 2
  HEAP_RAM_SIZE = 5
  HEAP_RAM_START = 3
  WORD_MOD = 16
  Sizes <- AllRequests
INVARIANTS
  SearchAgrees
  LoopsAgree
  LevelsAgree
