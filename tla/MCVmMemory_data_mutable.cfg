SPECIFICATION MemSpec
CONSTANTS
  MaxLevel = 1
  HEAP_RAM_SIZE = 2
  HEAP_RAM_START = 2
  WORD_MOD = 16
  Sizes = {0}
  Image <- SmallImage
  FreshWords <- ZeroWords
  Indeterminate = {0}
  Immediates = {3}
  Addresses = {0, 1}
  Offsets <- Indices
  MaxStack = 1
INVARIANT
  DataStaysMutable
CHECK_DEADLOCK FALSE
