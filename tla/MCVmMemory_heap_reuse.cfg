SPECIFICATION MemSpec
CONSTANTS
  MaxLevel = 2
  HEAP_RAM_SIZE = 4
  HEAP_RAM_START = 2
  WORD_MOD = 16
  Sizes = {0, 2}
  Image <- SmallImage
  FreshWords <- ZeroWords
  Indeterminate = {0}
  Immediates = {}
  Addresses = {}
  Offsets <- Indices
  MaxStack = 4
INVARIANT
  LiveDataWritable
CHECK_DEADLOCK FALSE
