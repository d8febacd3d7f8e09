SPECIFICATION MemStaleSpec
CONSTANTS
  MaxLevel = 1
  HEAP_RAM_SIZE = 2
  HEAP_RAM_START = 2
  WORD_MOD = 16
  Sizes = {0, 1}
  Image <- SmallImage
  FreshWords <- ZeroWords
  Indeterminate = {0}
  Immediates = {3}
  Addresses <- AllAddresses
  Offsets <- Indices
  MaxStack = 1
INVARIANTS
  MemTypeOK
  ConstImmutable
  HeadersUntouched
PROPERTY
  ConstantIsForever
CHECK_DEADLOCK FALSE
