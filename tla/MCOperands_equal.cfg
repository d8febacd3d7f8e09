SPECIFICATION Spec
CONSTANTS
  INT_MOD = 8
  CHAR_MOD = 4
  BYTE_MOD = 4
  Unit = 3
  Epsilon = 2
  MaxFloat = 12
  Words <- AllWords
  Floats <- SomeFloats
  AddressWords = {1, 7}
  MaxStack = 2
INVARIANT
  EqualPushesOne
CHECK_DEADLOCK FALSE
