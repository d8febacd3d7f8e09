SPECIFICATION Spec
CONSTANTS
  MaxLevel = 2
  HEAP_RAM_SIZE = 4
  HEAP_RAM_START = 1
  WORD_MOD = 8
  Sizes = {0, 2}
INVARIANTS
  TwoTypeOK
  NoSharedNodes
  EachFindsItsOwn
  NothingLost
PROPERTY
  OneHeap
