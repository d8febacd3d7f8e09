SPECIFICATION Spec
CONSTANTS
  MaxLevel = 1
  HEAP_RAM_SIZE = 2
  HEAP_RAM_START = 1
  WORD_MOD = 8
  Sizes = {0, 1}
PROPERTY
  FirstMachineAlone
