SPECIFICATION ProgramSpec
CONSTANTS
  Sources <- AllSources
  Numerals <- Digits
  VM_PROGRAM_MEM = 20
  Leftover <- OldBinary
  CALL_STACK_MEM = 2
  THREAD_STACK_SIZE = 4
  VM_STACK_SIZE = 3
  VM_RAM_SIZE = 8
  WORD_MOD = 32
  Residue = {9}
INVARIANTS
  ProgramTypeOK
  RunsWholeBinary
  CodeWhereMapped
  DecodesAsWritten
  LocalsApart
PROPERTY
  ImplementsText
  RunsEnd
CHECK_DEADLOCK FALSE
