SPECIFICATION Spec
CONSTANTS
  VM_PROGRAM_MEM = 4
  CALL_STACK_MEM = 2
  THREAD_STACK_SIZE = 3
  WORD_MOD = 8
  Starts = {0}
  Offsets = {0, 1}
  Payloads = {1, 2}
  Residue = {0}
INVARIANTS
  TypeOK
  LockStep
  FramesApart
  LocalsKept
CHECK_DEADLOCK FALSE
