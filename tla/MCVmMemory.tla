------------------------------ MODULE MCVmMemory -------------------------------
EXTENDS VmMemory

\* One constant and one mutable word of static data
SmallImage == <<[u |-> 4, word_state |-> CONSTANT_WORD], [u |-> 3, word_state |-> OPEN]>>

\* ram[] comes from fresh pages
ZeroWords == {[u |-> 0, word_state |-> AVAILABLE]}

\* Every address, and one past the end
AllAddresses == 0..VM_RAM_SIZE

\* The first element, and the one before it
Indices == {-1, 0}
=============================================================================
