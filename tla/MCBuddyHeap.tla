------------------------------ MODULE MCBuddyHeap ------------------------------
EXTENDS BuddyHeap

AllRequests == 0..(WORD_MOD - 1)
=============================================================================
