----------------------------- MODULE MCBuddySearch -----------------------------
EXTENDS BuddySearch

AllRequests == 0..(WORD_MOD - 1)
=============================================================================
