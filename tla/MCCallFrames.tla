----------------------------- MODULE MCCallFrames ------------------------------
EXTENDS CallFrames
=============================================================================
