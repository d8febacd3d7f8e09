----------------------------- MODULE MCTwoMachines -----------------------------
EXTENDS TwoMachines
=============================================================================
