----------------------------- MODULE MCScheduler ------------------------------
EXTENDS Scheduler
=============================================================================
