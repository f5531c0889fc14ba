-------------------------- MODULE MCSchedulerQueue --------------------------
EXTENDS SchedulerQueue, TLC
CONSTANTS d1, d2
MCSymmetry == Permutations({d1, d2})
MCTickets  == 1..6
=============================================================================
