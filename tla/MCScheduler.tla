---------------------------- MODULE MCScheduler ----------------------------
(* Scheduler with two devices that may register several points each.         *)
EXTENDS Scheduler, TLC

CONSTANTS d1, d2

MCDevices  == {d1, d2}
MCSymmetry == Permutations(MCDevices)
=============================================================================
