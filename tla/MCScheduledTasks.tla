-------------------------- MODULE MCScheduledTasks --------------------------
(* Instances of ScheduledTasks for TLC.                                    *)
EXTENDS ScheduledTasks, TLC

Symmetry == Permutations(Sync)
=============================================================================
