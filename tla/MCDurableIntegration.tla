------------------------ MODULE MCDurableIntegration ------------------------
(* Instances of DurableIntegration for TLC.                                *)
EXTENDS DurableIntegration, TLC

Symmetry == Permutations(Disk) \cup Permutations(Surface)
=============================================================================
