---------------------------- MODULE MCHostClient ----------------------------
EXTENDS HostClient, TLC

Symmetry == Permutations(Sessions) \cup Permutations(Forks)
=============================================================================
