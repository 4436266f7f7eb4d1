--------------------------- MODULE MCSessionWorkers ---------------------------
(***************************************************************************)
(* Instances of SessionWorkers for TLC.                                    *)
(***************************************************************************)
EXTENDS SessionWorkers, TLC

Symmetry ==
  Permutations(Workers) \cup Permutations(Opens) \cup Permutations(Forks)
    \cup Permutations(Sessions \ Stored)
=============================================================================
