------------------------------ MODULE MCMemory ------------------------------
(* Model values for the runs of Memory. *)
EXTENDS Memory, TLC

Symmetry == Permutations(Observations)
=============================================================================
