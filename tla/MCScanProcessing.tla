-------------------------- MODULE MCScanProcessing --------------------------
(* Model values for the runs of ScanProcessing. *)
EXTENDS ScanProcessing, TLC

Symmetry == Permutations(Workers) \cup Permutations(Files)
=============================================================================
