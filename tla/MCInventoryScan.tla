-------------------------- MODULE MCInventoryScan --------------------------
(* TLC instances of InventoryScan: the requests are interchangeable. *)
EXTENDS InventoryScan, TLC

Symmetry == Permutations(Workers)
=============================================================================
