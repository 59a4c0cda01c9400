--------------------------- MODULE MCPublication ---------------------------
(* Model values for the runs of Publication. *)
EXTENDS Publication, TLC

(* A decision or an identity review, and a fault; with both, the newer of two
   scans is not prepared file by file. *)
FewEvents ==
    /\ human.authority + human.identity <= 1
    /\ human.authority + human.identity + counts = 2 /\ Len(scans) = 2 => backfill[2].status = "NONE"

Symmetry == Permutations(Workers)
=============================================================================
