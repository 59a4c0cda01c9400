--------------------------- MODULE MCPhysicalRun ---------------------------
(* Model values for PhysicalRun. *)
EXTENDS PhysicalRun, TLC

CONSTANTS w1, w2

TwoWorkers == {w1, w2}
FirstIsFolder == {1}
(* Up to two faults of any kinds while there are two runs, one with three. *)
FewFaults ==
    counts.crashes + counts.changes + counts.timeouts + counts.removals
        + Cardinality({r \in Runs : run[r] # "NONE"}) <= 4

WorkerSymmetry == Permutations(TwoWorkers)
=============================================================================
