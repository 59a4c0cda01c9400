SPECIFICATION Spec
CONSTANTS
    w1 = w1
    w2 = w2
    None = None
    N = 2
    Folders <- FirstIsFolder
    Workers <- TwoWorkers
    MaxRuns = 3
    MaxCrashes = 1
    MaxChanges = 1
    MaxTimeouts = 1
    MaxRemovals = 1
CONSTRAINT FewFaults
SYMMETRY WorkerSymmetry
CHECK_DEADLOCK FALSE
INVARIANTS TypeOK RunTruthful BegunOnce OutcomePublished RunDisciplined
