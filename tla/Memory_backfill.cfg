SPECIFICATION MemorySpec
CONSTANTS
    Observations = {o1, o2}
    MaxDecisions = 3
    MaxIncidents = 0
CHECK_DEADLOCK FALSE
INVARIANT CorrectionsReconciled
