SPECIFICATION Spec
CONSTANTS
    Workers = {w1, w2}
    MaxScans = 2
    MaxDecisions = 1
    MaxReviews = 1
    MaxEvents = 1
CONSTRAINT FewEvents
SYMMETRY Symmetry
CHECK_DEADLOCK FALSE
INVARIANTS TypeOK DerivedCurrent
PROPERTIES CompletionKept EntryKept ImplementsOwnedWork
