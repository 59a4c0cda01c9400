SPECIFICATION Spec
CONSTANTS
    Files = {f1, f2}
    Workers = {w1, w2}
    ReadBatch = 1
    MaxEvents = 2
    MaxRequests = 2
    None = None
    Orphan = Orphan
SYMMETRY Symmetry
CHECK_DEADLOCK FALSE
INVARIANTS TypeOK 
PROPERTIES ImplementsOwnedWork
