\* One run and its Undo, two requests, one scan or retry of a person or one fault.
CONSTANTS
    Runs = {r1}
    Paths = {p1}
    Workers = {w1, w2}
    MaxScans = 4
    MaxEvents = 1
    MaxFileChanges = 1
    None = None
SPECIFICATION Spec
CHECK_DEADLOCK FALSE
INVARIANTS TypeOK InventoryFresh ReconciledAfterOutcome InventoryWhole
SYMMETRY Symmetry
