SPECIFICATION Spec
CONSTANTS
    i1 = i1
    i2 = i2
    i3 = i3
    a = a
    d1 = d1
    d2 = d2
    None = None
    NoDir = NoDir
    Empty = Empty
    Inodes <- MCInodes
    Items <- MCItems
    Dirs <- TwoDirs
    MaxInterference = 3
    MaxCrashes = 2
    MaxAttempts = 2
SYMMETRY Symmetry
INVARIANTS TypeOK JournalTruthful
PROPERTY ContentSafe
