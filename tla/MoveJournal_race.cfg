SPECIFICATION FairSpec
CONSTANTS
    i1 = i1
    i2 = i2
    i3 = i3
    x = x
    y = y
    d1 = d1
    d2 = d2
    None = None
    NoDir = NoDir
    Empty = Empty
    Inodes <- MCInodes
    Checksums <- MCChecksums
    Dirs <- TwoDirs
    Expected = x
    MaxInterference = 2
    MaxCrashes = 2
    MaxAttempts = 2
INVARIANTS TypeOK NoEffectTruthful JournalExact
PROPERTIES LastNameKept OwnedCaptureFinished
