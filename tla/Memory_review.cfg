SPECIFICATION MemorySpec
CONSTANTS
    Observations = {o1, o2, o3}
    MaxDecisions = 4
    MaxIncidents = 2
SYMMETRY Symmetry
CHECK_DEADLOCK FALSE
INVARIANTS MemoryTypeOK ManifestSound
PROPERTY SupportKept
