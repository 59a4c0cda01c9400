SPECIFICATION Spec
CONSTANTS
    MaxRegistrations = 2
    MaxCommands = 2
    MaxEvents = 1
    MaxInFlight = 2
INVARIANTS
    TypeOK
    SyncedAgrees
    DenialHolds
CHECK_DEADLOCK FALSE
