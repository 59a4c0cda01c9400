\* Two selections of the folder, one command, a sync in flight at a time.
SPECIFICATION Spec
CONSTANTS
    MaxRegistrations = 2
    MaxCommands = 1
    MaxEvents = 0
    MaxInFlight = 1
INVARIANT ReconnectedAfterDenial
CHECK_DEADLOCK FALSE
