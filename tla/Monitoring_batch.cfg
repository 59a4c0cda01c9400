SPECIFICATION MonitoringSpec
CONSTANTS
    Roots = {r1}
    Workers = {w1, w2}
    OutboxLimit = 2
    DeliveryLimit = 2
    QueueLimit = 2
    Ignored = {1}
    MaxChanges = 3
    MaxBatches = 2
    MaxScans = 1
    MaxSwitches = 1
    MaxFaults = 1
    None = None
CONSTRAINT FewEvents
SYMMETRY Symmetry
CHECK_DEADLOCK FALSE
INVARIANTS MonitoringTypeOK ChangesAccounted WorkOwned
PROPERTY SettledKept
