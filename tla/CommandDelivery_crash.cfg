SPECIFICATION FairSpec
CONSTANTS
    p1 = p1
    q1 = q1
    None = None
    Physical <- OnePhysical
    Control <- OneControl
    ReplayLimit = 2
    MaxCrashes = 2
    MaxLost = 2
\* A revoked device stops polling for good.
CHECK_DEADLOCK FALSE
INVARIANTS TypeOK EffectOnce OutcomeProven
PROPERTIES ChangeReported ImplementsContract
