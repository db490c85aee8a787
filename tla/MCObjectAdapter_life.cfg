CONSTANTS
    None = None
    Threads = {t1, t2}
    Connections = {c1}
    NestedOps <- Nested
    MaxCalls = 4
    MaxRequests = 1
    OverlapsStartup = FALSE
SPECIFICATION Spec
INVARIANTS
    TypeOK
    QuietWhenDestroyed
    OneAfterHold
    NotListed
    StillActivating
PROPERTIES
    DeactivationIsFinal
    DeactivateReturns
    DestroyReturns
CHECK_DEADLOCK FALSE
