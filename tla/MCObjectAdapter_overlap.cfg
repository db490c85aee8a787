CONSTANTS
    None = None
    Threads = {t1, t2}
    Connections = {c1}
    NestedOps <- Nested
    MaxCalls = 4
    MaxRequests = 1
    OverlapsStartup = TRUE
SPECIFICATION Spec
INVARIANT
    StillActivating
CHECK_DEADLOCK FALSE
