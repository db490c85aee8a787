CONSTANTS
    None = None
    WorkQueue = WorkQueue
    Exit = Exit
    Connections = {c1, c2}
    Configurations <- Pools
    MaxRequests = 2
    MaxItems = 1
    MaxShrinks = 1
    SizeLimit = 2
SPECIFICATION Spec
INVARIANTS
    TypeOK
    CountersExact
    OneLeader
    DispatchLimit
    SomeoneReads
PROPERTIES
    RequestsAreRead
    PoolTerminates
