CONSTANTS
    None = None
    CloseMsg = CloseMsg
    RetryTask = RetryTask
    Invocations = {createAccount}
    Idempotent = {}
    Cancelable = {createAccount}
    Retries = 1
    MaxConnections = 2
    MaxFaults = 1
    ReadFailsAfterWrite = FALSE
SPECIFICATION Spec
PROPERTIES
    EveryCallEnds
    AtMostOnceCalls
