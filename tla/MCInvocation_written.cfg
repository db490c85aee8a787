CONSTANTS
    None = None
    CloseMsg = CloseMsg
    RetryTask = RetryTask
    Invocations = {createAccount, getAccountStatus}
    Idempotent = {getAccountStatus}
    Cancelable = {}
    Retries = 1
    MaxConnections = 2
    MaxFaults = 1
    ReadFailsAfterWrite = TRUE
SPECIFICATION Spec
INVARIANTS
    AtMostOnce
