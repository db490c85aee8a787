\* The bank is restarted once, the provider never fails.
CONSTANTS
    MIN_BOUND = 6
    MAX_BOUND = 12
    MaxChange = 1
    InitialPrice <- HalfPrices
    Loans = {l1}
    MaxFaults = 0
    MaxBankRestarts = 1
    null = null
SPECIFICATION Spec
INVARIANT
    AnswerIsCurrentPrice
