\* Nothing fails.
CONSTANTS
    MIN_BOUND = 6
    MAX_BOUND = 12
    MaxChange = 1
    InitialPrice <- HalfPrices
    Loans = {l1}
    MaxFaults = 0
    MaxBankRestarts = 0
    null = null
SPECIFICATION Spec
INVARIANT
    RateOfItsCurrency
