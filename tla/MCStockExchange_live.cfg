\* The provider fails twice and the bank is restarted once, at any moment.
CONSTANTS
    MIN_BOUND = 6
    MAX_BOUND = 12
    MaxChange = 1
    InitialPrice <- HalfPrices
    Loans = {l1}
    MaxFaults = 2
    MaxBankRestarts = 1
    null = null
SPECIFICATION Spec
INVARIANTS
    TypeOK
    AnswerIsCurrentInOneLife
    LateLoansAreReal
PROPERTIES
    LoanAnswered
    FeedKeepsRefreshing
