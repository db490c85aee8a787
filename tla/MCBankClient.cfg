\* The bank is restarted at most once, at any moment.
CONSTANTS
    None = None
    EmptyPesel = empty
    Pesels = {p1, empty}
    Incomes <- MCIncomes
    Keys = {k1}
    Balances = {b1}
    Clients = {u1, u2}
    MaxChoices = 3
    MaxRestarts = 1
SPECIFICATION Spec
INVARIANTS
    TypeOK
    LoanPathAgrees
    FailuresExplained
PROPERTY
    ChoiceEnds
CHECK_DEADLOCK FALSE
