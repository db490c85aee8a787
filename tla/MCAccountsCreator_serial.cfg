\* One dispatch thread, the Ice default; the server is restarted at most once.
CONSTANTS
    None = None
    EmptyPesel = empty
    Pesels = {p1, empty}
    Incomes <- MCIncomes
    Keys = {k1, k2}
    Balances = {b1}
    Calls = {c1, c2, c3}
    SizeMax = 1
    MaxRestarts = 1
SPECIFICATION Spec
INVARIANTS
    PremiumAnswersAgree
    FreshLookup
PROPERTIES
    EveryCallAnswered
    AtomicBook
