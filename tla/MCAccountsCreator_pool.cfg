\* Two dispatch threads (Ice.ThreadPool.Server.SizeMax=2): the HashMap is raced.
CONSTANTS
    None = None
    EmptyPesel = empty
    Pesels = {p1, p2, empty}
    Incomes <- MCIncomes
    Keys = {k1, k2}
    Balances = {b1}
    Calls = {c1, c2, c3}
    SizeMax = 2
    MaxRestarts = 1
SPECIFICATION Spec
SYMMETRY Symmetry
INVARIANTS
    TypeOK
    EntriesBacked
    OneWinner
    NoDanglingProxy
