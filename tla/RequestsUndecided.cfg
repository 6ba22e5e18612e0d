SPECIFICATION MCSpec
CONSTANTS
    k1 = k1
    s1 = s1
    Key <- MCKey
    Transaction <- MCTransaction
    NoValue = NoValue
    None = None
    Server = {s1, s2}
    Updater = {r1, r2}
    Transactor = {r2}
    MaxElections = 2
    MaxStops = 0
INVARIANT SuccessMeansDecided
CHECK_DEADLOCK FALSE
