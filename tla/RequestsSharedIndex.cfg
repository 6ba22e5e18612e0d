SPECIFICATION MCSpec
CONSTANTS
    k1 = k1
    s1 = s1
    Key <- MCKey
    Transaction <- MCTransaction
    NoValue = NoValue
    None = None
    Server = {s1, s2}
    Updater = {r1, r2}
    Transactor = {}
    MaxElections = 3
    MaxStops = 0
PROPERTY EveryPutAnswered
CHECK_DEADLOCK FALSE
