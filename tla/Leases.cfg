SPECIFICATION FairSpec
CONSTANTS
    Key = {1, 2}
    TTL = {1, 2}
    MaxLeases = 2
    MaxRequests = 2
    MaxTime = 2
    MaxChanges = 1
INVARIANTS TypeOK OwnedKeysAttached NeverTooLong
PROPERTY DeadKeysGo
CHECK_DEADLOCK FALSE  \* clients need not ask and the clock stops at its bound
