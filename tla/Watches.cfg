SPECIFICATION FairSpec
CONSTANTS
    k1 = k1
    k2 = k2
    Key <- MCKey
    Pattern <- MCPattern
    StartRev = {0}
    Client = {c1}
    kMaxEventQueueSize = 2
    MaxBatch = 2
    MaxWatches = 2
    MaxEvents = 3
INVARIANTS TypeOK DueDelivered
PROPERTY EventEndsWait
CHECK_DEADLOCK FALSE  \* the bounds are reached and every watcher may be idle
