SPECIFICATION Spec
CONSTANTS
    Key = {1}
    Value = {v}
    NoValue = none
    v = v
    MaxSnapshots = 1
    SnapshotThreshold = 9
    MaxProposals = 1
    MaxUnapplied = 1
    MaxStarts = 2
INVARIANT PromisesKept
CHECK_DEADLOCK FALSE  \* the process may be down and its lives used up
