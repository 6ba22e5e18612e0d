SPECIFICATION Spec
CONSTANTS
    Key = {1}
    Value = {v}
    NoValue = none
    v = v
    MaxSnapshots = 1
    SnapshotThreshold = 1
    MaxProposals = 4
    MaxUnapplied = 2
    MaxStarts = 2
INVARIANT SavedSnapshotStays
CHECK_DEADLOCK FALSE  \* the process may be down and its lives used up
