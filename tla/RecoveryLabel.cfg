SPECIFICATION Spec
CONSTANTS
    Key = {1}
    Value = {v}
    NoValue = none
    v = v
    MaxSnapshots = 1
    SnapshotThreshold = 1
    MaxProposals = 2
    MaxUnapplied = 1
    MaxStarts = 1
INVARIANT LabelApplied
CHECK_DEADLOCK FALSE  \* the process may be down and its lives used up
