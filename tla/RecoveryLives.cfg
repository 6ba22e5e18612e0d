SPECIFICATION FairSpec
CONSTANTS
    Key = {1, 2}
    Value = {v}
    NoValue = none
    v = v
    MaxSnapshots = 1
    SnapshotThreshold = 1
    MaxProposals = 3
    MaxUnapplied = 2
    MaxStarts = 2
INVARIANTS TypeOK FilesSuffice IndexBacked
PROPERTIES NewestSnapshotStays ProposalsApplied
CHECK_DEADLOCK FALSE  \* the process may be down and its lives used up
