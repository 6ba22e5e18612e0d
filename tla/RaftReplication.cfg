CONSTANTS
  Server = {1, 2}
  Value = {v}
  MaxEntriesPerMsg = 1
  MaxTerm = 1
  MaxElections = 1
  MaxProposals = 2
  MaxTimeouts = 1
  MaxRestarts = 1
  v = v
  w = w
SPECIFICATION FairSpec
INVARIANT RpcMatched
PROPERTY LeaderReplicates
CHECK_DEADLOCK FALSE
