CONSTANTS
  Server = {1, 2}
  Value = {v}
  MaxEntriesPerMsg = 1
  MaxTerm = 2
  MaxElections = 3
  MaxProposals = 1
  MaxTimeouts = 0
  MaxRestarts = 0
  v = v
  w = w
SPECIFICATION FairSpec
PROPERTY SplitVoteResolved
CHECK_DEADLOCK FALSE
