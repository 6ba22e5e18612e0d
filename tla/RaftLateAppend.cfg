CONSTANTS
  Server = {1, 2}
  Value = {v}
  MaxEntriesPerMsg = 1
  MaxTerm = 2
  MaxElections = 1
  MaxProposals = 2
  MaxTimeouts = 1
  MaxRestarts = 0
  v = v
  w = w
SPECIFICATION MCSpec
INVARIANT MatchStored
