CONSTANTS
  Server = {1, 2}
  Value = {v}
  MaxEntriesPerMsg = 1
  MaxTerm = 2
  MaxElections = 2
  MaxProposals = 2
  MaxTimeouts = 0
  MaxRestarts = 0
  v = v
  w = w
SPECIFICATION MCSpec
INVARIANT BatchStored
