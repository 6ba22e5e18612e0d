CONSTANTS
  Server = {1, 2, 3}
  Value = {v}
  MaxEntriesPerMsg = 1
  MaxTerm = 1
  MaxElections = 2
  MaxProposals = 1
  MaxTimeouts = 0
  MaxRestarts = 1
  v = v
  w = w
SPECIFICATION MCSpec
INVARIANT ElectionSafety
