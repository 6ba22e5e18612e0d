CONSTANTS
  Server = {1, 2, 3}
  Value = {v, w}
  MaxEntriesPerMsg = 1
  MaxTerm = 1
  MaxElections = 2
  MaxProposals = 2
  MaxTimeouts = 0
  MaxRestarts = 0
  v = v
  w = w
SPECIFICATION MCSpec
INVARIANTS ElectionSafety LogsAgree
PROPERTY ImplementsConsensus
