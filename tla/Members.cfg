SPECIFICATION Spec
CONSTANTS
    NodeId = {1, 2}
    Self = 1
    Config = {2}
    Client = {c1}
    None = None
    MaxIndex = 2
    MaxEntriesPerMsg = 1
INVARIANTS TypeOK PeersTracked PeersReplayPassed
