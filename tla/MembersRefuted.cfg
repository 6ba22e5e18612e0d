\* Each of the six is violated when it stands alone; TLC stops at the first.
SPECIFICATION Spec
CONSTANTS
    NodeId = {1, 2, 3}
    Self = 1
    Config = {2}
    Client = {c1, c2}
    None = None
    MaxIndex = 2
    MaxEntriesPerMsg = 1
SYMMETRY Symmetry
INVARIANTS PeersReplayLog NothingPassedOver IteratorValid MembersCounted NotOwnPeer IdsDistinct

