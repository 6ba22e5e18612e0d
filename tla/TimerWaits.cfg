CONSTANTS
  Server = {1, 2, 3}
  HeartbeatTicks = 1
  MinTimeout = 2
  MaxTimeout = 3
  MaxTerm = 3
  MaxCrashes = 1
SPECIFICATION MCSpec
INVARIANTS TypeOK FollowerBounded
PROPERTY StandsAfterTimeout
