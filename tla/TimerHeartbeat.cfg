CONSTANTS
  Server = {1, 2}
  HeartbeatTicks = 1
  MinTimeout = 2
  MaxTimeout = 3
  MaxTerm = 3
  MaxCrashes = 0
SPECIFICATION MCSpec
PROPERTY HeartbeatResetsTimer
