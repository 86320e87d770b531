CONSTANTS
  MaxLaunches = 3
  MaxConnections = 2
  MaxPathChanges = 3
CHECK_DEADLOCK FALSE
SPECIFICATION MCSpec
INVARIANTS
  NoStaleLobby
