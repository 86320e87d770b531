CONSTANTS
  n1 = n1
  n2 = n2
  m1 = m1
  Names = {n1, n2}
  Messages = {}
  Checksums = {}
  MaxPlayers = 2
  CountdownSteps = 1
  MaxPendingActions = 1
  MaxPendingChecksums = 1
  PromptEnd = TRUE
  MaxSessions = 3
  MaxSequence = 0
  MaxFrames = 1
  Capacity = 2
CHECK_DEADLOCK FALSE
SPECIFICATION DeliverySpec
SYMMETRY NameSymmetry
INVARIANTS
  RecoveredSessionsGoOn
