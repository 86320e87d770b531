CONSTANTS
  n1 = n1
  n2 = n2
  m1 = m1
  Names = {n1, n2}
  Messages = {}
  Checksums = {0}
  MaxPlayers = 2
  CountdownSteps = 1
  MaxPendingActions = 1
  MaxPendingChecksums = 1
  PromptEnd = TRUE
  MaxSessions = 2
  MaxSequence = 1
  MaxFrames = 1
  Capacity = 8
CHECK_DEADLOCK FALSE
SPECIFICATION DeliverySpec
SYMMETRY NameSymmetry
INVARIANTS
  GameEndIsTold
