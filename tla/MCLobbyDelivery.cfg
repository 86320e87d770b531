CONSTANTS
  n1 = n1
  n2 = n2
  m1 = m1
  Names = {n1, n2}
  Messages = {m1}
  Checksums = {0, 1}
  MaxPlayers = 2
  CountdownSteps = 1
  MaxPendingActions = 1
  MaxPendingChecksums = 1
  PromptEnd = TRUE
  MaxSessions = 2
  MaxSequence = 1
  MaxFrames = 1
  Capacity = 3
CHECK_DEADLOCK FALSE
SPECIFICATION DeliverySpec
SYMMETRY NameSymmetry
INVARIANTS
  AgentsConverge
  SteadySessionsFollow
