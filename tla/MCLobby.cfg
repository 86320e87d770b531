CONSTANTS
  n1 = n1
  n2 = n2
  n3 = n3
  Names = {n1, n2, n3}
  Messages = {}
  Checksums = {0, 1}
  MaxPlayers = 3
  CountdownSteps = 2
  MaxPendingActions = 2
  MaxPendingChecksums = 1
  PromptEnd = TRUE
  MaxSessions = 4
  MaxSequence = 1
  MaxFrames = 2
CHECK_DEADLOCK FALSE
SPECIFICATION Spec
SYMMETRY NameSymmetry
INVARIANTS
  Inductive
PROPERTIES
  EndsTheGameItMeant
  FramesAreContiguous
  ImplementsMatch
