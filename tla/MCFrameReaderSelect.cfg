CONSTANTS
  Lengths = {2, 3, 4}
  Limit = 4
  MaxFrames = 2
CHECK_DEADLOCK FALSE
SPECIFICATION ReaderSpec
INVARIANTS
  AllReadsInStep
