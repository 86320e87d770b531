CONSTANTS
  Archives = {"buggy", "fixed", "unknown"}
  Nicknames = {"anna"}
  MaxLaunches = 2
  MaxEvaluations = 2
  MaxEdits = 2
  MaxFailures = 1
  MaxDeaths = 1
CHECK_DEADLOCK FALSE
SPECIFICATION FairSpec
INVARIANTS
  StatusIsTrue
  NicknameReaches
  FilesAreTheirs
PROPERTIES
  Settles
