CONSTANTS
  Catalogs <- MCCatalogs
  Ports = {1, 2, 3}
  BindAttempts = 2
  MaxChanges = 2
  MaxOutages = 1
  MaxFailures = 1
  MaxForeign = 1
  MaxTakeovers = 1
  MaxJoins = 1
  Agents = {"a1"}
  Maps = {"m1", "m2"}
  Spellings = {"small", "CAPITAL"}
  Tokens = {"t1", "t2"}
  NoToken = "none"
  AgentToken = "t1"
  Blocks = 2
  Inodes = {1, 2}
  NoFile = 0
  MaxStarts = 2
  MaxTouches = 2
CHECK_DEADLOCK FALSE
SPECIFICATION MCSpec
INVARIANTS
  AdsCanBeJoined
  DownloadsAreHonest
PROPERTIES
  AdsFollowTheCatalog
  MapsArrive
