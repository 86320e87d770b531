CONSTANTS
  NoText = NoText
  Players = {1, 2}
  Texts <- MCTexts
  Actions = {0, 1449, 1450}
  Codes = {8, 12}
  Versions = {4, 5}
  Version = 5
  MaxReqJoin = 255
  MaxName = 15
  MaxClassicName = 15
  MaxTag = 255
  MaxChat = 254
  MaxHostChat = 254
  MaxControl = 4096
  MaxData = 1449
  MaxIncoming = 1460
  MaxTunnel = 1460
  MaxNotice = 84
  MaxSent = 1
  PlayerIds = {1, 2, 3}
  Checksums = {0, 1}
  MaxPending = 2
  MaxRounds = 3
  Me = me
  Others = {n1, n2}
  MaxPlayers = 3
  Capacity = 2
  MaxRevision = 5
  MaxChats = 1
  MaxTicks = 1
  Authors = {1, 2}
  MaxActionData = 5
  MaxRecords = 10
  MaxFrame = 18
  Byte = 4
  MaxActions = 3
  Increment = 100
  MapBytes = 7
  PartBytes = 2
  WindowParts = 2
  PreparationLimit = 1
  StallLimit = 1
  TotalLimit = 2
  MaxReports = 1
  Lobbies = {"l1", "l2"}
  Sessions = {"s1"}
  ProcessIds = {1}
  MaxRestarts = 1
  MaxDamages = 1
  Lengths = {2, 3, 4}
  Limit = 3
  MaxFrames = 3
CHECK_DEADLOCK FALSE
SPECIFICATION MCSpec
INVARIANTS
  Fewest
  AgentsReadTheQueue
  VerdictsAreJust
  RelaysFaithfully
  NeverMisled
  WarcraftSeesTheRoom
  PartsInOrder
  HonestWarcraftGetsReady
  DownloadsKeepTheirFiles
  ReadsInStep
PROPERTIES
  TransferEnds
  LoadsEnd
