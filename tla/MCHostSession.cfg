CONSTANTS
  NUM_ROWS = 4
  NUM_COLS = 2
  FIFO_DEPTH = 2
  ColMax = 3
  AccMax = 15
  BUCKETS = 2
  NUM_PRED = 2
  WordSpan = 4
  PollLimit = 16
  NoData = NoData
  hash_key <- MCHash
  RamPowerUp <- MCPowerUp
  Queries <- MCQueries
  Loads <- MCLoads
  MaxCommands = 4
  StatusPolls = 30
  GroupPolls = 60
SPECIFICATION Spec
INVARIANTS
  ReturnsTheAnswer
  FailsOnlyWhenEmpty
PROPERTIES
  CommandsEnd
CHECK_DEADLOCK FALSE
