CONSTANTS
  NUM_ROWS = 8
  NUM_COLS = 2
  FIFO_DEPTH = 2
  ColMax = 3
  AccMax = 31
  BUCKETS = 2
  NUM_PRED = 2
  WordSpan = 4
  PollLimit = 16
  NoData = NoData
  hash_key <- MCHash
  RamPowerUp <- MCPowerUp
  Queries <- MCQueries
  Loads <- MCLoads
  MaxCommands = 3
  StatusPolls = 30
  GroupPolls = 12
SPECIFICATION Spec
INVARIANTS
  ReturnsTheAnswer
CHECK_DEADLOCK FALSE
