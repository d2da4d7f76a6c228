CONSTANTS
  NUM_ROWS = 4
  NUM_COLS = 2
  FIFO_DEPTH = 2
  ColMax = 3
  AccMax = 15
  BUCKETS = 2
  NUM_PRED = 2
  WordSpan = 4
  PollLimit = 32
  NoData = NoData
  hash_key <- MCHash
  RamPowerUp <- MCPowerUp
  Queries <- MCQueries
  Loads <- MCLoads
  ClassicPolls = 30
  PollPeriod = 8
  LoopLimit = 64
  MaxSpin = 16
  MaxStalls = 1
  Workloads <- MCWorkloads
  Unmeasured = Unmeasured
  MaxPolls = 12
SPECIFICATION PerfSpec
INVARIANTS
  ClassicChecks
  GroupChecks
  AbortClears
  MeasuredCycles
PROPERTIES
  ScenariosEnd
