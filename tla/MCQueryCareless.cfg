CONSTANTS
  NUM_ROWS = 8
  NUM_COLS = 2
  FIFO_DEPTH = 2
  ColMax = 3
  AccMax = 15
  BUCKETS = 2
  hash_key <- MCHash
  RamPowerUp <- MCPowerUp
  Tables <- MCTables
  Loads <- MCLoads
  Configs <- MCConfigs
  BenchTables <- MCBenchTables
  Queries <- MCQueries
  LoopSlack = 64
SPECIFICATION CarelessSpec
INVARIANT NoStaleRows
