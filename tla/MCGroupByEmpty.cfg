CONSTANTS
  BUCKETS = 2
  GbAccMax = 3
  hash_key <- MCHash
  RamPowerUp <- MCPowerUp
  Keys = {0, 1, 3}
  Vals = {1, 2}
  RowLimit = 3
  RowLists <- MCLists
  PushSlack = 4
  DrainSlack = 32
SPECIFICATION BenchSpec
INVARIANT FinishedWithTlast
