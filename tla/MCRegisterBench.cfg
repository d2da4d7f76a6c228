CONSTANTS
  NUM_ROWS = 2
  NUM_COLS = 1
  NUM_PRED = 2
  WordSpan = 4
  PollLimit = 16
  NoData = NoData
  WriteData <- MCWriteData
  Statuses <- MCStatuses
  MaxCalls = 3
  Writes <- MCWrites
  MaxWrites = 3
SPECIFICATION BenchSpec
INVARIANTS
  RoundTrip
  ReadsBack
  StrobeOnce
  WritesLand
PROPERTIES
  CallsReturn
CHECK_DEADLOCK FALSE
