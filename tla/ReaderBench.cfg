CONSTANTS
  NUM_ROWS = 5
  AddrSpan = 8
  FIFO_DEPTH = 2
  Row = {r1, r2}
  Blank = blank
  MaxStalls = 3
  StallStarts = {0, 1, 5}
  StallMids = {0, 2, 4}
SPECIFICATION BenchSpec
INVARIANTS
  FreshWhenOffered
  RunChecks
PROPERTIES
  ImplementsScan
  ScanEnds
