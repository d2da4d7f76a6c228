CONSTANTS
  ColMax = 3
  AccMax = 7
  RowLimit = 4
  Words = {0, 1, 3}
  MaxBeats = 3
SPECIFICATION BenchSpec
INVARIANTS
  Lockstep
  ExactOrSaturated
  DoneResults
  QueryChecks
