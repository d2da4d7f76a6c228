CONSTANTS
  DEPTH = 3
  Beat = {b1, b2, b3}
  Blank = blank
SPECIFICATION BenchSpec
INVARIANTS
  Scoreboard
PROPERTIES
  ImplementsQueue
