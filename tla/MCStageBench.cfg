CONSTANTS
  Blank = blank
  Beat <- MCBeat
  Ops = {"EQ", "GT", "LTE", "RESERVED"}
  Slots <- MCSlots
  Masks <- MCMasks
  Tables <- MCTables
  MaxStalls = 2
SPECIFICATION BenchSpec
INVARIANTS
  StageChecks
  PassIsWhere
PROPERTIES
  OutputStable
  ImplementsQueue
