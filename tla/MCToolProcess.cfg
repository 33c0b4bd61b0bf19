SPECIFICATION ToolSpec
CONSTANTS
  Capacity = 2
  Programs <- MCPrograms
INVARIANTS
  OutputsComplete
PROPERTY
  RunEnds
CHECK_DEADLOCK FALSE
