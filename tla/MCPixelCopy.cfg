SPECIFICATION Spec
CONSTANTS
  BulkPairs = 8
  Words <- MCWords
  Contents <- MCContents
  Calls <- MCCalls
INVARIANTS
  CopyIsExact
CHECK_DEADLOCK FALSE
