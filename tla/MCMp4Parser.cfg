SPECIFICATION ParserSpec
CONSTANTS
  Lengths <- MCLengths
  Sizes <- MCSizes
  LargeSizes <- MCLargeSizes
  MaxLong = 1000
INVARIANTS
  SizeOfVideoTrack
PROPERTIES
  ParserEnds
CHECK_DEADLOCK FALSE
