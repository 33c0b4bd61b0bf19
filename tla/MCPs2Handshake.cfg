SPECIFICATION FairSpec
CONSTANTS
  Attempts = 3
  FlushLimit = 3
  OutCapacity = 3
  Configs <- MCConfigs
  Scancodes <- MCScancodes
  Motions <- MCMotions
  MaxKeys = 2
  MaxMoves = 1
INVARIANTS
  NoMouseNoEnable
  SilentMouseIsFound
  ConfigurationWritten
  PacketsStartAligned
PROPERTY HandshakeReturns
CHECK_DEADLOCK FALSE
