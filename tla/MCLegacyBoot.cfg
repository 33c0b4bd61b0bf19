SPECIFICATION Spec
CONSTANTS
  SectorSize = 16
  SectorsPerTrack = 4
  HeadsPerCylinder = 2
  FloppySectors = 16
  MaxCylinder = 2
  MaxStage2Sectors = 3
  OffsetRange = 256
  CodeSizes <- MCCodeSizes
  ChannelBits <- MCChannelBits
  Sources <- MCSources
  Targets <- MCTargets
INVARIANTS
  PictureIsImage
  ErrorMeansFault
CHECK_DEADLOCK FALSE
