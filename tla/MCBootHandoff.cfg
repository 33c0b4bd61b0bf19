SPECIFICATION FairSpec
CONSTANTS
  GopModes <- MCGopModes
  HandleLists <- MCHandleLists
  PciTableSize = 2
  SlackDescriptors = 1
  DescriptorSize = 3
  InitialMapLens = {1, 2}
  MaxMapLen = 4
  MaxGrowth = 2
  MaxEvents = 3
INVARIANTS
  TypeOK
  KernelOwnsItsPools
  HandedMapIsCurrent
  MapFitsItsBuffer
  TooSmallOnlyPastSlack
  OnlyMapServicesAfterFailedExit
  PciTableIsPrefix
PROPERTY HandoffDecided
CHECK_DEADLOCK FALSE
