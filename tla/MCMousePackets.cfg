SPECIFICATION FairSpec
CONSTANTS
  ScreenWidth = 90
  ScreenHeight = 60
  CursorWidth = 16
  CursorHeight = 24
  Packets <- MCPackets
  Scancodes <- MCScancodes
  ReadLimit = 4
  PacketLimit = 2
  OutCapacity = 4
  MaxPackets = 3
  MaxKeys = 1
  MaxLosses = 1
INVARIANTS
  CursorOnScreen
  PacketsIntact
  ResyncWithinFour
PROPERTIES
  MovesWithMouse
  PacketsArrive
