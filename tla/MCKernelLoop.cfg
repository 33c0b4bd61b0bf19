SPECIFICATION KernelSpec
CONSTANTS
  ScreenWidth = 5
  ScreenHeight = 4
  CursorWidth = 2
  CursorHeight = 3
  Packets <- MCPackets
  Scancodes <- MCScancodes
  ReadLimit = 4
  PacketLimit = 2
  OutCapacity = 4
  MaxPackets = 4
  MaxKeys = 0
  MaxLosses = 0
  PixelsPerScanLine = 6
  OpaqueMask <- MCOpaqueMask
  Panel <- MCPanel
  InstallButton <- MCInstallButton
  TryButton <- MCTryButton
  ShadowChoices = {TRUE, FALSE}
  ComposeChoices = {TRUE, FALSE}
INVARIANTS
  ShadowIsScene
PROPERTIES
  ScreenFollowsMouse
