SPECIFICATION FairBootSpec
CONSTANTS
  WordRange = 1048576
  Widths <- MCWidths
  Heights <- MCHeights
  NewLine = NewLine
  Displays <- MCDisplays
  SPLASH_WIDTH = 600
  SPLASH_HEIGHT = 253
  SETUP_ICON_WIDTH = 1151
  SETUP_ICON_HEIGHT = 1500
  TitleText <- MCTitleText
  PromptText <- MCPromptText
  InstallText <- MCInstallText
  TryText <- MCTryText
  NoteText <- MCNoteText
  TitleFont <- MCTitleFont
  NoteFont <- MCNoteFont
  OutlinePasses = 2
INVARIANTS
  ButtonsOnPanel
  SplashFramesNested
  SamplesSpanImage
  SceneUncluttered
PROPERTIES
  BlendBetween
  OnlyEmptyMaskStops
CHECK_DEADLOCK FALSE
