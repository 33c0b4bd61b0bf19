SPECIFICATION Spec
CONSTANTS
  Fold <- MCFold
  RootName = "Dragon OS"
  AllFiles <- MCAllFiles
  MaxEdits = 2
  MaxBuilds = 2
INVARIANTS
  IsoIsWhole
  SuccessIsOneBuild
CHECK_DEADLOCK FALSE
