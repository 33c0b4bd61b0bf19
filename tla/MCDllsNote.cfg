SPECIFICATION Spec
CONSTANTS
  Fold <- MCFold
  RootName = "Dragon OS"
  AllFiles <- MCNoteFiles
  MaxEdits = 0
  MaxBuilds = 1
INVARIANT
  NoteOnDllsHolds
CHECK_DEADLOCK FALSE
