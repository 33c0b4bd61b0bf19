--------------------------- MODULE MCBuildPipeline ---------------------------
(***************************************************************************)
(* Files for TLC: two that differ in case only, in directories that are    *)
(* packaged into one, an image in the wrong directory, and a payload.      *)
(***************************************************************************)
EXTENDS BuildPipeline

MCFold(name) ==
  CASE name = "A" -> "a" [] name = "DLL" -> "dll" [] OTHER -> name

File(where, stem, ext) == [dir |-> where, stem |-> <<stem>>, ext |-> ext]

\* Files that may all be packaged.
MCAllFiles ==
  {File("root", "a", "dll"), File("dlls", "A", "DLL"), File("dragon_files", "x", "txt")}

\* With the image, which no directory's extensions select.
MCNoteFiles == MCAllFiles \cup {File("dlls", "p", "png")}
=============================================================================
