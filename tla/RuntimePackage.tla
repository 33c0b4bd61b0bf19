--------------------------- MODULE RuntimePackage ---------------------------
(***************************************************************************)
(* DragonRuntimeBuilder of Program.cs: which files of the project go into  *)
(* the runtime image, and under which virtual path.                        *)
(*                                                                         *)
(* A file is [dir, stem, ext]; a stem is a sequence, to which the builder  *)
(* may append a number.  A virtual path is [kind, folder, stem, ext].      *)
(* Names are compared without regard to case, as the registry of paths and *)
(* the file system do.                                                     *)
(***************************************************************************)
EXTENDS Integers, Sequences, FiniteSets

CONSTANTS
  Fold(_),             \* a name in lower case
  RootName             \* the name of the project's own directory

SupportedExtensions == {"dll", "png", "mp4"}

SourceDirectories ==
  <<[kind |-> "dll", dir |-> "root"], [kind |-> "dll", dir |-> "modules"],
    [kind |-> "dll", dir |-> "plugins"], [kind |-> "dll", dir |-> "dlls"],
    [kind |-> "png", dir |-> "assets"], [kind |-> "mp4", dir |-> "assets"]>>

PayloadDirectory == [kind |-> "FILES", dir |-> "dragon_files"]

FolderName(dir) == IF dir = "root" THEN RootName ELSE dir

FoldedStem(stem) == <<Fold(Head(stem))>> \o Tail(stem)

Path(kind, folder, stem, ext) ==
  [kind |-> kind, folder |-> folder, stem |-> stem, ext |-> ext]

\* What the registry compares of a path.
Key(path) == Path(path.kind, path.folder, FoldedStem(path.stem), Fold(path.ext))

\* What BuildRuntimeVirtualPath tries in turn: the plain path, the path with the
\* folder's name, then the path with the number 2, 3, ...
Candidate(from, file, k) ==
  CASE k = 0 -> Path(from.kind, "", file.stem, file.ext)
    [] k = 1 -> Path(from.kind, FolderName(file.dir), file.stem, file.ext)
    [] OTHER -> Path(from.kind, "", Append(file.stem, k), file.ext)

\* Whether a candidate is the first whose name the registry does not have.
FirstFree(from, file, registry, k) ==
  /\ Key(Candidate(from, file, k)) \notin registry
  /\ \A j \in 0 .. k - 1 : Key(Candidate(from, file, j)) \in registry

\* The search has no bound of its own; it cannot go further than this one.
BuildRuntimeVirtualPath(from, file, registry) ==
  Candidate(from, file,
            CHOOSE k \in 0 .. Cardinality(registry) + 2 : FirstFree(from, file, registry, k))

\* The directories Build goes through, dragon_files last.
Directories == Append(SourceDirectories, PayloadDirectory)

\* Whether the loop over a directory takes a file: all of dragon_files, and of the
\* others what has the extension they are searched for.
Selected(from, file) ==
  /\ file.dir = from.dir
  /\ from # PayloadDirectory =>
       Fold(file.ext) \in SupportedExtensions /\ Fold(file.ext) = from.kind

\* A file below dragon_files keeps its own path.
VirtualPath(from, file, registry) ==
  IF from = PayloadDirectory THEN Path(from.kind, "", file.stem, file.ext)
  ELSE BuildRuntimeVirtualPath(from, file, registry)

\* virtualPathRegistry: the names of the packaged files.
Registry(files) == {Key(files[i].path) : i \in DOMAIN files}

\* packageFiles after one more file.
Packaged(files, from, file, content) ==
  Append(files, [path |-> VirtualPath(from, file, Registry(files)),
                 from |-> file, content |-> content])

\* The manifest's lines: virtual path and content of every packaged file.
ManifestLines(files) == {[path |-> files[i].path, content |-> files[i].content] : i \in DOMAIN files}

\* BuildRuntimeRegistryText: kind and name of every packaged file.
RegistryLines(lines) ==
  {[kind |-> l.path.kind, stem |-> l.path.stem, ext |-> l.path.ext] : l \in lines}

ManifestPath == Path("", "", <<"manifest">>, "txt")
=============================================================================
