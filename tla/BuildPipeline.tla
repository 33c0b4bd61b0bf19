---------------------------- MODULE BuildPipeline ----------------------------
(***************************************************************************)
(* Main of Program.cs with NativeUefiCompiler.Build and                    *)
(* ImapiIsoBuilder.Build: what a build leaves in build/, step by step.     *)
(*                                                                         *)
(* Every step may throw; Main then returns 1 and build/ stays as it is.    *)
(* The user edits sources and builds again at any time.  A file's content  *)
(* is the number of the edit it comes from; an artefact is a record of     *)
(* what it was made from, so that two artefacts can be compared.           *)
(* A write that throws leaves the old file or a part of the new one.       *)
(***************************************************************************)
EXTENDS RuntimePackage

CONSTANTS
  AllFiles,            \* the runtime files the project may have
  MaxEdits, MaxBuilds  \* bounds on the user

\* Stems are not empty, and dragon_files has no two files whose names differ in
\* case only: Windows' file systems do not tell them apart.
ASSUME FileNamesAssumption ==
  /\ MaxEdits \in Nat /\ MaxBuilds \in Nat
  /\ \A f \in AllFiles : /\ Len(f.stem) \in Nat \ {0}
                          /\ f.stem = [i \in 1 .. Len(f.stem) |-> f.stem[i]]
  /\ \A f, g \in AllFiles :
       f.dir = "dragon_files" /\ g.dir = "dragon_files"
       /\ FoldedStem(f.stem) = FoldedStem(g.stem) /\ Fold(f.ext) = Fold(g.ext) => f = g

VARIABLES
  contents,   \* the runtime files there are -> content
  code, art,  \* the contents of BootApp.c and of the images
  edits, builds,
  pc,         \* the next step of Main
  local,      \* Main's variables: splash, todo, files, bootx64, esp, iso
  dir,        \* build/: name -> artefact
  staged,     \* build/iso-root: path -> content
  at,         \* how many directories are listed, files staged or outputs written
  exit        \* Main's return value (0 is ok), once it has returned

user == <<contents, code, art, edits, builds>>
vars == <<user, pc, local, dir, staged, at, exit>>

Absent == [is |-> "absent"]
Broken == [is |-> "broken"]   \* a part of a file

Names == {"DRAGON_MANIFEST.TXT", "generated_bitmap.h", "BootApp.obj", "BOOTX64.EFI",
          "efiboot.img", "stages", "os.img", "os-uefi.iso", "os.iso"}

LoaderPath == Path("EFI", "BOOT", <<"bootx64">>, "efi")

NoLocals ==
  [splash |-> 0, todo |-> {}, files |-> <<>>, bootx64 |-> Absent, esp |-> Absent, iso |-> Absent]

Init ==
  /\ contents \in UNION {[fs -> {[is |-> "source", edit |-> 0]}] : fs \in SUBSET AllFiles}
  /\ code = 0 /\ art = 0 /\ edits = 0 /\ builds = 0
  /\ pc = "idle" /\ exit = "none" /\ at = 0
  /\ local = NoLocals
  /\ dir = [n \in Names |-> Absent]
  /\ staged = <<>>

-----------------------------------------------------------------------------
\* The user.

Edit ==
  /\ edits < MaxEdits
  /\ edits' = edits + 1
  /\ \/ code' = edits' /\ UNCHANGED <<art, contents>>
     \/ art' = edits' /\ UNCHANGED <<code, contents>>
     \/ /\ \E f \in AllFiles :
             \/ contents' = [g \in DOMAIN contents \cup {f} |->
                               IF g = f THEN [is |-> "source", edit |-> edits']
                               ELSE contents[g]]
             \/ f \in DOMAIN contents /\ contents' = [g \in DOMAIN contents \ {f} |-> contents[g]]
        /\ UNCHANGED <<code, art>>
  /\ UNCHANGED <<builds, pc, local, dir, staged, at, exit>>

StartBuild ==
  /\ pc = "idle" /\ builds < MaxBuilds
  /\ builds' = builds + 1
  /\ pc' = "load" /\ exit' = "none" /\ local' = NoLocals /\ at' = 0
  /\ UNCHANGED <<contents, code, art, edits, dir, staged>>

-----------------------------------------------------------------------------
\* Steps of Main.

Goto(next) == pc' = next /\ UNCHANGED exit

\* A step that throws: Main's catch returns 1.
Fail == pc' = "idle" /\ exit' = "failed"

\* File.WriteAllBytes to build/, then on to next; or it throws.
Write(name, value, next) ==
  \/ dir' = [dir EXCEPT ![name] = value] /\ Goto(next)
  \/ dir' \in {dir, [dir EXCEPT ![name] = Broken]} /\ Fail

LoadImages ==
  /\ pc = "load"
  /\ \/ local' = [local EXCEPT !.splash = art] /\ Goto("package")
     \/ UNCHANGED local /\ Fail
  /\ UNCHANGED <<user, dir, staged, at>>

Manifest(files) == [is |-> "manifest", lines |-> ManifestLines(files)]

\* DragonRuntimeBuilder.Build: the next directory is listed, with what it has now.
OpenDirectory ==
  /\ pc = "package" /\ local.todo = {} /\ at < Len(Directories)
  /\ \/ /\ local' = [local EXCEPT !.todo = {f \in DOMAIN contents :
                                              Selected(Directories[at + 1], f)}]
        /\ at' = at + 1 /\ Goto("package")
     \/ UNCHANGED <<local, at>> /\ Fail
  /\ UNCHANGED <<user, dir, staged>>

\* A listed file is read and packaged, in whatever order the listing has; one that
\* has gone since cannot be read.
PackageFile ==
  /\ pc = "package"
  /\ \E f \in local.todo :
       \/ /\ f \in DOMAIN contents
          /\ local' = [local EXCEPT
                         !.todo = @ \ {f},
                         !.files = Packaged(@, Directories[at], f, contents[f])]
          /\ Goto("package")
       \/ UNCHANGED local /\ Fail
  /\ UNCHANGED <<user, dir, staged, at>>

\* The manifest, which becomes the last of runtimeFiles.
WriteManifest ==
  /\ pc = "package" /\ local.todo = {} /\ at = Len(Directories)
  /\ Write("DRAGON_MANIFEST.TXT", Manifest(local.files), "floppy")
  /\ UNCHANGED <<user, local, staged, at>>

\* The floppy image is made in memory; it may be too large.
Floppy ==
  /\ pc = "floppy"
  /\ Goto("header") \/ Fail
  /\ UNCHANGED <<user, local, dir, staged, at>>

\* WriteGeneratedHeader: images and the list of packaged files.
WriteHeader ==
  /\ pc = "header"
  /\ Write("generated_bitmap.h",
           [is |-> "header", art |-> local.splash,
            lines |-> RegistryLines(ManifestLines(local.files))],
           "compile")
  /\ UNCHANGED <<user, local, staged, at>>

\* RunProcess: a tool that fails leaves the old file or none.
RunProcess(out, value, next) ==
  \/ dir' = [dir EXCEPT ![out] = value] /\ Goto(next)
  \/ dir' \in {dir, [dir EXCEPT ![out] = Absent]} /\ Fail

Compile ==
  /\ pc = "compile"
  /\ RunProcess("BootApp.obj",
                [is |-> "object", code |-> code, header |-> dir["generated_bitmap.h"]], "link")
  /\ UNCHANGED <<user, local, staged, at>>

LinkLoader ==
  /\ pc = "link"
  /\ RunProcess("BOOTX64.EFI", [is |-> "loader", object |-> dir["BootApp.obj"]], "read")
  /\ UNCHANGED <<user, local, staged, at>>

ReadLoader ==
  /\ pc = "read"
  /\ \/ local' = [local EXCEPT !.bootx64 = dir["BOOTX64.EFI"]] /\ Goto("esp")
     \/ UNCHANGED local /\ Fail
  /\ UNCHANGED <<user, dir, staged, at>>

\* BuildEfiSystemPartition: the loader and what is marked for the partition, which
\* is the manifest alone.
BuildEsp ==
  /\ pc = "esp"
  /\ \/ /\ local' = [local EXCEPT !.esp = [is |-> "esp", bootx64 |-> local.bootx64,
                                           manifest |-> Manifest(local.files)]]
        /\ Goto("clear")
     \/ UNCHANGED local /\ Fail
  /\ UNCHANGED <<user, dir, staged, at>>

-----------------------------------------------------------------------------
\* ImapiIsoBuilder.Build.

\* Mutant: the staging directory of the last build is used again.
ClearStagingKept ==
  /\ pc = "clear"
  /\ Goto("bootimage")
  /\ UNCHANGED <<user, local, dir, staged, at>>

\* The deletion may stop halfway, with any of the files gone.
ClearStaging ==
  /\ pc = "clear"
  /\ \/ staged' = <<>> /\ Goto("bootimage")
     \/ /\ \E left \in SUBSET DOMAIN staged : staged' = [k \in left |-> staged[k]]
        /\ Fail
  /\ UNCHANGED <<user, local, dir, at>>

WriteBootImage ==
  /\ pc = "bootimage"
  /\ Write("efiboot.img", local.esp, "stage")
  /\ at' = 0
  /\ UNCHANGED <<user, local, staged>>

\* What ImapiIsoBuilder stages: the loader, the runtime files, the manifest.
ToStage ==
  <<[path |-> LoaderPath, content |-> local.bootx64]>>
  \o [i \in DOMAIN local.files |->
        [path |-> local.files[i].path, content |-> local.files[i].content]]
  \o <<[path |-> ManifestPath, content |-> Manifest(local.files)]>>

\* A file of the same name, in whatever case, is overwritten.
StageFile ==
  /\ pc = "stage" /\ at < Len(ToStage)
  /\ LET file == ToStage[at + 1]
         with(value) == [k \in DOMAIN staged \cup {Key(file.path)} |->
                           IF k = Key(file.path) THEN value ELSE staged[k]]
     IN  \/ staged' = with(file.content) /\ Goto("stage")
         \/ staged' \in {staged, with(Broken)} /\ Fail
  /\ at' = at + 1
  /\ UNCHANGED <<user, local, dir>>

\* An ISO as far as its stream was read: all of it or a first part.
IsoKinds == {"iso", "cut iso"}
IsoAs(kind) == [is |-> kind, tree |-> staged, boot |-> dir["efiboot.img"]]

\* AddTree and AssignBootImage read the staged tree and the boot image back.
\* ReadAllBytes takes a read of no bytes for the end of the stream: what it has by
\* then, shortened to its length, is the ISO.
CreateIso ==
  /\ pc = "stage" /\ at = Len(ToStage)
  /\ \/ /\ \E kind \in IsoKinds : local' = [local EXCEPT !.iso = IsoAs(kind)]
        /\ Goto("write")
     \/ UNCHANGED local /\ Fail
  /\ at' = 0
  /\ UNCHANGED <<user, dir, staged>>

-----------------------------------------------------------------------------
FloppyOf(splash) == [is |-> "floppy", art |-> splash]

\* The writes at the end of Main; stage1.bin, stage2.bin and image.bin are one.
Outputs ==
  <<[name |-> "stages", value |-> FloppyOf(local.splash)],
    [name |-> "BOOTX64.EFI", value |-> local.bootx64],
    [name |-> "efiboot.img", value |-> local.esp],
    [name |-> "os.img", value |-> FloppyOf(local.splash)],
    [name |-> "os-uefi.iso", value |-> local.iso]>>

\* Mutant: an exception of a write is caught, as for the alias.
WriteOutputTolerant ==
  /\ pc = "write" /\ at < Len(Outputs)
  /\ dir' \in {dir, [dir EXCEPT ![Outputs[at + 1].name] = Outputs[at + 1].value]}
  /\ Goto("write")
  /\ at' = at + 1
  /\ UNCHANGED <<user, local, staged>>

WriteOutput ==
  /\ pc = "write" /\ at < Len(Outputs)
  /\ Write(Outputs[at + 1].name, Outputs[at + 1].value, "write")
  /\ at' = at + 1
  /\ UNCHANGED <<user, local, staged>>

\* TryWriteAliasIso catches an IOException of its write; any other one, of a file
\* that may not be written, reaches Main.
WriteAlias ==
  /\ pc = "write" /\ at = Len(Outputs)
  /\ \/ /\ dir' \in {dir, [dir EXCEPT !["os.iso"] = local.iso],
                      [dir EXCEPT !["os.iso"] = Broken]}
        /\ pc' = "idle" /\ exit' = "ok"
     \/ UNCHANGED dir /\ Fail
  /\ UNCHANGED <<user, local, staged, at>>

Main ==
  LoadImages \/ OpenDirectory \/ PackageFile \/ WriteManifest \/ Floppy \/ WriteHeader
  \/ Compile \/ LinkLoader \/ ReadLoader \/ BuildEsp \/ ClearStaging \/ WriteBootImage \/ StageFile \/ CreateIso \/ WriteOutput
  \/ WriteAlias

Next == Edit \/ StartBuild \/ Main

Spec == Init /\ [][Next]_vars

-----------------------------------------------------------------------------
\* The files in the tree of an ISO other than the loader and the manifest.
RuntimeFilesOf(tree) ==
  {[key |-> k, content |-> tree[k]] : k \in DOMAIN tree \ {Key(LoaderPath), Key(ManifestPath)}}

Listed(lines) == {[key |-> Key(l.path), content |-> l.content] : l \in lines}

\* An ISO is in itself from one build: it boots the loader its tree has, the
\* manifest lists exactly the runtime files in its tree, none lost to a file of
\* the same name and none left over from an earlier build, and the list that was
\* compiled into the loader has the same names.
Whole(iso) ==
  LET loader == iso.tree[Key(LoaderPath)]
      manifest == iso.tree[Key(ManifestPath)]
  IN  /\ iso.boot = [is |-> "esp", bootx64 |-> loader, manifest |-> manifest]
      /\ RuntimeFilesOf(iso.tree) = Listed(manifest.lines)
      /\ Cardinality(Listed(manifest.lines)) = Cardinality(manifest.lines)
      /\ loader.object.header.lines = RegistryLines(manifest.lines)

\* Whatever failed in whichever build and whenever the user edited, an ISO that was
\* written to build/ was made of the files of one build, one that ReadAllBytes cut
\* short too; anything else there is a part of a file that a write left.
IsoIsWhole ==
  \A n \in {"os-uefi.iso", "os.iso"} : dir[n].is \in IsoKinds => Whole(dir[n])

\* When Main returns 0, the other files in build/ are of the same build as the ISO.
\* That the ISO is all of it is not claimed, for it need not be: ReadAllBytes may have
\* read a first part only, and Main returns 0 all the same.
SuccessIsOneBuild ==
  exit = "ok" =>
    LET iso == dir["os-uefi.iso"]
        loader == dir["BOOTX64.EFI"]
    IN  /\ iso.is \in IsoKinds /\ iso.tree[Key(LoaderPath)] = loader
        /\ iso.boot = dir["efiboot.img"]
        /\ iso.tree[Key(ManifestPath)] = dir["DRAGON_MANIFEST.TXT"]
        /\ dir["os.img"] = FloppyOf(loader.object.header.art) /\ dir["stages"] = dir["os.img"]

LoadableTypes == {"dll", "mp4", "mp3", "png"}

\* The note in disabled_dlls sends files of these types to dlls to be loaded: such
\* a file is in the package DragonRuntimeBuilder makes.
NoteOnDllsHolds ==
  pc = "floppy" /\ edits = 0 =>
    \A f \in DOMAIN contents :
      f.dir = "dlls" /\ Fold(f.ext) \in LoadableTypes =>
        \E i \in DOMAIN local.files : local.files[i].from = f
=============================================================================
