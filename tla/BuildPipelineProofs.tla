------------------------ MODULE BuildPipelineProofs ------------------------
(***************************************************************************)
(* Proofs about the build tool.                                            *)
(*                                                                         *)
(* BuildPipeline, for any files, any number of edits and builds, and       *)
(* failures of any steps: whatever a build leaves behind, an ISO in build/ *)
(* comes from one build, and a build that succeeds leaves nothing else.    *)
(* ToolProcess, for pipes of any capacity: the outputs of a tool are read  *)
(* completely.  Mp4Parser, for any file: the size reported is a video's.   *)
(* The three specifications share no variable.                             *)
(***************************************************************************)
EXTENDS BuildPipeline, ToolProcess, Mp4Parser, FiniteSetTheorems, SequenceTheorems, TLAPS

-----------------------------------------------------------------------------
(* Names.                                                                  *)

\* A set of numbers that is not empty has a smallest one.
LEMMA Smallest ==
  ASSUME NEW T, T \subseteq Nat, T # {}
  PROVE  \E x \in T : \A y \in T : x <= y
<1>1. PICK x \in T : \A y \in T : ~(<<y, x>> \in OpToRel(<, Nat))
  BY WFMin, NatLessThanWellFounded
<1>2. \A y \in T : <<y, x>> \in OpToRel(<, Nat) <=> y < x
  BY DEF OpToRel
<1>3. x \in Nat
  BY <1>1
<1>4. \A y \in T : ~(y < x)
  BY <1>1, <1>2
<1> QED
  BY <1>3, <1>4

\* The stem of a file is a sequence.
LEMMA StemIsSeq ==
  ASSUME NEW f \in AllFiles
  PROVE  \E S : f.stem \in Seq(S) /\ f.stem # <<>>
<1> DEFINE S == {f.stem[i] : i \in 1 .. Len(f.stem)}
<1>1. /\ Len(f.stem) \in Nat \ {0}
      /\ f.stem = [i \in 1 .. Len(f.stem) |-> f.stem[i]]
  BY FileNamesAssumption
<1>2. [i \in 1 .. Len(f.stem) |-> f.stem[i]] \in [1 .. Len(f.stem) -> S]
  OBVIOUS
<1>3. f.stem \in [1 .. Len(f.stem) -> S]
  BY <1>1, <1>2
<1>4. f.stem \in Seq(S)
  BY <1>1, <1>3
<1> QED
  BY <1>1, <1>4

\* What follows a single element.
LEMMA BehindOne ==
  ASSUME NEW W, NEW h \in Seq(W), NEW u \in Seq(W), Len(h) = 1, Len(u) \in Nat \ {0}
  PROVE  (h \o u)[Len(u) + 1] = u[Len(u)]
<1> PICK n : n = Len(u)
  OBVIOUS
<1>1. \A i \in 1 .. Len(h) + Len(u) :
        (h \o u)[i] = IF i <= Len(h) THEN h[i] ELSE u[i - Len(h)]
  BY ConcatProperties, ZenonT(30)
<1>2. n + 1 \in 1 .. Len(h) + Len(u) /\ ~(n + 1 <= Len(h)) /\ n + 1 - Len(h) = n
  OBVIOUS
<1> PICK i : i = n + 1
  OBVIOUS
<1>3. i \in 1 .. Len(h) + Len(u) /\ ~(i <= Len(h)) /\ i - Len(h) = n
  BY <1>2
<1>4. (h \o u)[i] = u[i - Len(h)]
  BY <1>1, <1>3, ZenonT(30)
<1> QED
  BY <1>3, <1>4, ZenonT(30)

\* The number at the end of a stem survives the folding of its case.
LEMMA NumberKept ==
  ASSUME NEW S, NEW stem \in Seq(S), stem # <<>>, NEW k
  PROVE  FoldedStem(Append(stem, k))[Len(stem) + 1] = k
<1> DEFINE t == Append(stem, k)
<1>1. /\ t \in Seq(S \cup {k}) /\ Len(t) = Len(stem) + 1 /\ t[Len(stem) + 1] = k
      /\ Len(stem) \in Nat \ {0}
  OBVIOUS
<1> HIDE DEF t
<1>2. /\ Tail(t) \in Seq(S \cup {k}) /\ Len(Tail(t)) = Len(stem)
      /\ Tail(t)[Len(stem)] = t[Len(stem) + 1]
  BY <1>1
<1>3. <<Fold(Head(t))>> \in Seq({Fold(Head(t))}) /\ Len(<<Fold(Head(t))>>) = 1
  OBVIOUS
<1> DEFINE u == Tail(t)
           h == <<Fold(Head(t))>>
           W == (S \cup {k}) \cup {Fold(Head(t))}
<1>4. u \in Seq(W) /\ h \in Seq(W) /\ Len(u) = Len(stem) /\ Len(h) = 1
      /\ u[Len(stem)] = k
  BY <1>1, <1>2, <1>3
<1> HIDE DEF u, h, W
<1>5. (h \o u)[Len(stem) + 1] = u[Len(stem)]
  <2>1. u \in Seq(W) /\ h \in Seq(W) /\ Len(h) = 1 /\ Len(u) \in Nat \ {0}
    BY <1>1, <1>4
  <2>2. (h \o u)[Len(u) + 1] = u[Len(u)]
    BY <2>1, BehindOne, ZenonT(30)
  <2> QED
    BY <2>2, <1>4, ZenonT(30)
<1> QED
  BY <1>4, <1>5 DEF FoldedStem, u, h, t

\* Two candidates with different numbers have different names.
LEMMA NumberedDiffer ==
  ASSUME NEW from, NEW f \in AllFiles, NEW j \in Nat \ {0, 1}, NEW k \in Nat \ {0, 1},
         Key(Candidate(from, f, j)) = Key(Candidate(from, f, k))
  PROVE  j = k
<1>1. /\ Candidate(from, f, j) = Path(from.kind, "", Append(f.stem, j), f.ext)
      /\ Candidate(from, f, k) = Path(from.kind, "", Append(f.stem, k), f.ext)
  BY DEF Candidate
<1>2. /\ Key(Path(from.kind, "", Append(f.stem, j), f.ext))
           = Path(from.kind, "", FoldedStem(Append(f.stem, j)), Fold(f.ext))
      /\ Key(Path(from.kind, "", Append(f.stem, k), f.ext))
           = Path(from.kind, "", FoldedStem(Append(f.stem, k)), Fold(f.ext))
  BY DEF Key, Path
<1>3. Path(from.kind, "", FoldedStem(Append(f.stem, j)), Fold(f.ext))
        = Path(from.kind, "", FoldedStem(Append(f.stem, k)), Fold(f.ext))
  BY <1>1, <1>2
<1>4. FoldedStem(Append(f.stem, j)) = FoldedStem(Append(f.stem, k))
  BY <1>3 DEF Path
<1> QED
  BY <1>4, StemIsSeq, NumberKept

\* BuildRuntimeVirtualPath's loop, which has no bound, ends: one of the first
\* candidates is free, whatever the registry has.
LEMMA FreeNameFound ==
  ASSUME NEW from, NEW f \in AllFiles, NEW registry, IsFiniteSet(registry)
  PROVE  \E k \in 0 .. Cardinality(registry) + 2 : FirstFree(from, f, registry, k)
<1> DEFINE n == Cardinality(registry)
           name(k) == Key(Candidate(from, f, k))
           Free == {k \in 0 .. n + 2 : name(k) \notin registry}
<1>1. n \in Nat
  BY FS_CardinalityType
<1>2. Free # {}
  <2> SUFFICES ASSUME \A k \in 0 .. n + 2 : name(k) \in registry
               PROVE  FALSE
    OBVIOUS
  <2> DEFINE g == [k \in 2 .. n + 2 |-> name(k)]
  <2> HIDE DEF n, name
  <2>1. g \in [2 .. n + 2 -> registry]
    BY <1>1
  <2>2. IsFiniteSet(2 .. n + 2) /\ Cardinality(2 .. n + 2) = n + 1
    BY <1>1, FS_Interval
  <2>3. \E x, y \in 2 .. n + 2 : x # y /\ g[x] = g[y]
    <3>1. n < Cardinality(2 .. n + 2)
      BY <1>1, <2>2
    <3>2. IsFiniteSet(registry) /\ Cardinality(registry) < Cardinality(2 .. n + 2)
      BY <3>1 DEF n
    <3> HIDE DEF g
    <3> QED
      BY <2>1, <2>2, <3>2, FS_PigeonHole
  <2>4. PICK x \in 2 .. n + 2, y \in 2 .. n + 2 : x # y /\ name(x) = name(y)
    BY <2>3
  <2> QED
    BY <1>1, <2>4, NumberedDiffer DEF name
<1>3. PICK k \in Free : \A j \in Free : k <= j
  <2>1. Free \subseteq Nat
    BY <1>1
  <2> QED
    BY <1>2, <2>1, Smallest
<1>4. \A j \in 0 .. k - 1 : name(j) \in registry
  <2> HIDE DEF n, name
  <2> QED
    BY <1>1, <1>3
<1> QED
  BY <1>3, <1>4 DEF FirstFree

\* The path a file gets is of its directory's kind and not in the registry.
LEMMA NewName ==
  ASSUME NEW from, NEW f \in AllFiles, NEW registry, IsFiniteSet(registry)
  PROVE  LET path == BuildRuntimeVirtualPath(from, f, registry)
         IN  Key(path) \notin registry /\ Key(path).kind = from.kind
<1> DEFINE k == CHOOSE k \in 0 .. Cardinality(registry) + 2 : FirstFree(from, f, registry, k)
<1>1. FirstFree(from, f, registry, k)
  BY FreeNameFound
<1>2. BuildRuntimeVirtualPath(from, f, registry) = Candidate(from, f, k)
  BY DEF BuildRuntimeVirtualPath
<1> HIDE DEF k
<1>3. Key(Candidate(from, f, k)).kind = from.kind
  BY DEF Candidate, Key, Path
<1> QED
  BY <1>1, <1>2, <1>3 DEF FirstFree

-----------------------------------------------------------------------------
(* The inductive invariant.                                                *)

IsSequence(s) == \E S : s \in Seq(S)

FileKinds == {"dll", "png", "mp4", "FILES"}

NameOf(i) == Key(local.files[i].path)

\* What packaging keeps: no two packaged files have one name.  A payload, whose
\* path is not looked up in the registry, is told from the others by its kind and
\* from other payloads by its own name.
NamesInv ==
  /\ DOMAIN contents \subseteq AllFiles
  /\ IsSequence(local.files)
  /\ \A i \in DOMAIN local.files : NameOf(i).kind \in FileKinds
  /\ \A i, j \in DOMAIN local.files : NameOf(i) = NameOf(j) => i = j

\* A payload that has been packaged.
IsPayload(i) ==
  LET f == local.files[i].from
  IN  /\ at = Len(Directories) /\ f \in AllFiles /\ f.dir = "dragon_files"
      /\ f \notin local.todo
      /\ NameOf(i) = Key(Path("FILES", "", f.stem, f.ext))

PackagingInv ==
  /\ pc = "load" => at = 0 /\ local.todo = {} /\ local.files = <<>>
  /\ pc = "package" =>
       /\ at \in 0 .. Len(Directories) /\ local.todo \subseteq AllFiles
       /\ \A f \in local.todo : at > 0 /\ f.dir = Directories[at].dir
       /\ \A i \in DOMAIN local.files : NameOf(i).kind = "FILES" => IsPayload(i)

\* The steps of Main, each set without the first step of the one before.
AfterFiles == {"floppy", "header"}
AfterEsp == {"clear", "bootimage", "stage", "write"}
AfterLoader == {"esp"} \cup AfterEsp
AfterLink == {"read"} \cup AfterLoader
AfterCompile == {"link"} \cup AfterLink
AfterHeader == {"compile"} \cup AfterCompile
AfterManifest == AfterFiles \cup AfterHeader
Steps == {"idle", "load", "package"} \cup AfterManifest

Header ==
  [is |-> "header", art |-> local.splash, lines |-> RegistryLines(ManifestLines(local.files))]

\* What the steps so far have made, from what this build packaged.
MadeInv ==
  /\ pc \in AfterManifest => dir["DRAGON_MANIFEST.TXT"] = Manifest(local.files)
  /\ pc \in AfterHeader => dir["generated_bitmap.h"] = Header
  /\ pc \in AfterCompile => dir["BootApp.obj"].header = Header
  /\ pc \in AfterLink => dir["BOOTX64.EFI"].object.header = Header
  /\ pc \in AfterLoader => local.bootx64.object.header = Header
  /\ pc \in AfterEsp => local.esp = [is |-> "esp", bootx64 |-> local.bootx64,
                                     manifest |-> Manifest(local.files)]

\* The staging directory has exactly the first files of ToStage.
StagedInv ==
  /\ pc = "bootimage" => staged = <<>>
  /\ pc = "stage" =>
       /\ dir["efiboot.img"] = local.esp
       /\ at \in 0 .. Len(ToStage)
       /\ DOMAIN staged = {Key(ToStage[i].path) : i \in 1 .. at}
       /\ \A i \in 1 .. at : staged[Key(ToStage[i].path)] = ToStage[i].content

\* The ISO in memory, and the outputs that are written.
OutputInv ==
  pc = "write" =>
    /\ local.iso.is \in IsoKinds /\ Whole(local.iso)
    /\ local.iso.tree[Key(LoaderPath)] = local.bootx64
    /\ local.iso.tree[Key(ManifestPath)] = Manifest(local.files)
    /\ local.iso.boot = local.esp
    /\ at \in 0 .. Len(Outputs)
    /\ \A k \in 1 .. at : dir[Outputs[k].name] = Outputs[k].value

IsLocals(l) ==
  l = [splash |-> l.splash, todo |-> l.todo, files |-> l.files, bootx64 |-> l.bootx64,
       esp |-> l.esp, iso |-> l.iso]

ShapeInv ==
  /\ pc \in Steps /\ IsLocals(local)
  /\ dir = [n \in Names |-> dir[n]]
  /\ exit = "ok" => pc = "idle"

BuildInv ==
  /\ ShapeInv /\ NamesInv /\ PackagingInv /\ MadeInv /\ StagedInv /\ OutputInv
  /\ IsoIsWhole /\ SuccessIsOneBuild

-----------------------------------------------------------------------------
(* Lemmas on the operators.                                                *)

LEMMA SequenceDomain ==
  ASSUME NEW s, IsSequence(s)
  PROVE  Len(s) \in Nat /\ DOMAIN s = 1 .. Len(s)
  BY DEF IsSequence

LEMMA AppendFacts ==
  ASSUME NEW s, IsSequence(s), NEW e
  PROVE  /\ IsSequence(Append(s, e)) /\ DOMAIN Append(s, e) = 1 .. Len(s) + 1
         /\ Len(s) \in Nat /\ Len(Append(s, e)) = Len(s) + 1
         /\ Append(s, e)[Len(s) + 1] = e
         /\ \A i \in 1 .. Len(s) : Append(s, e)[i] = s[i]
<1>1. PICK S : s \in Seq(S)
  BY DEF IsSequence
<1>2. /\ Append(s, e) \in Seq(S \cup {e}) /\ Len(Append(s, e)) = Len(s) + 1
      /\ Append(s, e)[Len(s) + 1] = e
      /\ \A i \in 1 .. Len(s) : Append(s, e)[i] = s[i]
  BY <1>1
<1> QED
  BY <1>2 DEF IsSequence

LEMMA RegistryFinite ==
  ASSUME NEW files, IsSequence(files)
  PROVE  IsFiniteSet(Registry(files))
<1> DEFINE f == [i \in 1 .. Len(files) |-> Key(files[i].path)]
<1>1. Len(files) \in Nat /\ DOMAIN files = 1 .. Len(files)
  BY SequenceDomain
<1>2. IsFiniteSet(1 .. Len(files))
  BY <1>1, FS_Interval
<1>3. f \in Surjection(1 .. Len(files), Registry(files))
  BY <1>1 DEF Surjection, Registry
<1> HIDE DEF f
<1> QED
  BY <1>2, <1>3, FS_Surjection

LEMMA SixElements ==
  ASSUME NEW a, NEW b, NEW c, NEW d, NEW e, NEW f
  PROVE  <<a, b, c, d, e, f>> \in Seq({a, b, c, d, e, f}) /\ Len(<<a, b, c, d, e, f>>) = 6
  OBVIOUS

LEMMA DirectoryFacts ==
  /\ Len(Directories) = 7 /\ Directories[7] = PayloadDirectory
  /\ \A i \in 1 .. 6 : /\ Directories[i].kind \in {"dll", "png", "mp4"}
                        /\ Directories[i] # PayloadDirectory
<1>1. IsSequence(SourceDirectories) /\ Len(SourceDirectories) = 6
  BY SixElements DEF SourceDirectories, IsSequence
<1>2. /\ Len(Directories) = 7 /\ Directories[7] = PayloadDirectory
      /\ \A i \in 1 .. 6 : Directories[i] = SourceDirectories[i]
  <2> DEFINE s == SourceDirectories
  <2> HIDE DEF s
  <2>1. IsSequence(s) /\ Len(s) = 6
    BY <1>1 DEF s
  <2>2. /\ Len(Append(s, PayloadDirectory)) = Len(s) + 1
        /\ Append(s, PayloadDirectory)[Len(s) + 1] = PayloadDirectory
        /\ \A i \in 1 .. Len(s) : Append(s, PayloadDirectory)[i] = s[i]
    <3>1. PICK S : s \in Seq(S)
      BY <2>1 DEF IsSequence
    <3> QED
      BY <3>1
  <2>3. Directories = Append(s, PayloadDirectory)
    BY DEF Directories, s
  <2>4. Len(s) + 1 = 7
    BY <2>1
  <2> QED
    BY <2>1, <2>2, <2>3, <2>4 DEF s
<1>3. \A i \in 1 .. 6 : SourceDirectories[i].kind \in {"dll", "png", "mp4"}
  BY DEF SourceDirectories
<1>4. PayloadDirectory.kind = "FILES"
  BY DEF PayloadDirectory
<1> QED
  BY <1>2, <1>3, <1>4

LEMMA FixedNames ==
  /\ Key(LoaderPath).kind = "EFI" /\ Key(ManifestPath).kind = ""
  BY DEF LoaderPath, ManifestPath, Key, Path

\* What is staged at which place.
LEMMA StageItems ==
  ASSUME IsSequence(local.files)
  PROVE  /\ Len(local.files) \in Nat /\ DOMAIN local.files = 1 .. Len(local.files)
         /\ Len(ToStage) = Len(local.files) + 2
         /\ ToStage[1].path = LoaderPath /\ ToStage[1].content = local.bootx64
         /\ \A i \in 2 .. Len(local.files) + 1 :
              /\ i - 1 \in 1 .. Len(local.files)
              /\ ToStage[i].path = local.files[i - 1].path
              /\ ToStage[i].content = local.files[i - 1].content
         /\ ToStage[Len(local.files) + 2].path = ManifestPath
         /\ ToStage[Len(local.files) + 2].content = Manifest(local.files)
<1> DEFINE n == Len(local.files)
           first == [path |-> LoaderPath, content |-> local.bootx64]
           item(i) == [path |-> local.files[i].path, content |-> local.files[i].content]
           middle == [i \in DOMAIN local.files |-> item(i)]
           last == [path |-> ManifestPath, content |-> Manifest(local.files)]
           S == {first, last} \cup {item(i) : i \in 1 .. n}
<1>1. n \in Nat /\ DOMAIN local.files = 1 .. n
  BY SequenceDomain
<1>2. ToStage = (<<first>> \o middle) \o <<last>>
  BY DEF ToStage
<1>3. middle = [i \in 1 .. n |-> item(i)]
  BY <1>1
<1> HIDE DEF first, last, item, n
<1>4. middle \in Seq(S) /\ Len(middle) = n /\ \A i \in 1 .. n : middle[i] = item(i)
  BY <1>1, <1>3
<1> HIDE DEF middle
<1>5. <<first>> \in Seq(S) /\ <<last>> \in Seq(S)
  OBVIOUS
<1> HIDE DEF S
<1> DEFINE left == <<first>> \o middle
<1>6. /\ left \in Seq(S) /\ Len(left) = n + 1 /\ left[1] = first
      /\ \A i \in 1 .. n : left[i + 1] = middle[i]
  BY <1>1, <1>4, <1>5
<1> HIDE DEF left
<1>7. /\ Len(left \o <<last>>) = n + 2 /\ (left \o <<last>>)[n + 2] = last
      /\ \A i \in 1 .. n + 1 : (left \o <<last>>)[i] = left[i]
  BY <1>1, <1>5, <1>6
<1>8. ToStage = left \o <<last>>
  BY <1>2 DEF left
<1>9. ToStage[1] = first /\ ToStage[n + 2] = last /\ Len(ToStage) = n + 2
  BY <1>1, <1>6, <1>7, <1>8
<1>10. ASSUME NEW i \in 2 .. n + 1
       PROVE  i - 1 \in 1 .. n /\ ToStage[i] = item(i - 1)
  <2>1. i - 1 \in 1 .. n /\ i \in 1 .. n + 1 /\ (i - 1) + 1 = i
    BY <1>1
  <2>2. ToStage[i] = left[i] /\ left[i] = middle[i - 1] /\ middle[i - 1] = item(i - 1)
    BY <1>4, <1>6, <1>7, <1>8, <2>1
  <2> QED
    BY <2>1, <2>2
<1>11. \A i \in 2 .. n + 1 :
         /\ i - 1 \in 1 .. n
         /\ ToStage[i].path = local.files[i - 1].path
         /\ ToStage[i].content = local.files[i - 1].content
  <2> TAKE i \in 2 .. n + 1
  <2>1. i - 1 \in 1 .. n /\ ToStage[i] = item(i - 1)
    BY <1>10
  <2> QED
    BY <2>1 DEF item
<1>12. /\ ToStage[1].path = LoaderPath /\ ToStage[1].content = local.bootx64
       /\ ToStage[n + 2].path = ManifestPath /\ ToStage[n + 2].content = Manifest(local.files)
  BY <1>9 DEF first, last
<1> QED
  BY <1>1, <1>9, <1>11, <1>12 DEF n

\* No staged file overwrites another.
LEMMA StageNames ==
  ASSUME NamesInv, NEW i \in 1 .. Len(ToStage), NEW j \in 1 .. Len(ToStage),
         Key(ToStage[i].path) = Key(ToStage[j].path)
  PROVE  i = j
<1> DEFINE n == Len(local.files)
           name(k) == Key(ToStage[k].path)
<1> HIDE DEF n
<1>1. /\ n \in Nat /\ DOMAIN local.files = 1 .. n /\ Len(ToStage) = n + 2
      /\ name(1) = Key(LoaderPath) /\ name(n + 2) = Key(ManifestPath)
  BY StageItems DEF NamesInv, n
<1>2. \A k \in 2 .. n + 1 : k - 1 \in 1 .. n /\ name(k) = NameOf(k - 1)
  BY StageItems DEF NamesInv, NameOf, n
<1>3. \A k \in 2 .. n + 1 : name(k).kind \in FileKinds
  BY <1>1, <1>2 DEF NamesInv
<1>4. name(1).kind = "EFI" /\ name(n + 2).kind = ""
  BY <1>1, FixedNames
<1>5. ASSUME NEW k \in 2 .. n + 1, NEW m \in 2 .. n + 1, name(k) = name(m)
      PROVE  k = m
  <2>1. k - 1 \in DOMAIN local.files /\ m - 1 \in DOMAIN local.files
        /\ NameOf(k - 1) = NameOf(m - 1)
    BY <1>1, <1>2, <1>5
  <2>2. k - 1 = m - 1
    BY <2>1 DEF NamesInv
  <2> QED
    BY <1>1, <2>2
<1> HIDE DEF name
<1>6. name(i) = name(j) /\ i \in 1 .. n + 2 /\ j \in 1 .. n + 2
  BY <1>1 DEF name
<1>7. CASE i \in 2 .. n + 1 /\ j \in 2 .. n + 1
  BY <1>5, <1>6, <1>7
<1>8. CASE ~(i \in 2 .. n + 1 /\ j \in 2 .. n + 1)
  <2>1. \A k \in 1 .. n + 2 :
          \/ k = 1 /\ name(k).kind = "EFI"
          \/ k = n + 2 /\ name(k).kind = ""
          \/ k \in 2 .. n + 1 /\ name(k).kind \in FileKinds
    <3> SUFFICES ASSUME NEW k \in 1 .. n + 2, k # 1, k # n + 2
                 PROVE  k \in 2 .. n + 1
      BY <1>3, <1>4
    <3> QED
      BY <1>1
  <2>2. "EFI" \notin FileKinds /\ "" \notin FileKinds
    BY DEF FileKinds
  <2> QED
    BY <1>6, <1>8, <2>1, <2>2
<1> QED
  BY <1>7, <1>8

-----------------------------------------------------------------------------
(* The ISO that is made of a complete staging directory is whole.          *)

\* The lines of the manifest and the names in it are equally many.
LEMMA LinesCounted ==
  ASSUME NamesInv
  PROVE  Cardinality(Listed(ManifestLines(local.files)))
           = Cardinality(ManifestLines(local.files))
<1> DEFINE n == Len(local.files)
           line(i) == [path |-> local.files[i].path, content |-> local.files[i].content]
           lines == ManifestLines(local.files)
           f == [i \in 1 .. n |-> line(i)]
           g == [l \in lines |-> [key |-> Key(l.path), content |-> l.content]]
<1>1. n \in Nat /\ DOMAIN local.files = 1 .. n
  BY SequenceDomain DEF NamesInv
<1>2. lines = {line(i) : i \in 1 .. n}
  BY <1>1 DEF ManifestLines
<1>3. IsFiniteSet(lines)
  <2>1. f \in Surjection(1 .. n, lines)
    <3> HIDE DEF line, lines
    <3> QED
      BY <1>2 DEF Surjection
  <2>2. IsFiniteSet(1 .. n)
    BY <1>1, FS_Interval
  <2> HIDE DEF f, lines
  <2> QED
    BY <2>1, <2>2, FS_Surjection
<1>4. ASSUME NEW l \in lines, NEW m \in lines, g[l] = g[m]
      PROVE  l = m
  <2>1. PICK i \in 1 .. n : l = line(i)
    BY <1>2
  <2>2. PICK j \in 1 .. n : m = line(j)
    BY <1>2
  <2>3. Key(l.path) = Key(m.path)
    <3>1. g[l] = [key |-> Key(l.path), content |-> l.content]
          /\ g[m] = [key |-> Key(m.path), content |-> m.content]
      OBVIOUS
    <3> QED
      BY <1>4, <3>1
  <2>4. NameOf(i) = NameOf(j)
    BY <2>1, <2>2, <2>3 DEF NameOf
  <2>5. i = j
    BY <1>1, <2>4 DEF NamesInv
  <2> QED
    BY <2>1, <2>2, <2>5
<1>5. Listed(lines) = {g[l] : l \in lines}
  BY DEF Listed
<1> HIDE DEF g, lines, n
<1>6. g \in [lines -> Listed(lines)]
  BY <1>5 DEF g, Listed
<1>7. g \in Bijection(lines, Listed(lines))
  <2>1. g \in Surjection(lines, Listed(lines))
    BY <1>5, <1>6 DEF Surjection
  <2>2. g \in Injection(lines, Listed(lines))
    BY <1>4, <1>6 DEF Injection, IsInjective
  <2> QED
    BY <2>1, <2>2 DEF Bijection
<1>8. ExistsBijection(lines, Listed(lines))
  BY <1>7 DEF ExistsBijection
<1> QED
  BY <1>3, <1>8, FS_Bijection DEF lines

\* What the complete staging directory has under which name.
LEMMA StagedTree ==
  ASSUME NamesInv, StagedInv, pc = "stage", at = Len(ToStage)
  PROVE  /\ staged[Key(LoaderPath)] = local.bootx64
         /\ staged[Key(ManifestPath)] = Manifest(local.files)
         /\ RuntimeFilesOf(staged) = Listed(ManifestLines(local.files))
<1> DEFINE n == Len(local.files)
           name(i) == Key(ToStage[i].path)
           pair(i) == [key |-> NameOf(i), content |-> local.files[i].content]
<1> HIDE DEF n
<1>1. /\ n \in Nat /\ DOMAIN local.files = 1 .. n /\ Len(ToStage) = n + 2
      /\ name(1) = Key(LoaderPath) /\ name(n + 2) = Key(ManifestPath)
      /\ ToStage[1].content = local.bootx64 /\ ToStage[n + 2].content = Manifest(local.files)
  BY StageItems DEF NamesInv, n
<1>2. \A k \in 2 .. n + 1 :
        /\ k - 1 \in 1 .. n /\ name(k) = NameOf(k - 1)
        /\ ToStage[k].content = local.files[k - 1].content
  BY StageItems DEF NamesInv, NameOf, n
<1>3. /\ DOMAIN staged = {name(i) : i \in 1 .. n + 2}
      /\ \A i \in 1 .. n + 2 : staged[name(i)] = ToStage[i].content
  BY <1>1 DEF StagedInv
<1>4. 1 \in 1 .. n + 2 /\ n + 2 \in 1 .. n + 2
  BY <1>1
<1>5. staged[Key(LoaderPath)] = local.bootx64 /\ staged[Key(ManifestPath)] = Manifest(local.files)
  BY <1>1, <1>3, <1>4
<1>6. \A i \in 1 .. n :
        /\ NameOf(i) \in DOMAIN staged
        /\ NameOf(i) \notin {Key(LoaderPath), Key(ManifestPath)}
        /\ staged[NameOf(i)] = local.files[i].content
  <2> TAKE i \in 1 .. n
  <2>1. i + 1 \in 2 .. n + 1 /\ i + 1 \in 1 .. n + 2 /\ (i + 1) - 1 = i
    BY <1>1
  <2>2. name(i + 1) = NameOf(i) /\ ToStage[i + 1].content = local.files[i].content
    BY <1>2, <2>1
  <2>3. NameOf(i) \in DOMAIN staged /\ staged[NameOf(i)] = local.files[i].content
    BY <1>3, <2>1, <2>2
  <2>4. NameOf(i).kind \in FileKinds
    BY <1>1 DEF NamesInv
  <2> QED
    BY <2>3, <2>4, FixedNames DEF FileKinds
<1>7. ASSUME NEW k \in DOMAIN staged, k \notin {Key(LoaderPath), Key(ManifestPath)}
      PROVE  \E i \in 1 .. n : k = NameOf(i)
  <2>1. PICK i \in 1 .. n + 2 : k = name(i)
    BY <1>3
  <2>2. i # 1 /\ i # n + 2
    BY <1>1, <1>7, <2>1
  <2>3. i \in 2 .. n + 1
    BY <1>1, <2>2
  <2> QED
    BY <1>2, <2>1, <2>3
<1>8. RuntimeFilesOf(staged) = {pair(i) : i \in 1 .. n}
  BY <1>6, <1>7 DEF RuntimeFilesOf
<1>9. Listed(ManifestLines(local.files)) = {pair(i) : i \in 1 .. n}
  <2> DEFINE line(i) == [path |-> local.files[i].path, content |-> local.files[i].content]
             listed(l) == [key |-> Key(l.path), content |-> l.content]
  <2>1. ManifestLines(local.files) = {line(i) : i \in 1 .. n}
    BY <1>1 DEF ManifestLines
  <2>2. Listed(ManifestLines(local.files)) = {listed(l) : l \in ManifestLines(local.files)}
    BY DEF Listed
  <2>3. \A i \in 1 .. n : listed(line(i)) = pair(i)
    BY DEF NameOf
  <2> HIDE DEF line, listed, pair
  <2> QED
    BY <2>1, <2>2, <2>3
<1> QED
  BY <1>5, <1>8, <1>9

LEMMA StagedIsoIsWhole ==
  ASSUME NamesInv, MadeInv, StagedInv, pc = "stage", at = Len(ToStage), NEW kind
  PROVE  Whole(IsoAs(kind))
<1>1. /\ staged[Key(LoaderPath)] = local.bootx64
      /\ staged[Key(ManifestPath)] = Manifest(local.files)
      /\ RuntimeFilesOf(staged) = Listed(ManifestLines(local.files))
  BY StagedTree
<1>2. /\ dir["efiboot.img"] = [is |-> "esp", bootx64 |-> local.bootx64,
                               manifest |-> Manifest(local.files)]
      /\ local.bootx64.object.header = Header
  BY DEF MadeInv, StagedInv, AfterEsp, AfterLoader
<1>3. Manifest(local.files).lines = ManifestLines(local.files)
  BY DEF Manifest
<1>4. Header.lines = RegistryLines(ManifestLines(local.files))
  BY DEF Header
<1> QED
  BY <1>1, <1>2, <1>3, <1>4, LinesCounted DEF Whole, IsoAs

-----------------------------------------------------------------------------
(* Each step keeps the invariant.                                          *)

\* A build that goes on has not returned.
LEMMA NotReturned ==
  ASSUME ShapeInv, pc # "idle"
  PROVE  exit # "ok"
  BY DEF ShapeInv

\* Writing a file other than a faulty ISO keeps the ISOs whole.
LEMMA WriteKeepsIsos ==
  ASSUME ShapeInv, IsoIsWhole, NEW n \in Names, NEW v,
         n \in {"os-uefi.iso", "os.iso"} /\ v.is \in IsoKinds => Whole(v),
         dir' = [dir EXCEPT ![n] = v]
  PROVE  IsoIsWhole' /\ (dir = [m \in Names |-> dir[m]])'
<1>1. dir = [m \in Names |-> dir[m]]
  BY DEF ShapeInv
<1>2. \A m \in Names : dir'[m] = IF m = n THEN v ELSE dir[m]
  BY <1>1
<1>3. "os-uefi.iso" \in Names /\ "os.iso" \in Names
  BY DEF Names
<1>4. IsoIsWhole'
  BY <1>2, <1>3 DEF IsoIsWhole
<1>5. dir' = [m \in Names |-> dir'[m]]
  BY <1>1
<1> QED
  BY <1>4, <1>5

\* What no step but packaging touches.
LEMMA NamesKept ==
  ASSUME NamesInv, local'.files = local.files, contents' = contents
  PROVE  NamesInv'
  BY DEF NamesInv, NameOf

\* A step that throws leaves nothing but an old, a partial or a missing file.
LEMMA FailKeeps ==
  ASSUME BuildInv, Fail, UNCHANGED <<user, local>>, NEW n \in Names,
         dir' \in {dir, [dir EXCEPT ![n] = Broken], [dir EXCEPT ![n] = Absent]}
  PROVE  BuildInv'
<1>1. NamesInv'
  BY NamesKept DEF BuildInv, user
<1>2. pc' = "idle" /\ exit' = "failed"
  BY DEF Fail
<1>3. IsoIsWhole' /\ (dir = [m \in Names |-> dir[m]])'
  <2>1. CASE dir' = dir
    BY <2>1 DEF BuildInv, ShapeInv, IsoIsWhole
  <2>2. CASE dir' = [dir EXCEPT ![n] = Broken]
    BY <2>2, WriteKeepsIsos DEF BuildInv, Broken, IsoKinds
  <2>3. CASE dir' = [dir EXCEPT ![n] = Absent]
    BY <2>3, WriteKeepsIsos DEF BuildInv, Absent, IsoKinds
  <2> QED
    BY <2>1, <2>2, <2>3
<1>4. ShapeInv'
  BY <1>2, <1>3 DEF BuildInv, ShapeInv, Steps
<1>5. PackagingInv' /\ StagedInv' /\ OutputInv' /\ SuccessIsOneBuild'
  BY <1>2 DEF PackagingInv, StagedInv, OutputInv, SuccessIsOneBuild
<1>6. MadeInv'
  BY <1>2 DEF MadeInv, AfterFiles, AfterEsp, AfterLoader, AfterLink, AfterCompile, AfterHeader,
              AfterManifest
<1> QED
  BY <1>1, <1>3, <1>4, <1>5, <1>6 DEF BuildInv

\* The user's edits touch nothing a build has read.
LEMMA EditKeeps ==
  ASSUME BuildInv, Edit
  PROVE  BuildInv'
<1>1. UNCHANGED <<pc, local, dir, staged, at, exit>>
  BY DEF Edit
<1>2. DOMAIN contents' \subseteq AllFiles
  BY DEF BuildInv, NamesInv, Edit
<1>3. NamesInv'
  BY <1>1, <1>2 DEF BuildInv, NamesInv, NameOf
<1>4. PackagingInv' /\ ShapeInv'
  BY <1>1 DEF BuildInv, PackagingInv, ShapeInv, IsPayload, NameOf
<1>5. MadeInv' /\ StagedInv' /\ OutputInv'
  <2>1. ToStage' = ToStage /\ Outputs' = Outputs /\ Header' = Header
    BY <1>1 DEF ToStage, Outputs, Header
  <2>2. MadeInv'
    BY <1>1, <2>1 DEF BuildInv, MadeInv
  <2>3. StagedInv'
    BY <1>1, <2>1 DEF BuildInv, StagedInv
  <2>4. OutputInv'
    BY <1>1, <2>1 DEF BuildInv, OutputInv
  <2> QED
    BY <2>2, <2>3, <2>4
<1>6. IsoIsWhole' /\ SuccessIsOneBuild'
  BY <1>1 DEF BuildInv, IsoIsWhole, SuccessIsOneBuild
<1> QED
  BY <1>3, <1>4, <1>5, <1>6 DEF BuildInv

LEMMA StartKeeps ==
  ASSUME BuildInv, StartBuild
  PROVE  BuildInv'
<1>1. /\ pc' = "load" /\ exit' = "none" /\ local' = NoLocals /\ at' = 0
      /\ UNCHANGED <<contents, dir, staged>>
  BY DEF StartBuild
<1>2. local'.files = <<>> /\ local'.todo = {}
  BY <1>1 DEF NoLocals
<1>3. IsSequence(local'.files) /\ DOMAIN local'.files = {}
  <2>1. <<>> \in Seq({}) /\ DOMAIN <<>> = {}
    OBVIOUS
  <2> QED
    BY <1>2, <2>1 DEF IsSequence
<1>4. NamesInv'
  BY <1>1, <1>3 DEF BuildInv, NamesInv
<1>5. ShapeInv'
  BY <1>1 DEF BuildInv, ShapeInv, Steps, IsLocals, NoLocals
<1>6. PackagingInv' /\ StagedInv' /\ OutputInv' /\ SuccessIsOneBuild' /\ IsoIsWhole'
  BY <1>1, <1>2 DEF BuildInv, PackagingInv, StagedInv, OutputInv, SuccessIsOneBuild, IsoIsWhole
<1>7. MadeInv'
  BY <1>1 DEF MadeInv, AfterFiles, AfterEsp, AfterLoader, AfterLink, AfterCompile, AfterHeader,
              AfterManifest
<1> QED
  BY <1>4, <1>5, <1>6, <1>7 DEF BuildInv

LEMMA LoadKeeps ==
  ASSUME BuildInv, LoadImages
  PROVE  BuildInv'
<1>1. pc = "load" /\ UNCHANGED <<user, dir, staged, at>>
  BY DEF LoadImages
<1>2. CASE UNCHANGED local /\ Fail
  BY <1>1, <1>2, FailKeeps DEF Names
<1>3. CASE local' = [local EXCEPT !.splash = art] /\ Goto("package")
  <2>1. /\ pc' = "package" /\ exit' = exit /\ exit # "ok"
        /\ local'.files = local.files /\ local'.todo = local.todo /\ IsLocals(local')
    BY <1>1, <1>3, NotReturned DEF BuildInv, ShapeInv, IsLocals, Goto
  <2>2. NamesInv'
    BY <1>1, <2>1, NamesKept DEF BuildInv, user
  <2>3. PackagingInv'
    BY <1>1, <2>1, DirectoryFacts DEF BuildInv, PackagingInv
  <2>4. ShapeInv' /\ IsoIsWhole' /\ SuccessIsOneBuild'
    BY <1>1, <2>1 DEF BuildInv, ShapeInv, Steps, IsoIsWhole, SuccessIsOneBuild
  <2>5. MadeInv' /\ StagedInv' /\ OutputInv'
    BY <2>1 DEF MadeInv, StagedInv, OutputInv, AfterFiles, AfterEsp, AfterLoader, AfterLink,
                AfterCompile, AfterHeader, AfterManifest
  <2> QED
    BY <2>2, <2>3, <2>4, <2>5 DEF BuildInv
<1> QED
  BY <1>2, <1>3 DEF LoadImages

LEMMA OpenKeeps ==
  ASSUME BuildInv, OpenDirectory
  PROVE  BuildInv'
<1>1. pc = "package" /\ local.todo = {} /\ at < Len(Directories) /\ UNCHANGED <<user, dir, staged>>
  BY DEF OpenDirectory
<1>2. CASE UNCHANGED <<local, at>> /\ Fail
  BY <1>1, <1>2, FailKeeps DEF Names
<1>3. CASE /\ local' = [local EXCEPT !.todo = {f \in DOMAIN contents :
                                                Selected(Directories[at + 1], f)}]
           /\ at' = at + 1 /\ Goto("package")
  <2> DEFINE listed == {f \in DOMAIN contents : Selected(Directories[at + 1], f)}
  <2>1. /\ pc' = "package" /\ exit' = exit /\ exit # "ok" /\ at' = at + 1
        /\ local'.files = local.files /\ local'.todo = listed /\ IsLocals(local')
    BY <1>1, <1>3, NotReturned DEF BuildInv, ShapeInv, IsLocals, Goto
  <2>2. NamesInv'
    BY <1>1, <2>1, NamesKept DEF BuildInv, user
  <2>3. at \in 0 .. 6 /\ at' \in 1 .. 7
    BY <1>1, <2>1, DirectoryFacts DEF BuildInv, PackagingInv
  <2>4. \A f \in listed : f \in AllFiles /\ f.dir = Directories[at'].dir
    BY <2>1 DEF BuildInv, NamesInv, Selected
  <2>5. \A i \in DOMAIN local.files : NameOf(i).kind # "FILES"
    <3> SUFFICES ASSUME NEW i \in DOMAIN local.files, NameOf(i).kind = "FILES"
                 PROVE  FALSE
      OBVIOUS
    <3>1. IsPayload(i)
      BY <1>1 DEF BuildInv, PackagingInv
    <3>2. at = Len(Directories)
      BY <3>1 DEF IsPayload
    <3> QED
      BY <1>1, <2>3, <3>2
  <2>6. PackagingInv'
    BY <2>1, <2>3, <2>4, <2>5, DirectoryFacts DEF PackagingInv, NameOf
  <2>7. ShapeInv' /\ IsoIsWhole' /\ SuccessIsOneBuild'
    BY <1>1, <2>1 DEF BuildInv, ShapeInv, Steps, IsoIsWhole, SuccessIsOneBuild
  <2>8. MadeInv' /\ StagedInv' /\ OutputInv'
    BY <2>1 DEF MadeInv, StagedInv, OutputInv, AfterFiles, AfterEsp, AfterLoader, AfterLink,
                AfterCompile, AfterHeader, AfterManifest
  <2> QED
    BY <2>2, <2>6, <2>7, <2>8 DEF BuildInv
<1> QED
  BY <1>2, <1>3 DEF OpenDirectory

\* The name of the next file is none of those that are packaged.
LEMMA NextName ==
  ASSUME BuildInv, pc = "package", NEW f \in local.todo
  PROVE  LET path == VirtualPath(Directories[at], f, Registry(local.files))
         IN  /\ Key(path).kind \in FileKinds
             /\ \A i \in DOMAIN local.files : NameOf(i) # Key(path)
             /\ Key(path).kind = "FILES" =>
                  /\ at = Len(Directories) /\ f.dir = "dragon_files"
                  /\ path = Path("FILES", "", f.stem, f.ext)
<1> DEFINE from == Directories[at]
           path == VirtualPath(from, f, Registry(local.files))
<1>1. at \in 1 .. 7 /\ f \in AllFiles /\ f.dir = from.dir
  BY DirectoryFacts DEF BuildInv, PackagingInv
<1>2. CASE at = 7
  <2>1. from = PayloadDirectory /\ path = Path("FILES", "", f.stem, f.ext)
        /\ f.dir = "dragon_files"
    BY <1>1, <1>2, DirectoryFacts DEF VirtualPath, PayloadDirectory
  <2>2. Key(path) = Path("FILES", "", FoldedStem(f.stem), Fold(f.ext)) /\ Key(path).kind = "FILES"
    <3>1. Key(Path("FILES", "", f.stem, f.ext))
            = Path("FILES", "", FoldedStem(f.stem), Fold(f.ext))
      BY DEF Key, Path
    <3>2. Path("FILES", "", FoldedStem(f.stem), Fold(f.ext)).kind = "FILES"
      BY DEF Path
    <3> HIDE DEF path
    <3> QED
      BY <2>1, <3>1, <3>2
  <2>3. ASSUME NEW i \in DOMAIN local.files, NameOf(i) = Key(path)
        PROVE  FALSE
    <3> DEFINE g == local.files[i].from
    <3>1. /\ g \in AllFiles /\ g.dir = "dragon_files" /\ g \notin local.todo
          /\ NameOf(i) = Key(Path("FILES", "", g.stem, g.ext))
      BY <2>2, <2>3 DEF BuildInv, PackagingInv, IsPayload
    <3> HIDE DEF g
    <3>2. NameOf(i) = Path("FILES", "", FoldedStem(g.stem), Fold(g.ext))
      BY <3>1 DEF Key, Path
    <3>3. Path("FILES", "", FoldedStem(g.stem), Fold(g.ext))
            = Path("FILES", "", FoldedStem(f.stem), Fold(f.ext))
      BY <2>2, <2>3, <3>2
    <3>4. FoldedStem(g.stem) = FoldedStem(f.stem) /\ Fold(g.ext) = Fold(f.ext)
      BY <3>3 DEF Path
    <3>5. g = f
      BY <1>1, <2>1, <3>1, <3>4, FileNamesAssumption
    <3> QED
      BY <3>1, <3>5
  <2> QED
    BY <1>2, <2>1, <2>2, <2>3, DirectoryFacts DEF FileKinds
<1>3. CASE at # 7
  <2>1. at \in 1 .. 6
    BY <1>1, <1>3
  <2>2. from # PayloadDirectory /\ from.kind \in {"dll", "png", "mp4"}
    BY <2>1, DirectoryFacts
  <2>3. path = BuildRuntimeVirtualPath(from, f, Registry(local.files))
    BY <2>2 DEF VirtualPath
  <2>4. IsFiniteSet(Registry(local.files))
    BY RegistryFinite DEF BuildInv, NamesInv
  <2> HIDE DEF path, from
  <2>5. Key(path) \notin Registry(local.files) /\ Key(path).kind = from.kind
    BY <1>1, <2>3, <2>4, NewName
  <2>6. \A i \in DOMAIN local.files : NameOf(i) \in Registry(local.files)
    BY DEF Registry, NameOf
  <2> QED
    BY <2>2, <2>5, <2>6 DEF FileKinds, path, from
<1> QED
  BY <1>2, <1>3

LEMMA PackageFileKeeps ==
  ASSUME BuildInv, PackageFile
  PROVE  BuildInv'
<1>1. pc = "package" /\ UNCHANGED <<user, dir, staged, at>>
  BY DEF PackageFile
<1>2. PICK f \in local.todo :
        \/ /\ f \in DOMAIN contents
           /\ local' = [local EXCEPT
                          !.todo = @ \ {f},
                          !.files = Packaged(@, Directories[at], f, contents[f])]
           /\ Goto("package")
        \/ UNCHANGED local /\ Fail
  BY DEF PackageFile
<1>3. CASE UNCHANGED local /\ Fail
  BY <1>1, <1>3, FailKeeps DEF Names
<1>4. CASE /\ local' = [local EXCEPT
                          !.todo = @ \ {f},
                          !.files = Packaged(@, Directories[at], f, contents[f])]
           /\ Goto("package")
  <2> DEFINE path == VirtualPath(Directories[at], f, Registry(local.files))
             e == [path |-> path, from |-> f, content |-> contents[f]]
  <2>1. /\ pc' = "package" /\ exit' = exit /\ exit # "ok" /\ IsLocals(local')
        /\ local'.todo = local.todo \ {f} /\ local'.files = Append(local.files, e)
    BY <1>1, <1>4, NotReturned DEF BuildInv, ShapeInv, IsLocals, Goto, Packaged
  <2>2. /\ Key(path).kind \in FileKinds
        /\ \A i \in DOMAIN local.files : NameOf(i) # Key(path)
        /\ Key(path).kind = "FILES" =>
             /\ at = Len(Directories) /\ f.dir = "dragon_files"
             /\ path = Path("FILES", "", f.stem, f.ext)
    BY <1>1, NextName
  <2>3. e.path = path /\ e.from = f
    OBVIOUS
  <2> HIDE DEF path, e
  <2>4. PICK n \in Nat : n = Len(local.files) /\ DOMAIN local.files = 1 .. n
                        /\ IsSequence(local.files)
    BY SequenceDomain DEF BuildInv, NamesInv
  <2>5. /\ IsSequence(local'.files) /\ DOMAIN local'.files = 1 .. n + 1
        /\ local'.files[n + 1] = e /\ \A i \in 1 .. n : local'.files[i] = local.files[i]
    BY <2>1, <2>4, AppendFacts
  <2>6. /\ NameOf(n + 1)' = Key(path) /\ n + 1 \notin 1 .. n
        /\ \A i \in 1 .. n : NameOf(i)' = NameOf(i)
        /\ \A i \in 1 .. n + 1 : i = n + 1 \/ i \in 1 .. n
    BY <2>3, <2>4, <2>5 DEF NameOf
  <2>7. NamesInv'
    <3>1. \A i \in 1 .. n + 1 : NameOf(i)'.kind \in FileKinds
      BY <2>2, <2>4, <2>6 DEF BuildInv, NamesInv
    <3>2. \A i, j \in 1 .. n + 1 : NameOf(i)' = NameOf(j)' => i = j
      <4>1. \A i, j \in 1 .. n : NameOf(i) = NameOf(j) => i = j
        BY <2>4 DEF BuildInv, NamesInv
      <4>2. \A i \in 1 .. n : NameOf(i) # Key(path)
        BY <2>2, <2>4
      <4> TAKE i \in 1 .. n + 1, j \in 1 .. n + 1
      <4> HAVE NameOf(i)' = NameOf(j)'
      <4>3. CASE i \in 1 .. n /\ j \in 1 .. n
        BY <2>6, <4>1, <4>3
      <4>4. CASE i = n + 1 /\ j \in 1 .. n
        BY <2>6, <4>2, <4>4
      <4>5. CASE i \in 1 .. n /\ j = n + 1
        BY <2>6, <4>2, <4>5
      <4> QED
        BY <2>6, <4>3, <4>4, <4>5
    <3> QED
      BY <1>1, <2>5, <3>1, <3>2 DEF BuildInv, NamesInv, user
  <2>8. PackagingInv'
    <3>1. /\ at \in 0 .. Len(Directories) /\ local.todo \subseteq AllFiles
          /\ \A g \in local.todo : at > 0 /\ g.dir = Directories[at].dir
          /\ \A i \in DOMAIN local.files : NameOf(i).kind = "FILES" => IsPayload(i)
      BY <1>1 DEF BuildInv, PackagingInv
    <3>2. ASSUME NEW i \in 1 .. n, NameOf(i).kind = "FILES"
          PROVE  IsPayload(i)'
      <4>1. IsPayload(i)
        BY <2>4, <3>1, <3>2
      <4> QED
        BY <1>1, <2>1, <2>5, <2>6, <4>1 DEF IsPayload
    <3>3. ASSUME Key(path).kind = "FILES"
          PROVE  IsPayload(n + 1)'
      <4>1. at = Len(Directories) /\ f.dir = "dragon_files" /\ f \in AllFiles
            /\ Key(path) = Key(Path("FILES", "", f.stem, f.ext))
        BY <2>2, <3>1, <3>3
      <4>2. local'.files[n + 1].from = f /\ f \notin local'.todo
        BY <2>1, <2>3, <2>5
      <4> QED
        BY <1>1, <2>6, <4>1, <4>2 DEF IsPayload
    <3>4. \A i \in DOMAIN local'.files : NameOf(i)'.kind = "FILES" => IsPayload(i)'
      BY <2>5, <2>6, <3>2, <3>3
    <3> QED
      BY <1>1, <2>1, <3>1, <3>4 DEF PackagingInv
  <2>9. ShapeInv' /\ IsoIsWhole' /\ SuccessIsOneBuild'
    BY <1>1, <2>1 DEF BuildInv, ShapeInv, Steps, IsoIsWhole, SuccessIsOneBuild
  <2>10. MadeInv' /\ StagedInv' /\ OutputInv'
    BY <2>1 DEF MadeInv, StagedInv, OutputInv, AfterFiles, AfterEsp, AfterLoader, AfterLink,
                AfterCompile, AfterHeader, AfterManifest
  <2> QED
    BY <2>7, <2>8, <2>9, <2>10 DEF BuildInv
<1> QED
  BY <1>2, <1>3, <1>4

\* A step that only writes a file of build/, between packaging and staging.
LEMMA WriteKeeps ==
  ASSUME BuildInv, UNCHANGED <<user, local>>, NEW n \in Names \ {"os-uefi.iso", "os.iso"},
         NEW v, NEW next \in AfterManifest \ {"stage", "write"}, pc \in Steps \ {"idle"},
         dir' = [dir EXCEPT ![n] = v], Goto(next), MadeInv', next = "bootimage" => staged' = <<>>
  PROVE  BuildInv'
<1>1. pc' = next /\ exit' = exit /\ exit # "ok"
  BY NotReturned DEF BuildInv, Goto
<1>2. next \in Steps /\ next \notin {"idle", "load", "package", "stage", "write"}
  BY DEF Steps, AfterManifest, AfterFiles, AfterHeader, AfterCompile, AfterLink, AfterLoader,
         AfterEsp
<1>3. IsoIsWhole' /\ (dir = [m \in Names |-> dir[m]])'
  BY WriteKeepsIsos DEF BuildInv
<1>4. NamesInv'
  BY NamesKept DEF BuildInv, user
<1>5. ShapeInv' /\ SuccessIsOneBuild'
  BY <1>1, <1>2, <1>3 DEF BuildInv, ShapeInv, SuccessIsOneBuild
<1>6. PackagingInv' /\ StagedInv' /\ OutputInv'
  BY <1>1, <1>2 DEF PackagingInv, StagedInv, OutputInv
<1> QED
  BY <1>3, <1>4, <1>5, <1>6 DEF BuildInv

\* The same for a step that writes no file.
LEMMA GotoKeeps ==
  ASSUME BuildInv, contents' = contents, UNCHANGED dir, local'.files = local.files, IsLocals(local'),
         NEW next \in AfterManifest \ {"stage", "write"}, pc \in Steps \ {"idle"},
         Goto(next), MadeInv', next = "bootimage" => staged' = <<>>
  PROVE  BuildInv'
<1>1. pc' = next /\ exit' = exit /\ exit # "ok"
  BY NotReturned DEF BuildInv, Goto
<1>2. next \in Steps /\ next \notin {"idle", "load", "package", "stage", "write"}
  BY DEF Steps, AfterManifest, AfterFiles, AfterHeader, AfterCompile, AfterLink, AfterLoader,
         AfterEsp
<1>3. IsoIsWhole'
  BY DEF BuildInv, IsoIsWhole
<1>4. NamesInv'
  BY NamesKept DEF BuildInv
<1>5. ShapeInv' /\ SuccessIsOneBuild'
  BY <1>1, <1>2 DEF BuildInv, ShapeInv, SuccessIsOneBuild
<1>6. PackagingInv' /\ StagedInv' /\ OutputInv'
  BY <1>1, <1>2 DEF PackagingInv, StagedInv, OutputInv
<1> QED
  BY <1>3, <1>4, <1>5, <1>6 DEF BuildInv

LEMMA ManifestKeeps ==
  ASSUME BuildInv, WriteManifest
  PROVE  BuildInv'
<1>1. pc = "package" /\ UNCHANGED <<user, local>>
  BY DEF WriteManifest
<1>2. CASE dir' \in {dir, [dir EXCEPT !["DRAGON_MANIFEST.TXT"] = Broken]} /\ Fail
  BY <1>1, <1>2, FailKeeps DEF Names
<1>3. CASE dir' = [dir EXCEPT !["DRAGON_MANIFEST.TXT"] = Manifest(local.files)] /\ Goto("floppy")
  <2>1. pc' = "floppy" /\ dir'["DRAGON_MANIFEST.TXT"] = Manifest(local'.files)
    BY <1>1, <1>3 DEF Goto, BuildInv, ShapeInv, Names
  <2>2. MadeInv'
    BY <2>1 DEF MadeInv, AfterFiles, AfterEsp, AfterLoader, AfterLink, AfterCompile, AfterHeader
  <2>3. "DRAGON_MANIFEST.TXT" \in Names \ {"os-uefi.iso", "os.iso"}
        /\ "floppy" \in AfterManifest \ {"stage", "write"} /\ pc \in Steps \ {"idle"}
    BY <1>1 DEF Names, Steps, AfterManifest, AfterFiles
  <2> QED
    BY <1>1, <1>3, <2>2, <2>3, WriteKeeps
<1> QED
  BY <1>2, <1>3 DEF WriteManifest, Write

LEMMA FloppyKeeps ==
  ASSUME BuildInv, Floppy
  PROVE  BuildInv'
<1>1. pc = "floppy" /\ UNCHANGED <<user, local, dir, staged>>
  BY DEF Floppy
<1>2. CASE Fail
  BY <1>1, <1>2, FailKeeps DEF Names
<1>3. CASE Goto("header")
  <2>1. MadeInv'
    BY <1>1, <1>3 DEF BuildInv, MadeInv, Goto, AfterFiles, AfterEsp, AfterLoader, AfterLink,
                      AfterCompile, AfterHeader, AfterManifest
  <2>2. "header" \in AfterManifest \ {"stage", "write"} /\ pc \in Steps \ {"idle"}
    BY <1>1 DEF Steps, AfterManifest, AfterFiles
  <2> QED
    BY <1>1, <1>3, <2>1, <2>2, GotoKeeps DEF BuildInv, ShapeInv, IsLocals, user
<1> QED
  BY <1>2, <1>3 DEF Floppy

LEMMA HeaderKeeps ==
  ASSUME BuildInv, WriteHeader
  PROVE  BuildInv'
<1> DEFINE v == Header
<1>1. pc = "header" /\ UNCHANGED <<user, local, staged>>
  BY DEF WriteHeader
<1>2. CASE dir' \in {dir, [dir EXCEPT !["generated_bitmap.h"] = Broken]} /\ Fail
  BY <1>1, <1>2, FailKeeps DEF Names
<1>3. CASE dir' = [dir EXCEPT !["generated_bitmap.h"] = v] /\ Goto("compile")
  <2>1. pc' = "compile" /\ dir'["generated_bitmap.h"] = v
        /\ \A n \in Names \ {"generated_bitmap.h"} : dir'[n] = dir[n]
    BY <1>1, <1>3 DEF Goto, BuildInv, ShapeInv, Names
  <2>2. v = Header /\ Header' = Header
    BY <1>1 DEF Header
  <2>3. MadeInv'
    BY <1>1, <2>1, <2>2 DEF BuildInv, MadeInv, Names, Header, AfterFiles, AfterEsp, AfterLoader, AfterLink,
                      AfterCompile, AfterHeader, AfterManifest
  <2>4. "generated_bitmap.h" \in Names \ {"os-uefi.iso", "os.iso"}
        /\ "compile" \in AfterManifest \ {"stage", "write"} /\ pc \in Steps \ {"idle"}
    BY <1>1 DEF Names, Steps, AfterFiles, AfterEsp, AfterLoader, AfterLink,
                      AfterCompile, AfterHeader, AfterManifest
  <2> HIDE DEF v
  <2> QED
    BY <1>1, <1>3, <2>3, <2>4, WriteKeeps
<1> QED
  BY <1>2, <1>3 DEF WriteHeader, Write, Header

LEMMA CompileKeeps ==
  ASSUME BuildInv, Compile
  PROVE  BuildInv'
<1> DEFINE v == [is |-> "object", code |-> code, header |-> dir["generated_bitmap.h"]]
<1>1. pc = "compile" /\ UNCHANGED <<user, local, staged>>
  BY DEF Compile
<1>2. CASE dir' \in {dir, [dir EXCEPT !["BootApp.obj"] = Absent]} /\ Fail
  BY <1>1, <1>2, FailKeeps DEF Names
<1>3. CASE dir' = [dir EXCEPT !["BootApp.obj"] = v] /\ Goto("link")
  <2>1. pc' = "link" /\ dir'["BootApp.obj"] = v
        /\ \A n \in Names \ {"BootApp.obj"} : dir'[n] = dir[n]
    BY <1>1, <1>3 DEF Goto, BuildInv, ShapeInv, Names
  <2>2. v.header = Header
    BY <1>1 DEF BuildInv, MadeInv, AfterHeader
  <2>3. MadeInv'
    BY <1>1, <2>1, <2>2 DEF BuildInv, MadeInv, Names, Header, AfterFiles, AfterEsp, AfterLoader, AfterLink,
                      AfterCompile, AfterHeader, AfterManifest
  <2>4. "BootApp.obj" \in Names \ {"os-uefi.iso", "os.iso"}
        /\ "link" \in AfterManifest \ {"stage", "write"} /\ pc \in Steps \ {"idle"}
    BY <1>1 DEF Names, Steps, AfterFiles, AfterEsp, AfterLoader, AfterLink,
                      AfterCompile, AfterHeader, AfterManifest
  <2> HIDE DEF v
  <2> QED
    BY <1>1, <1>3, <2>3, <2>4, WriteKeeps
<1> QED
  BY <1>2, <1>3 DEF Compile, RunProcess

LEMMA LinkKeeps ==
  ASSUME BuildInv, LinkLoader
  PROVE  BuildInv'
<1> DEFINE v == [is |-> "loader", object |-> dir["BootApp.obj"]]
<1>1. pc = "link" /\ UNCHANGED <<user, local, staged>>
  BY DEF LinkLoader
<1>2. CASE dir' \in {dir, [dir EXCEPT !["BOOTX64.EFI"] = Absent]} /\ Fail
  BY <1>1, <1>2, FailKeeps DEF Names
<1>3. CASE dir' = [dir EXCEPT !["BOOTX64.EFI"] = v] /\ Goto("read")
  <2>1. pc' = "read" /\ dir'["BOOTX64.EFI"] = v
        /\ \A n \in Names \ {"BOOTX64.EFI"} : dir'[n] = dir[n]
    BY <1>1, <1>3 DEF Goto, BuildInv, ShapeInv, Names
  <2>2. v.object.header = Header
    BY <1>1 DEF BuildInv, MadeInv, AfterCompile
  <2>3. MadeInv'
    BY <1>1, <2>1, <2>2 DEF BuildInv, MadeInv, Names, Header, AfterFiles, AfterEsp, AfterLoader, AfterLink,
                      AfterCompile, AfterHeader, AfterManifest
  <2>4. "BOOTX64.EFI" \in Names \ {"os-uefi.iso", "os.iso"}
        /\ "read" \in AfterManifest \ {"stage", "write"} /\ pc \in Steps \ {"idle"}
    BY <1>1 DEF Names, Steps, AfterFiles, AfterEsp, AfterLoader, AfterLink,
                      AfterCompile, AfterHeader, AfterManifest
  <2> HIDE DEF v
  <2> QED
    BY <1>1, <1>3, <2>3, <2>4, WriteKeeps
<1> QED
  BY <1>2, <1>3 DEF LinkLoader, RunProcess

LEMMA ReadKeeps ==
  ASSUME BuildInv, ReadLoader
  PROVE  BuildInv'
<1>1. pc = "read" /\ UNCHANGED <<user, dir, staged>>
  BY DEF ReadLoader
<1>2. CASE UNCHANGED local /\ Fail
  BY <1>1, <1>2, FailKeeps DEF Names
<1>3. CASE local' = [local EXCEPT !.bootx64 = dir["BOOTX64.EFI"]] /\ Goto("esp")
  <2>1. /\ pc' = "esp" /\ local'.bootx64 = dir["BOOTX64.EFI"] /\ local'.files = local.files
        /\ local'.splash = local.splash /\ IsLocals(local')
    BY <1>3 DEF Goto, BuildInv, ShapeInv, IsLocals
  <2>2. Header' = Header
    BY <2>1 DEF Header
  <2>3. MadeInv'
    BY <1>1, <2>1, <2>2 DEF BuildInv, MadeInv, AfterFiles, AfterEsp, AfterLoader, AfterLink,
                      AfterCompile, AfterHeader, AfterManifest
  <2>4. "esp" \in AfterManifest \ {"stage", "write"} /\ pc \in Steps \ {"idle"}
    BY <1>1 DEF Steps, AfterFiles, AfterEsp, AfterLoader, AfterLink,
                      AfterCompile, AfterHeader, AfterManifest
  <2> QED
    BY <1>1, <1>3, <2>1, <2>3, <2>4, GotoKeeps DEF user
<1> QED
  BY <1>2, <1>3 DEF ReadLoader

LEMMA EspKeeps ==
  ASSUME BuildInv, BuildEsp
  PROVE  BuildInv'
<1> DEFINE esp == [is |-> "esp", bootx64 |-> local.bootx64, manifest |-> Manifest(local.files)]
<1>1. pc = "esp" /\ UNCHANGED <<user, dir, staged>>
  BY DEF BuildEsp
<1>2. CASE UNCHANGED local /\ Fail
  BY <1>1, <1>2, FailKeeps DEF Names
<1>3. CASE local' = [local EXCEPT !.esp = esp] /\ Goto("clear")
  <2>1. /\ pc' = "clear" /\ local'.bootx64 = local.bootx64 /\ local'.files = local.files
        /\ local'.splash = local.splash /\ local'.esp = esp /\ IsLocals(local')
    BY <1>3 DEF Goto, BuildInv, ShapeInv, IsLocals
  <2>2. Header' = Header
    BY <2>1 DEF Header
  <2>3. MadeInv'
    BY <1>1, <2>1, <2>2 DEF BuildInv, MadeInv, AfterFiles, AfterEsp, AfterLoader, AfterLink,
                      AfterCompile, AfterHeader, AfterManifest
  <2>4. "clear" \in AfterManifest \ {"stage", "write"} /\ pc \in Steps \ {"idle"}
    BY <1>1 DEF Steps, AfterFiles, AfterEsp, AfterLoader, AfterLink,
                      AfterCompile, AfterHeader, AfterManifest
  <2> QED
    BY <1>1, <1>3, <2>1, <2>3, <2>4, GotoKeeps DEF user
<1> QED
  BY <1>2, <1>3 DEF BuildEsp

LEMMA ClearKeeps ==
  ASSUME BuildInv, ClearStaging
  PROVE  BuildInv'
<1>1. pc = "clear" /\ UNCHANGED <<user, local, dir>>
  BY DEF ClearStaging
<1>2. CASE Fail
  BY <1>1, <1>2, FailKeeps DEF Names
<1>3. CASE staged' = <<>> /\ Goto("bootimage")
  <2>1. pc' = "bootimage" /\ Header' = Header
    BY <1>1, <1>3 DEF Goto, Header
  <2>2. MadeInv'
    BY <1>1, <2>1 DEF BuildInv, MadeInv, AfterFiles, AfterEsp, AfterLoader, AfterLink,
                      AfterCompile, AfterHeader, AfterManifest
  <2>3. "bootimage" \in AfterManifest \ {"stage", "write"} /\ pc \in Steps \ {"idle"}
    BY <1>1 DEF Steps, AfterFiles, AfterEsp, AfterLoader, AfterLink,
                      AfterCompile, AfterHeader, AfterManifest
  <2> QED
    BY <1>1, <1>3, <2>2, <2>3, GotoKeeps DEF BuildInv, ShapeInv, IsLocals, user
<1> QED
  BY <1>2, <1>3 DEF ClearStaging

LEMMA BootImageKeeps ==
  ASSUME BuildInv, WriteBootImage
  PROVE  BuildInv'
<1>1. pc = "bootimage" /\ at' = 0 /\ UNCHANGED <<user, local, staged>> /\ staged = <<>>
  BY DEF WriteBootImage, BuildInv, StagedInv
<1>2. CASE dir' \in {dir, [dir EXCEPT !["efiboot.img"] = Broken]} /\ Fail
  BY <1>1, <1>2, FailKeeps DEF Names
<1>3. CASE dir' = [dir EXCEPT !["efiboot.img"] = local.esp] /\ Goto("stage")
  <2>1. /\ pc' = "stage" /\ exit' = exit /\ exit # "ok" /\ dir'["efiboot.img"] = local'.esp
        /\ \A n \in Names \ {"efiboot.img"} : dir'[n] = dir[n]
    BY <1>1, <1>3, NotReturned DEF Goto, BuildInv, ShapeInv, Names
  <2>2. Header' = Header /\ ToStage' = ToStage
    BY <1>1 DEF Header, ToStage
  <2>3. MadeInv'
    BY <1>1, <2>1, <2>2 DEF BuildInv, MadeInv, Names, AfterFiles, AfterEsp, AfterLoader, AfterLink,
                      AfterCompile, AfterHeader, AfterManifest
  <2>4. NamesInv'
    BY <1>1, NamesKept DEF BuildInv, user
  <2>5. IsoIsWhole' /\ (dir = [m \in Names |-> dir[m]])'
    BY <1>3, WriteKeepsIsos DEF BuildInv, Names
  <2>6. StagedInv'
    <3>1. Len(ToStage) \in Nat /\ 0 \in 0 .. Len(ToStage)
      BY StageItems DEF BuildInv, NamesInv
    <3>2. DOMAIN staged' = {} /\ 1 .. at' = {}
      BY <1>1
    <3>3. DOMAIN staged' = {Key(ToStage[i].path) : i \in 1 .. at'}
      BY <3>2
    <3> QED
      BY <1>1, <2>1, <2>2, <3>1, <3>2, <3>3 DEF StagedInv
  <2>7. ShapeInv' /\ SuccessIsOneBuild'
    BY <1>1, <2>1, <2>5 DEF BuildInv, ShapeInv, SuccessIsOneBuild, Steps, AfterFiles, AfterEsp, AfterLoader, AfterLink,
                      AfterCompile, AfterHeader, AfterManifest
  <2>8. PackagingInv' /\ OutputInv'
    BY <2>1 DEF PackagingInv, OutputInv
  <2> QED
    BY <2>3, <2>4, <2>5, <2>6, <2>7, <2>8 DEF BuildInv
<1> QED
  BY <1>2, <1>3 DEF WriteBootImage, Write

LEMMA StageKeeps ==
  ASSUME BuildInv, StageFile
  PROVE  BuildInv'
<1> DEFINE file == ToStage[at + 1]
           tree == [k \in DOMAIN staged \cup {Key(file.path)} |->
                      IF k = Key(file.path) THEN file.content ELSE staged[k]]
<1>1. pc = "stage" /\ at < Len(ToStage) /\ at' = at + 1 /\ UNCHANGED <<user, local, dir>>
  BY DEF StageFile
<1>2. CASE Fail
  BY <1>1, <1>2, FailKeeps DEF Names
<1>3. CASE staged' = tree /\ Goto("stage")
  <2>1. pc' = "stage" /\ exit' = exit /\ exit # "ok"
    BY <1>1, <1>3, NotReturned DEF Goto, BuildInv
  <2>2. Header' = Header /\ ToStage' = ToStage
    BY <1>1 DEF Header, ToStage
  <2>3. MadeInv'
    BY <1>1, <2>1, <2>2 DEF BuildInv, MadeInv
  <2>4. NamesInv'
    BY <1>1, NamesKept DEF BuildInv, user
  <2>5. StagedInv'
    <3> DEFINE name(i) == Key(ToStage[i].path)
    <3>1. /\ at \in Nat /\ Len(ToStage) \in Nat /\ at + 1 \in 1 .. Len(ToStage)
          /\ at + 1 \in 0 .. Len(ToStage) /\ 1 .. at \subseteq 1 .. Len(ToStage)
          /\ at + 1 \notin 1 .. at /\ 1 .. at + 1 = (1 .. at) \cup {at + 1}
      BY <1>1, StageItems DEF BuildInv, NamesInv, StagedInv
    <3>2. /\ DOMAIN staged = {name(i) : i \in 1 .. at}
          /\ \A i \in 1 .. at : staged[name(i)] = ToStage[i].content
      BY <1>1 DEF BuildInv, StagedInv
    <3>3. \A i \in 1 .. at : name(i) # name(at + 1)
      BY <3>1, StageNames DEF BuildInv
    <3> HIDE DEF name
    <3>4. staged' = [k \in DOMAIN staged \cup {name(at + 1)} |->
                       IF k = name(at + 1) THEN ToStage[at + 1].content ELSE staged[k]]
      BY <1>3 DEF name
    <3>5. DOMAIN staged' = {name(i) : i \in 1 .. at + 1}
      BY <3>1, <3>2, <3>4
    <3>6. \A i \in 1 .. at + 1 : staged'[name(i)] = ToStage[i].content
      BY <3>1, <3>2, <3>3, <3>4
    <3>7. dir'["efiboot.img"] = local'.esp
      BY <1>1 DEF BuildInv, StagedInv
    <3> QED
      BY <1>1, <2>1, <2>2, <3>1, <3>5, <3>6, <3>7 DEF StagedInv, name
  <2>6. ShapeInv' /\ SuccessIsOneBuild' /\ IsoIsWhole'
    BY <1>1, <2>1 DEF BuildInv, ShapeInv, SuccessIsOneBuild, IsoIsWhole
  <2>7. PackagingInv' /\ OutputInv'
    BY <2>1 DEF PackagingInv, OutputInv
  <2> QED
    BY <2>3, <2>4, <2>5, <2>6, <2>7 DEF BuildInv
<1> QED
  BY <1>2, <1>3 DEF StageFile

\* What is written at the end, and under which name.
LEMMA OutputItems ==
  /\ Len(Outputs) = 5
  /\ Outputs[1].name = "stages" /\ Outputs[1].value = FloppyOf(local.splash)
  /\ Outputs[2].name = "BOOTX64.EFI" /\ Outputs[2].value = local.bootx64
  /\ Outputs[3].name = "efiboot.img" /\ Outputs[3].value = local.esp
  /\ Outputs[4].name = "os.img" /\ Outputs[4].value = FloppyOf(local.splash)
  /\ Outputs[5].name = "os-uefi.iso" /\ Outputs[5].value = local.iso
  BY DEF Outputs

LEMMA CreateKeeps ==
  ASSUME BuildInv, CreateIso
  PROVE  BuildInv'
<1>1. pc = "stage" /\ at = Len(ToStage) /\ at' = 0 /\ UNCHANGED <<user, dir, staged>>
  BY DEF CreateIso
<1>2. CASE UNCHANGED local /\ Fail
  BY <1>1, <1>2, FailKeeps DEF Names
<1>3. ASSUME NEW kind \in IsoKinds,
             local' = [local EXCEPT !.iso = IsoAs(kind)], Goto("write")
      PROVE  BuildInv'
  <2> DEFINE iso == IsoAs(kind)
  <2>1. /\ pc' = "write" /\ exit' = exit /\ exit # "ok" /\ IsLocals(local')
        /\ local'.bootx64 = local.bootx64 /\ local'.files = local.files
        /\ local'.splash = local.splash /\ local'.esp = local.esp /\ local'.iso = iso
    BY <1>1, <1>3, NotReturned DEF Goto, BuildInv, ShapeInv, IsLocals
  <2>2. Header' = Header
    BY <2>1 DEF Header
  <2>3. MadeInv'
    BY <1>1, <2>1, <2>2 DEF BuildInv, MadeInv, AfterFiles, AfterEsp, AfterLoader, AfterLink,
                      AfterCompile, AfterHeader, AfterManifest
  <2>4. NamesInv'
    BY <1>1, <2>1, NamesKept DEF BuildInv, user
  <2>5. OutputInv'
    <3>1. Whole(iso) /\ iso.is \in IsoKinds
      BY <1>1, <1>3, StagedIsoIsWhole DEF BuildInv, IsoAs
    <3>2. iso.tree[Key(LoaderPath)] = local.bootx64
          /\ iso.tree[Key(ManifestPath)] = Manifest(local.files)
      BY <1>1, StagedTree DEF BuildInv, IsoAs
    <3>3. iso.boot = local.esp
      BY <1>1 DEF BuildInv, StagedInv, IsoAs
    <3> HIDE DEF iso
    <3>4. Len(Outputs)' = 5 /\ 1 .. at' = {} /\ at' \in 0 .. 5
      BY <1>1, OutputItems DEF Outputs
    <3> QED
      BY <2>1, <3>1, <3>2, <3>3, <3>4 DEF OutputInv
  <2>6. ShapeInv' /\ SuccessIsOneBuild' /\ IsoIsWhole'
    BY <1>1, <2>1 DEF BuildInv, ShapeInv, SuccessIsOneBuild, IsoIsWhole, Steps, AfterFiles, AfterEsp, AfterLoader, AfterLink,
                      AfterCompile, AfterHeader, AfterManifest
  <2>7. PackagingInv' /\ StagedInv'
    BY <2>1 DEF PackagingInv, StagedInv
  <2> QED
    BY <2>3, <2>4, <2>5, <2>6, <2>7 DEF BuildInv
<1> QED
  BY <1>2, <1>3 DEF CreateIso

LEMMA OutputKeeps ==
  ASSUME BuildInv, WriteOutput
  PROVE  BuildInv'
<1> DEFINE name == Outputs[at + 1].name
           value == Outputs[at + 1].value
<1>1. pc = "write" /\ at < Len(Outputs) /\ at' = at + 1 /\ UNCHANGED <<user, local, staged>>
  BY DEF WriteOutput
<1>2. at \in 0 .. 4 /\ name \in Names
  <2>1. at \in 0 .. 4
    BY <1>1, OutputItems DEF BuildInv, OutputInv
  <2>2. \A k \in 1 .. 5 : Outputs[k].name \in Names
    BY OutputItems DEF Names
  <2>3. at + 1 \in 1 .. 5
    BY <2>1
  <2> QED
    BY <2>1, <2>2, <2>3
<1>3. CASE dir' \in {dir, [dir EXCEPT ![name] = Broken]} /\ Fail
  <2> HIDE DEF name
  <2> QED
    BY <1>1, <1>2, <1>3, FailKeeps
<1>4. CASE dir' = [dir EXCEPT ![name] = value] /\ Goto("write")
  <2>1. pc' = "write" /\ exit' = exit /\ exit # "ok"
    BY <1>1, <1>4, NotReturned DEF Goto, BuildInv
  <2>2. \A n \in Names : dir'[n] = IF n = name THEN value ELSE dir[n]
    BY <1>4 DEF BuildInv, ShapeInv
  <2>3. Header' = Header /\ Outputs' = Outputs
    BY <1>1 DEF Header, Outputs
  <2>4. NamesInv'
    BY <1>1, NamesKept DEF BuildInv, user
  <2>5. /\ name \notin {"DRAGON_MANIFEST.TXT", "generated_bitmap.h", "BootApp.obj"}
        /\ name = "BOOTX64.EFI" => value = local.bootx64
        /\ name \in {"os-uefi.iso", "os.iso"} => value = local.iso
        /\ \A k \in 1 .. at : Outputs[k].name # name /\ Outputs[k].name \in Names
    <3>1. at \in {0, 1, 2, 3, 4}
      BY <1>2
    <3>2. CASE at = 0
      BY <3>2, OutputItems
    <3>3. CASE at = 1
      BY <3>3, OutputItems DEF Names
    <3>4. CASE at = 2
      BY <3>4, OutputItems DEF Names
    <3>5. CASE at = 3
      BY <3>5, OutputItems DEF Names
    <3>6. CASE at = 4
      BY <3>6, OutputItems DEF Names
    <3> QED
      BY <3>1, <3>2, <3>3, <3>4, <3>5, <3>6
  <2> HIDE DEF name, value
  <2>6. MadeInv'
    <3>1. {"DRAGON_MANIFEST.TXT", "generated_bitmap.h", "BootApp.obj", "BOOTX64.EFI"} \subseteq Names
      BY DEF Names
    <3>2. dir'["DRAGON_MANIFEST.TXT"] = dir["DRAGON_MANIFEST.TXT"]
          /\ dir'["generated_bitmap.h"] = dir["generated_bitmap.h"]
          /\ dir'["BootApp.obj"] = dir["BootApp.obj"]
          /\ dir'["BOOTX64.EFI"] \in {dir["BOOTX64.EFI"], local.bootx64}
      BY <2>2, <2>5, <3>1
    <3> QED
      BY <1>1, <2>1, <2>3, <3>2 DEF BuildInv, MadeInv, AfterFiles, AfterEsp, AfterLoader, AfterLink,
                      AfterCompile, AfterHeader, AfterManifest
  <2>7. IsoIsWhole' /\ (dir = [m \in Names |-> dir[m]])'
    <3>1. name \in {"os-uefi.iso", "os.iso"} /\ value.is \in IsoKinds => Whole(value)
      BY <1>1, <2>5 DEF BuildInv, OutputInv
    <3> QED
      BY <1>2, <1>4, <3>1, WriteKeepsIsos DEF BuildInv
  <2>8. OutputInv'
    <3>1. ASSUME NEW k \in 1 .. at + 1
          PROVE  dir'[Outputs[k].name] = Outputs[k].value
      <4>1. CASE k = at + 1
        BY <1>2, <2>2, <4>1 DEF name, value
      <4>2. CASE k # at + 1
        <5>1. k \in 1 .. at
          BY <1>2, <4>2
        <5>2. dir[Outputs[k].name] = Outputs[k].value
          BY <1>1, <5>1 DEF BuildInv, OutputInv
        <5> QED
          BY <2>2, <2>5, <5>1, <5>2
      <4> QED
        BY <4>1, <4>2
    <3>2. at + 1 \in 0 .. Len(Outputs)
      BY <1>2, OutputItems
    <3> QED
      BY <1>1, <2>1, <2>3, <3>1, <3>2 DEF BuildInv, OutputInv
  <2>9. ShapeInv' /\ SuccessIsOneBuild'
    BY <1>1, <2>1, <2>7 DEF BuildInv, ShapeInv, SuccessIsOneBuild
  <2>10. PackagingInv' /\ StagedInv'
    BY <2>1 DEF PackagingInv, StagedInv
  <2> QED
    BY <2>4, <2>6, <2>7, <2>8, <2>9, <2>10 DEF BuildInv
<1> QED
  BY <1>3, <1>4 DEF WriteOutput, Write

\* The last step: when Main returns 0, every output is of this build.
LEMMA AliasKeeps ==
  ASSUME BuildInv, WriteAlias
  PROVE  BuildInv'
<1>1. pc = "write" /\ at = Len(Outputs) /\ UNCHANGED <<user, local, staged, at>>
  BY DEF WriteAlias
<1>2. CASE UNCHANGED dir /\ Fail
  BY <1>1, <1>2, FailKeeps DEF Names
<1>3. CASE /\ dir' \in {dir, [dir EXCEPT !["os.iso"] = local.iso],
                        [dir EXCEPT !["os.iso"] = Broken]}
           /\ pc' = "idle" /\ exit' = "ok"
  <2>1. NamesInv'
    BY <1>1, NamesKept DEF BuildInv, user
  <2>2. IsoIsWhole' /\ (dir = [m \in Names |-> dir[m]])'
    <3>1. "os.iso" \in Names /\ Whole(local.iso)
      BY <1>1 DEF Names, BuildInv, OutputInv
    <3>2. CASE dir' = dir
      BY <3>2 DEF BuildInv, ShapeInv, IsoIsWhole
    <3>3. CASE dir' = [dir EXCEPT !["os.iso"] = local.iso]
      BY <3>1, <3>3, WriteKeepsIsos DEF BuildInv
    <3>4. CASE dir' = [dir EXCEPT !["os.iso"] = Broken]
      BY <3>1, <3>4, WriteKeepsIsos DEF BuildInv, Broken, IsoKinds
    <3> QED
      BY <1>3, <3>2, <3>3, <3>4
  <2>3. \A n \in Names \ {"os.iso"} : dir'[n] = dir[n]
    BY <1>3 DEF BuildInv, ShapeInv
  <2>4. SuccessIsOneBuild'
    <3>1. {"os-uefi.iso", "BOOTX64.EFI", "efiboot.img", "os.img", "stages",
           "DRAGON_MANIFEST.TXT"} \subseteq Names \ {"os.iso"}
      BY DEF Names
    <3>2. \A k \in 1 .. 5 : dir[Outputs[k].name] = Outputs[k].value
      BY <1>1, OutputItems DEF BuildInv, OutputInv
    <3>3. /\ dir["stages"] = FloppyOf(local.splash) /\ dir["BOOTX64.EFI"] = local.bootx64
          /\ dir["efiboot.img"] = local.esp /\ dir["os.img"] = FloppyOf(local.splash)
          /\ dir["os-uefi.iso"] = local.iso
      BY <3>2, OutputItems
    <3>4. dir["DRAGON_MANIFEST.TXT"] = Manifest(local.files)
          /\ local.bootx64.object.header = Header
      BY <1>1 DEF BuildInv, MadeInv, AfterFiles, AfterEsp, AfterLoader, AfterLink,
                      AfterCompile, AfterHeader, AfterManifest
    <3>5. Header.art = local.splash
      BY DEF Header
    <3>6. /\ local.iso.is \in IsoKinds /\ local.iso.tree[Key(LoaderPath)] = local.bootx64
          /\ local.iso.tree[Key(ManifestPath)] = Manifest(local.files)
          /\ local.iso.boot = local.esp
      BY <1>1 DEF BuildInv, OutputInv
    <3>7. /\ dir'["stages"] = dir["stages"] /\ dir'["BOOTX64.EFI"] = dir["BOOTX64.EFI"]
          /\ dir'["efiboot.img"] = dir["efiboot.img"] /\ dir'["os.img"] = dir["os.img"]
          /\ dir'["os-uefi.iso"] = dir["os-uefi.iso"]
          /\ dir'["DRAGON_MANIFEST.TXT"] = dir["DRAGON_MANIFEST.TXT"]
      BY <2>3, <3>1
    <3> QED
      BY <3>3, <3>4, <3>5, <3>6, <3>7 DEF SuccessIsOneBuild
  <2>5. ShapeInv'
    BY <1>1, <1>3, <2>2 DEF BuildInv, ShapeInv, Steps
  <2>6. PackagingInv' /\ StagedInv' /\ OutputInv'
    BY <1>3 DEF PackagingInv, StagedInv, OutputInv
  <2>7. MadeInv'
    BY <1>3 DEF MadeInv, AfterFiles, AfterEsp, AfterLoader, AfterLink,
                      AfterCompile, AfterHeader, AfterManifest
  <2> QED
    BY <2>1, <2>2, <2>4, <2>5, <2>6, <2>7 DEF BuildInv
<1> QED
  BY <1>2, <1>3 DEF WriteAlias

-----------------------------------------------------------------------------
LEMMA InitEstablishes ==
  ASSUME Init
  PROVE  BuildInv
<1>1. pc = "idle" /\ exit = "none" /\ local = NoLocals /\ dir = [n \in Names |-> Absent]
  BY DEF Init
<1>2. DOMAIN contents \subseteq AllFiles
  BY DEF Init
<1>3. local.files = <<>>
  BY <1>1 DEF NoLocals
<1>4. IsSequence(local.files) /\ DOMAIN local.files = {}
  <2>1. <<>> \in Seq({}) /\ DOMAIN <<>> = {}
    OBVIOUS
  <2> QED
    BY <1>3, <2>1 DEF IsSequence
<1>5. NamesInv
  BY <1>2, <1>4 DEF NamesInv
<1>6. ShapeInv
  BY <1>1 DEF ShapeInv, IsLocals, NoLocals, Steps
<1>7. PackagingInv /\ StagedInv /\ OutputInv /\ SuccessIsOneBuild
  BY <1>1 DEF PackagingInv, StagedInv, OutputInv, SuccessIsOneBuild
<1>8. MadeInv
  BY <1>1 DEF MadeInv, AfterFiles, AfterEsp, AfterLoader, AfterLink,
                      AfterCompile, AfterHeader, AfterManifest
<1>9. IsoIsWhole
  BY <1>1 DEF IsoIsWhole, Names, Absent, IsoKinds
<1> QED
  BY <1>5, <1>6, <1>7, <1>8, <1>9 DEF BuildInv

LEMMA StutterKeeps ==
  ASSUME BuildInv, UNCHANGED vars
  PROVE  BuildInv'
<1>1. UNCHANGED <<contents, pc, local, dir, staged, at, exit>>
  BY DEF vars, user
<1>2. ToStage' = ToStage /\ Outputs' = Outputs /\ Header' = Header
  BY <1>1 DEF ToStage, Outputs, Header
<1>3. NamesInv' /\ PackagingInv' /\ ShapeInv'
  BY <1>1 DEF BuildInv, NamesInv, PackagingInv, ShapeInv, IsPayload, NameOf
<1>4. MadeInv'
  BY <1>1, <1>2 DEF BuildInv, MadeInv
<1>5. StagedInv'
  BY <1>1, <1>2 DEF BuildInv, StagedInv
<1>6. OutputInv'
  BY <1>1, <1>2 DEF BuildInv, OutputInv
<1>7. IsoIsWhole' /\ SuccessIsOneBuild'
  BY <1>1 DEF BuildInv, IsoIsWhole, SuccessIsOneBuild
<1> QED
  BY <1>3, <1>4, <1>5, <1>6, <1>7 DEF BuildInv

LEMMA StepKeeps ==
  ASSUME BuildInv, [Next]_vars
  PROVE  BuildInv'
<1>1. CASE Edit
  BY <1>1, EditKeeps
<1>2. CASE StartBuild
  BY <1>2, StartKeeps
<1>3. CASE LoadImages
  BY <1>3, LoadKeeps
<1>4. CASE OpenDirectory
  BY <1>4, OpenKeeps
<1>5. CASE PackageFile
  BY <1>5, PackageFileKeeps
<1>6. CASE WriteManifest
  BY <1>6, ManifestKeeps
<1>7. CASE Floppy
  BY <1>7, FloppyKeeps
<1>8. CASE WriteHeader
  BY <1>8, HeaderKeeps
<1>9. CASE Compile
  BY <1>9, CompileKeeps
<1>10. CASE LinkLoader
  BY <1>10, LinkKeeps
<1>11. CASE ReadLoader
  BY <1>11, ReadKeeps
<1>12. CASE BuildEsp
  BY <1>12, EspKeeps
<1>13. CASE ClearStaging
  BY <1>13, ClearKeeps
<1>14. CASE WriteBootImage
  BY <1>14, BootImageKeeps
<1>15. CASE StageFile
  BY <1>15, StageKeeps
<1>16. CASE CreateIso
  BY <1>16, CreateKeeps
<1>17. CASE WriteOutput
  BY <1>17, OutputKeeps
<1>18. CASE WriteAlias
  BY <1>18, AliasKeeps
<1>19. CASE UNCHANGED vars
  BY <1>19, StutterKeeps
<1> QED
  BY <1>1, <1>2, <1>3, <1>4, <1>5, <1>6, <1>7, <1>8, <1>9, <1>10, <1>11, <1>12, <1>13, <1>14,
     <1>15, <1>16, <1>17, <1>18, <1>19 DEF Next, Main

LEMMA BuildInvariant == Spec => []BuildInv
<1>1. Init => BuildInv
  BY InitEstablishes
<1>2. BuildInv /\ [Next]_vars => BuildInv'
  BY StepKeeps
<1> QED
  BY <1>1, <1>2, PTL DEF Spec

\* Main of Program.cs: whichever step of whichever build throws, and whenever the
\* user edits, adds or removes a file, an ISO that was written to build/ was made to
\* boot the loader that is in its tree, and its manifest lists exactly the runtime
\* files in its tree.  How far its stream was read is not part of this.
THEOREM IsosAreWhole == Spec => []IsoIsWhole
<1>1. BuildInv => IsoIsWhole
  BY DEF BuildInv
<1> QED
  BY <1>1, BuildInvariant, PTL

\* When Main returns 0, the loader, the boot image, the floppy image and the manifest
\* in build/ are of the same build as the ISO beside them, or as the first part of an
\* ISO, if ReadAllBytes read no more: Main then returns 0, too.
THEOREM SuccessLeavesOneBuild == Spec => []SuccessIsOneBuild
<1>1. BuildInv => SuccessIsOneBuild
  BY DEF BuildInv
<1> QED
  BY <1>1, BuildInvariant, PTL
-----------------------------------------------------------------------------
(* RunProcess: the outputs of cl and link.                                 *)

\* The lines that have left the tool on a stream: those read, then those in the pipe.
Flow(s) == read[s] \o pipe[s]

\* Strictly increasing, and the members of a set are its elements.
Enumerates(lines, S) ==
  /\ lines \in Seq(Nat)
  /\ \A i \in 1 .. Len(lines) : lines[i] \in S
  /\ \A n \in S : \E i \in 1 .. Len(lines) : lines[i] = n
  /\ \A i, j \in 1 .. Len(lines) : i < j => lines[i] < lines[j]

\* The types.
ToolTypeOK ==
  /\ program \in Seq(Streams) /\ written \in 0 .. Len(program)
  /\ exitCode \in {"running", "0", "2"}
  /\ pipe \in [Streams -> Seq(Nat)] /\ read \in [Streams -> Seq(Nat)]
  /\ awaits \in {"out", "err", "wait", "returned", "thrown"}

\* The lines written to a stream so far.
WrittenTo(s) == {i \in 1 .. written : program[i] = s}

\* Nothing is lost or overtaken on the way from the tool to the reader, and RunProcess
\* leaves a stream only when its writer has gone and its pipe is empty.
ToolInv ==
  /\ ToolTypeOK
  /\ \A s \in Streams : Enumerates(Flow(s), WrittenTo(s))
  /\ exitCode # "running" => written = Len(program)
  /\ awaits # "out" => exitCode # "running" /\ pipe["out"] = <<>>
  /\ awaits \notin Streams => pipe["err"] = <<>>

\* A line behind all earlier ones is added to an output.
LEMMA EnumerationGrows ==
  ASSUME NEW lines, NEW S, NEW n \in Nat, Enumerates(lines, S), \A k \in S : k < n
  PROVE  Enumerates(Append(lines, n), S \cup {n})
<1> DEFINE longer == Append(lines, n)
<1>1. /\ lines \in Seq(Nat)
      /\ \A i \in 1 .. Len(lines) : lines[i] \in S
      /\ \A k \in S : \E i \in 1 .. Len(lines) : lines[i] = k
      /\ \A i, j \in 1 .. Len(lines) : i < j => lines[i] < lines[j]
  BY DEF Enumerates
<1>2. /\ longer \in Seq(Nat) /\ Len(longer) = Len(lines) + 1 /\ Len(lines) \in Nat
      /\ longer[Len(lines) + 1] = n
      /\ \A i \in 1 .. Len(lines) : longer[i] = lines[i]
  BY <1>1
<1> HIDE DEF longer
<1>6. \A i \in 1 .. Len(longer) : i \in 1 .. Len(lines) \/ i = Len(lines) + 1
  BY <1>2
<1>3. \A i \in 1 .. Len(longer) : longer[i] \in S \cup {n}
  BY <1>1, <1>2, <1>6
<1>4. \A k \in S \cup {n} : \E i \in 1 .. Len(longer) : longer[i] = k
  <2> TAKE k \in S \cup {n}
  <2>1. CASE k = n
    <3>1. Len(lines) + 1 \in 1 .. Len(longer)
      BY <1>2
    <3> QED BY <3>1, <2>1, <1>2
  <2>2. CASE k \in S
    <3>1. PICK i \in 1 .. Len(lines) : lines[i] = k
      BY <2>2, <1>1
    <3>2. i \in 1 .. Len(longer) /\ longer[i] = k
      BY <3>1, <1>2
    <3> QED BY <3>2
  <2> QED BY <2>1, <2>2
<1>5. \A i, j \in 1 .. Len(longer) : i < j => longer[i] < longer[j]
  <2> SUFFICES ASSUME NEW i \in 1 .. Len(longer), NEW j \in 1 .. Len(longer), i < j
               PROVE  longer[i] < longer[j]
    OBVIOUS
  <2>1. i \in 1 .. Len(lines) /\ longer[i] = lines[i] /\ lines[i] \in S
    BY <1>1, <1>2
  <2>2. CASE j = Len(longer)
    <3>1. longer[j] = n
      BY <2>2, <1>2
    <3>2. lines[i] < n
      BY <2>1, <1>1
    <3> QED
      BY <3>1, <3>2, <2>1
  <2>3. CASE j # Len(longer)
    <3>1. j \in 1 .. Len(lines)
      BY <2>3, <1>2, <1>6
    <3>2. lines[i] < lines[j] /\ longer[j] = lines[j]
      BY <3>1, <2>1, <1>1, <1>2
    <3> QED BY <3>2, <2>1
  <2> QED BY <2>2, <2>3
<1> QED
  BY <1>2, <1>3, <1>4, <1>5 DEF Enumerates, longer

\* A line put into the pipe goes behind what is read and what is in the pipe.
LEMMA AppendBehind ==
  ASSUME NEW a \in Seq(Nat), NEW b \in Seq(Nat), NEW x \in Nat
  PROVE  a \o Append(b, x) = Append(a \o b, x)
<1>1. <<x>> \in Seq(Nat) /\ a \o b \in Seq(Nat)
  OBVIOUS
<1>2. Append(b, x) = b \o <<x>> /\ Append(a \o b, x) = (a \o b) \o <<x>>
  BY <1>1, AppendIsConcat
<1> QED
  BY <1>1, <1>2, ConcatAssociative

\* Before the tool writes, both flows are empty.
LEMMA ToolInvInitial == ToolInit => ToolInv
<1> SUFFICES ASSUME ToolInit PROVE ToolInv
  OBVIOUS
<1>1. ToolTypeOK
  BY PipeAssumption DEF ToolInit, ToolTypeOK, Streams, FirstStream
<1>2. ASSUME NEW s \in Streams PROVE Enumerates(Flow(s), WrittenTo(s))
  <2>1. Flow(s) = <<>> /\ WrittenTo(s) = {}
    BY <1>1 DEF ToolInit, Flow, WrittenTo, Streams
  <2> QED BY <2>1 DEF Enumerates
<1> QED
  BY <1>1, <1>2 DEF ToolInit, ToolInv, FirstStream, Streams

\* A line moves from the tool into its pipe and from there to the reader; neither
\* changes the order, and a stream is only left when its pipe stays empty.
LEMMA ToolInvKept == ToolInv /\ [ToolNext]_toolVars => ToolInv'
<1> SUFFICES ASSUME ToolInv, [ToolNext]_toolVars PROVE ToolInv'
  OBVIOUS
<1>1. CASE ToolWrite
  <2> PICK to : to = program[written + 1]
    OBVIOUS
  <2>1. /\ to \in Streams /\ exitCode = "running" /\ written \in Nat
        /\ written + 1 \in 1 .. Len(program) /\ written' = written + 1
        /\ pipe' = [pipe EXCEPT ![to] = Append(pipe[to], written + 1)]
        /\ read' = read /\ program' = program /\ exitCode' = exitCode /\ awaits' = awaits
    BY <1>1 DEF ToolWrite, ToolInv, ToolTypeOK
  <2>2. ToolTypeOK'
    BY <2>1 DEF ToolInv, ToolTypeOK
  <2>3. ASSUME NEW s \in Streams PROVE Enumerates(Flow(s), WrittenTo(s))'
    <3>1. read[s] \in Seq(Nat) /\ pipe[s] \in Seq(Nat) /\ Enumerates(Flow(s), WrittenTo(s))
      BY DEF ToolInv, ToolTypeOK
    <3>2. CASE s = to
      <4>1. Flow(s)' = read[s] \o Append(pipe[s], written + 1)
        BY <2>1, <3>2 DEF Flow, ToolInv, ToolTypeOK
      <4>2. Flow(s)' = Append(Flow(s), written + 1)
        <5>1. read[s] \o Append(pipe[s], written + 1) = Append(read[s] \o pipe[s], written + 1)
          <6>1. \A a, b \in Seq(Nat), x \in Nat : a \o Append(b, x) = Append(a \o b, x)
            BY AppendBehind, Zenon
          <6>2. written + 1 \in Nat
            BY <2>1
          <6> QED
            BY <6>1, <6>2, <3>1, Zenon
        <5> QED
          BY <5>1, <4>1 DEF Flow
      <4>3. WrittenTo(s)' = WrittenTo(s) \cup {written + 1}
        BY <2>1, <3>2 DEF WrittenTo
      <4>4. \A k \in WrittenTo(s) : k < written + 1
        BY <2>1 DEF WrittenTo
      <4>5. Enumerates(Append(Flow(s), written + 1), WrittenTo(s) \cup {written + 1})
        BY <4>4, <3>1, <2>1, EnumerationGrows
      <4>6. Enumerates(Flow(s)', WrittenTo(s)')
        BY <4>2, <4>3, <4>5
      <4> QED
        BY <4>6 DEF Enumerates
    <3>3. CASE s # to
      <4>1. Flow(s)' = Flow(s)
        BY <2>1, <3>3 DEF Flow, ToolInv, ToolTypeOK
      <4>2. WrittenTo(s)' = WrittenTo(s)
        BY <2>1, <3>3 DEF WrittenTo
      <4> QED
        BY <4>1, <4>2, <3>1
    <3> QED
      BY <3>2, <3>3
  <2> QED
    BY <2>1, <2>2, <2>3 DEF ToolInv, ToolTypeOK, Streams
<1>2. CASE ToolExit
  <2>1. ToolTypeOK'
    BY <1>2 DEF ToolExit, ToolInv, ToolTypeOK
  <2>2. \A s \in Streams : Flow(s)' = Flow(s) /\ WrittenTo(s)' = WrittenTo(s)
    BY <1>2 DEF ToolExit, Flow, WrittenTo
  <2> QED
    BY <1>2, <2>1, <2>2 DEF ToolExit, ToolInv
<1>3. CASE \E s \in Streams : Read(s)
  <2> PICK from \in Streams : Read(from)
    BY <1>3
  <2>1. /\ awaits = from /\ read' = [read EXCEPT ![from] = read[from] \o pipe[from]]
        /\ pipe' = [pipe EXCEPT ![from] = <<>>]
        /\ program' = program /\ written' = written /\ exitCode' = exitCode /\ awaits' = awaits
    BY DEF Read, tool
  <2>2. read[from] \o pipe[from] \in Seq(Nat)
    BY DEF ToolInv, ToolTypeOK
  <2>3. ToolTypeOK'
    BY <2>1, <2>2 DEF ToolInv, ToolTypeOK
  <2>4. ASSUME NEW s \in Streams PROVE Flow(s)' = Flow(s)
    <3>1. CASE s = from
      <4>1. Flow(s)' = (read[s] \o pipe[s]) \o <<>>
        BY <2>1, <3>1 DEF Flow, ToolInv, ToolTypeOK
      <4> QED
        BY <4>1, <2>2, <3>1, ConcatEmptySeq DEF Flow
    <3>2. CASE s # from
      BY <2>1, <3>2 DEF Flow, ToolInv, ToolTypeOK
    <3> QED
      BY <3>1, <3>2
  <2>5. \A s \in Streams : WrittenTo(s)' = WrittenTo(s)
    BY <2>1 DEF WrittenTo
  <2> QED
    BY <2>1, <2>3, <2>4, <2>5 DEF ToolInv, ToolTypeOK, Streams
<1>4. CASE \E s \in Streams : EndOfStream(s)
  <2> PICK of \in Streams : EndOfStream(of)
    BY <1>4
  <2>1. /\ awaits = of /\ pipe[of] = <<>> /\ exitCode # "running"
        /\ of = "out" => awaits' = "err"
        /\ of = "err" => awaits' = "wait"
        /\ program' = program /\ written' = written /\ exitCode' = exitCode
        /\ pipe' = pipe /\ read' = read
    BY DEF EndOfStream, AtEnd, tool, FirstStream, Streams
  <2>2. \A s \in Streams : Flow(s)' = Flow(s) /\ WrittenTo(s)' = WrittenTo(s)
    BY <2>1 DEF Flow, WrittenTo
  <2>3. of = "out" \/ of = "err"
    BY DEF Streams
  <2> QED
    BY <2>1, <2>2, <2>3 DEF ToolInv, ToolTypeOK, Streams
<1>5. CASE WaitForExit
  <2>1. \A s \in Streams : Flow(s)' = Flow(s) /\ WrittenTo(s)' = WrittenTo(s)
    BY <1>5 DEF WaitForExit, tool, Flow, WrittenTo
  <2> QED
    BY <1>5, <2>1 DEF WaitForExit, tool, ToolInv, ToolTypeOK, Streams
<1>6. CASE UNCHANGED toolVars
  <2>1. \A s \in Streams : Flow(s)' = Flow(s) /\ WrittenTo(s)' = WrittenTo(s)
    BY <1>6 DEF toolVars, tool, Flow, WrittenTo
  <2> QED
    BY <1>6, <2>1 DEF toolVars, tool, ToolInv, ToolTypeOK
<1> QED
  BY <1>1, <1>2, <1>3, <1>4, <1>5, <1>6 DEF ToolNext, Tool, RunProcessStep

\* At the end the pipes are empty and the tool has written all.
LEMMA InvGivesOutputs == ToolInv => OutputsComplete
<1> SUFFICES ASSUME ToolInv, awaits \in {"returned", "thrown"}, NEW s \in Streams
             PROVE  /\ {read[s][i] : i \in DOMAIN read[s]} = LinesOf(s)
                    /\ \A i, j \in DOMAIN read[s] : i < j => read[s][i] < read[s][j]
  BY DEF OutputsComplete
<1>1. written = Len(program) /\ pipe[s] = <<>>
  BY DEF ToolInv, Streams
<1>2. Flow(s) = read[s] /\ DOMAIN read[s] = 1 .. Len(read[s])
  BY <1>1, ConcatEmptySeq DEF Flow, ToolInv, ToolTypeOK
<1>3. WrittenTo(s) = LinesOf(s)
  BY <1>1 DEF WrittenTo, LinesOf
<1>4. Enumerates(read[s], LinesOf(s))
  BY <1>2, <1>3 DEF ToolInv
<1> QED
  BY <1>2, <1>4 DEF Enumerates

\* RunProcess of NativeUefiCompiler.cs: however the tool mixes its two outputs and
\* whatever the pipes hold, both are read completely and in order when RunProcess
\* returns or throws.
THEOREM OutputsAreComplete == ToolSpec => []OutputsComplete
<1>1. ToolInit => ToolInv
  BY ToolInvInitial
<1>2. ToolInv /\ [ToolNext]_toolVars => ToolInv'
  BY ToolInvKept
<1> QED
  BY <1>1, <1>2, InvGivesOutputs, PTL DEF ToolSpec

-----------------------------------------------------------------------------
(* Mp4MetadataParser: the picture size of a file.                          *)

\* The calls and the handlers there are.
Frames == [proc : {"range", "track", "media"}, end : Int]

Handlers == [at : Nat, video : BOOLEAN]

\* The types.
ParserTypeOK ==
  /\ length \in Nat /\ length <= MaxLong
  /\ parser \in {"loop", "returned", "thrown"}
  /\ position \in Int /\ (parser = "loop" => position \in Nat)
  /\ frames \in Seq(Frames)
  /\ picture \in Nat /\ inTrack \in [picture : Nat, isVideo : BOOLEAN]
  /\ tracks \subseteq [from : Nat, to : Int]
  /\ handlers \in Seq(Handlers)

\* A position the parser does not go back behind: no loop under way ends before it.
Passed(p) ==
  /\ p <= position
  /\ \A i \in 1 .. Len(frames) : frames[i].end >= 0 => p <= frames[i].end

\* The loops under way: ranges in ranges, then perhaps a track, then perhaps its media,
\* each within the one it was called from; only an innermost one may have wrapped around.
FramesNested ==
  /\ Len(frames) > 0
  /\ \A i \in 1 .. Len(frames) :
       /\ frames[i].end <= length
       /\ i < Len(frames) => /\ frames[i].end >= 0 /\ frames[i].proc # "media"
                             /\ (frames[i + 1].proc = "media") = (frames[i].proc = "track")
  /\ frames[1].proc = "range"
  /\ \A i, j \in 1 .. Len(frames) : i < j => frames[j].end <= frames[i].end

\* The last handler seen is in a track, and a video's.
LastIsVideoOf(t) ==
  /\ Len(handlers) > 0 /\ handlers[Len(handlers)].video
  /\ t.from < handlers[Len(handlers)].at /\ handlers[Len(handlers)].at < t.to

\* The trak box ParseTrack is in, and what it has found there.
TrackUnderWay(end) ==
  \E t \in tracks :
    /\ t.to = end /\ Passed(t.from + 1)
    /\ inTrack.picture # picture => t.from < inTrack.picture /\ inTrack.picture < t.to
    /\ inTrack.isVideo => LastIsVideoOf(t)

\* The size reported comes from a video track that the parser has left.
SizeSettled ==
  picture # 0 =>
    \E t \in tracks : t.from < picture /\ picture < t.to /\ IsVideoTrack(t) /\ Passed(t.to)

\* The handlers seen are behind, and a track that is left is not gone back to.
HandlersPassed == \A i \in 1 .. Len(handlers) : Passed(handlers[i].at + 1)

TracksUnderWay ==
  \A k \in 1 .. Len(frames) : frames[k].proc = "track" => TrackUnderWay(frames[k].end)

\* The invariant of the loops, and of the parser.
LoopInv == FramesNested /\ HandlersPassed /\ TracksUnderWay /\ SizeSettled

ParserInv ==
  /\ ParserTypeOK
  /\ parser = "loop" => LoopInv
  /\ SizeOfVideoTrack

\* A box within its loop and the file, or one whose end has wrapped around.
Fits(boxEnd) ==
  /\ boxEnd \in Int /\ boxEnd <= Top.end /\ boxEnd <= length
  /\ boxEnd < 0 \/ position + 8 <= boxEnd
  /\ position + 8 <= Top.end

\* The innermost loop ends first.
LEMMA TopFrame ==
  ASSUME ParserTypeOK, FramesNested
  PROVE  /\ Len(frames) \in Nat \ {0} /\ Top = frames[Len(frames)]
         /\ Len(frames) \in 1 .. Len(frames)
         /\ Top.end \in Int /\ Top.proc \in {"range", "track", "media"}
         /\ \A i \in 1 .. Len(frames) : /\ frames[i].end \in Int
                                        /\ frames[i].proc \in {"range", "track", "media"}
                                        /\ Top.end <= frames[i].end
<1>1. Len(frames) \in Nat \ {0} /\ Len(frames) \in 1 .. Len(frames)
  BY DEF ParserTypeOK, FramesNested
<1>2. \A i \in 1 .. Len(frames) : frames[i] \in Frames
  BY DEF ParserTypeOK
<1>3. \A i \in 1 .. Len(frames) : frames[Len(frames)].end <= frames[i].end
  <2> TAKE i \in 1 .. Len(frames)
  <2>1. CASE i = Len(frames)
    BY <2>1, <1>1, <1>2 DEF Frames
  <2>2. CASE i < Len(frames)
    BY <2>2, <1>1 DEF FramesNested
  <2> QED
    BY <2>1, <2>2, <1>1
<1> QED
  BY <1>1, <1>2, <1>3 DEF Top, Frames

\* Going to the end of a box passes what was passed.
LEMMA SkipMoves ==
  ASSUME ParserTypeOK, parser = "loop", FramesNested, NEW boxEnd, Fits(boxEnd),
         Skip(boxEnd), length' = length
  PROVE  /\ position' \in Int /\ parser' \in {"loop", "thrown"} /\ frames' = frames
         /\ parser' = "loop" => position' \in Nat /\ FramesNested'
         /\ parser' = "loop" => \A p \in Int : Passed(p) => Passed(p)'
<1>1. /\ position' = boxEnd /\ frames' = frames
      /\ parser' = IF boxEnd < 0 THEN "thrown" ELSE "loop"
  BY DEF Skip, Seek
<1>2. position \in Nat /\ boxEnd \in Int
  BY DEF ParserTypeOK, Fits
<1>3. ASSUME parser' = "loop" PROVE position + 8 <= position' /\ position' \in Nat
  BY <1>1, <1>2, <1>3 DEF Fits
<1>4. FramesNested'
  BY <1>1 DEF FramesNested
<1>5. ASSUME parser' = "loop", NEW p \in Int, Passed(p) PROVE Passed(p)'
  BY <1>1, <1>2, <1>3, <1>5 DEF Passed
<1> QED
  BY <1>1, <1>2, <1>3, <1>4, <1>5

\* Entering a box passes what was passed, and nests.
LEMMA CallMoves ==
  ASSUME ParserTypeOK, parser = "loop", FramesNested, NEW boxEnd, Fits(boxEnd),
         NEW proc \in {"range", "track", "media"}, NEW header \in {8, 16},
         Top.proc # "media", (proc = "media") = (Top.proc = "track"),
         Call(proc, header, boxEnd), length' = length
  PROVE  /\ position' = position + header /\ position' \in Nat /\ parser' = "loop"
         /\ frames' \in Seq(Frames)
         /\ Len(frames') = Len(frames) + 1 /\ frames'[Len(frames) + 1] = Frame(proc, boxEnd)
         /\ \A i \in 1 .. Len(frames) : frames'[i] = frames[i]
         /\ FramesNested'
         /\ \A p \in Int : Passed(p) => Passed(p)'
<1> DEFINE F == Frame(proc, boxEnd)
<1>1. F \in Frames /\ F.proc = proc /\ F.end = boxEnd
  BY DEF Frame, Frames, Fits
<1>2. frames' = Append(frames, F) /\ position' = position + header /\ parser' = "loop"
  BY DEF Call
<1> HIDE DEF F
<1>3. /\ frames' \in Seq(Frames)
      /\ Len(frames') = Len(frames) + 1 /\ frames'[Len(frames) + 1] = F
      /\ \A i \in 1 .. Len(frames) : frames'[i] = frames[i]
  BY <1>1, <1>2 DEF ParserTypeOK
<1>4. position \in Nat /\ position' \in Nat
  BY <1>2 DEF ParserTypeOK
<1>5. \A i \in 1 .. Len(frames') : i \in 1 .. Len(frames) \/ i = Len(frames) + 1
  BY <1>3, TopFrame
<1>6. /\ Len(frames) \in Nat \ {0} /\ Top = frames[Len(frames)] /\ Top.end \in Int
      /\ \A i \in 1 .. Len(frames) : frames[i].end \in Int /\ Top.end <= frames[i].end
      /\ boxEnd \in Int /\ boxEnd <= Top.end /\ boxEnd <= length /\ length \in Nat
      /\ position + 8 <= Top.end
  BY TopFrame DEF Fits, ParserTypeOK
<1>7. FramesNested'
  <2>1. Len(frames') > 0 /\ frames'[1].proc = "range"
    BY <1>3, <1>6 DEF FramesNested
  <2>2. ASSUME NEW i \in 1 .. Len(frames')
        PROVE  /\ frames'[i].end <= length'
               /\ i < Len(frames') =>
                    /\ frames'[i].end >= 0 /\ frames'[i].proc # "media"
                    /\ (frames'[i + 1].proc = "media") = (frames'[i].proc = "track")
    <3>1. CASE i = Len(frames) + 1
      BY <3>1, <1>1, <1>3, <1>6
    <3>2. CASE i \in 1 .. Len(frames) /\ i < Len(frames)
      <4>1. i + 1 \in 1 .. Len(frames)
        BY <3>2, <1>6
      <4>2. frames'[i] = frames[i] /\ frames'[i + 1] = frames[i + 1]
        BY <4>1, <3>2, <1>3
      <4> QED
        BY <4>2, <3>2 DEF FramesNested
    <3>3. CASE i = Len(frames)
      <4>1. frames'[i] = Top /\ frames'[i + 1] = F /\ Top.end >= 0 /\ Top.end <= length
        BY <3>3, <1>3, <1>4, <1>6 DEF FramesNested
      <4> QED
        BY <4>1, <1>1
    <3> QED
      BY <3>1, <3>2, <3>3, <1>5, <1>6
  <2>3. ASSUME NEW i \in 1 .. Len(frames'), NEW j \in 1 .. Len(frames'), i < j
        PROVE  frames'[j].end <= frames'[i].end
    <3>1. i \in 1 .. Len(frames) /\ frames'[i] = frames[i]
      BY <2>3, <1>3, <1>5, <1>6
    <3>2. CASE j = Len(frames) + 1
      BY <3>1, <3>2, <1>1, <1>3, <1>6
    <3>3. CASE j \in 1 .. Len(frames)
      BY <3>1, <3>3, <2>3, <1>3 DEF FramesNested
    <3> QED
      BY <3>2, <3>3, <1>5
  <2> QED
    BY <2>1, <2>2, <2>3 DEF FramesNested
<1>8. ASSUME NEW p \in Int, Passed(p) PROVE Passed(p)'
  <2>1. p <= position'
    BY <1>8, <1>2, <1>4 DEF Passed
  <2>2. ASSUME NEW i \in 1 .. Len(frames'), frames'[i].end >= 0 PROVE p <= frames'[i].end
    <3>1. CASE i \in 1 .. Len(frames)
      BY <3>1, <2>2, <1>3, <1>8 DEF Passed
    <3>2. CASE i = Len(frames) + 1
      BY <3>2, <2>2, <1>1, <1>3, <1>4, <1>6, <1>8 DEF Passed, Fits
    <3> QED
      BY <3>1, <3>2, <1>5
  <2> QED
    BY <2>1, <2>2 DEF Passed
<1> QED
  BY <1>2, <1>3, <1>4, <1>7, <1>8 DEF F

\* Handlers decide what a track is.
LEMMA VideoKept ==
  ASSUME NEW t, handlers' = handlers
  PROVE  IsVideoTrack(t) => IsVideoTrack(t)'
BY DEF IsVideoTrack

\* A handler behind a track does not change what the track is.
LEMMA VideoStays ==
  ASSUME NEW t \in [from : Nat, to : Int], NEW h \in Handlers, handlers \in Seq(Handlers),
         handlers' = Append(handlers, h), t.to <= h.at, IsVideoTrack(t)
  PROVE  IsVideoTrack(t)'
<1>1. /\ Len(handlers) \in Nat /\ DOMAIN handlers = 1 .. Len(handlers)
      /\ DOMAIN handlers' = 1 .. Len(handlers) + 1 /\ handlers'[Len(handlers) + 1] = h
      /\ \A i \in 1 .. Len(handlers) : handlers'[i] = handlers[i]
  OBVIOUS
<1>2. PICK i \in DOMAIN handlers :
        /\ t.from < handlers[i].at /\ handlers[i].at < t.to /\ handlers[i].video
        /\ \A j \in DOMAIN handlers :
             t.from < handlers[j].at /\ handlers[j].at < t.to => j <= i
  BY DEF IsVideoTrack
<1>3. i \in DOMAIN handlers' /\ handlers'[i] = handlers[i]
  BY <1>1
<1>4. ASSUME NEW j \in DOMAIN handlers', t.from < handlers'[j].at, handlers'[j].at < t.to
      PROVE  j <= i
  <2>1. h.at \in Nat /\ t.to \in Int
    BY DEF Handlers
  <2>2. j # Len(handlers) + 1
    BY <2>1, <1>1, <1>4
  <2>3. j \in DOMAIN handlers /\ handlers'[j] = handlers[j]
    BY <2>2, <1>1
  <2> QED
    BY <2>3, <1>2, <1>4
<1> QED
  BY <1>2, <1>3, <1>4 DEF IsVideoTrack

\* The last handler of all is the last one of its track.
LEMMA LastGivesVideo ==
  ASSUME NEW t, handlers \in Seq(Handlers), LastIsVideoOf(t)
  PROVE  IsVideoTrack(t)
<1>1. /\ Len(handlers) \in DOMAIN handlers
      /\ \A j \in DOMAIN handlers : j <= Len(handlers)
  BY DEF LastIsVideoOf
<1> QED
  BY <1>1 DEF IsVideoTrack, LastIsVideoOf

\* What is left of the invariant when the parser goes on behind a box.
LEMMA GoesOn ==
  ASSUME ParserInv, parser = "loop", ParserTypeOK',
         picture' = picture, tracks \subseteq tracks',
         \A t \in tracks : IsVideoTrack(t) /\ Passed(t.to) => IsVideoTrack(t)',
         parser' = "loop" => /\ FramesNested' /\ HandlersPassed' /\ TracksUnderWay'
                             /\ \A p \in Int : Passed(p) => Passed(p)'
  PROVE  ParserInv'
<1>1. ASSUME picture # 0
      PROVE  \E t \in tracks : /\ t.from < picture /\ picture < t.to /\ IsVideoTrack(t)'
                               /\ Passed(t.to) /\ t.to \in Int
  <2>1. PICK t \in tracks :
          t.from < picture /\ picture < t.to /\ IsVideoTrack(t) /\ Passed(t.to)
    BY <1>1 DEF ParserInv, LoopInv, SizeSettled
  <2>2. t.to \in Int
    BY DEF ParserInv, ParserTypeOK
  <2> QED
    BY <2>1, <2>2
<1>2. SizeOfVideoTrack'
  BY <1>1 DEF SizeOfVideoTrack
<1>3. ASSUME parser' = "loop", picture # 0 PROVE SizeSettled'
  <2>1. PICK t \in tracks : /\ t.from < picture /\ picture < t.to /\ IsVideoTrack(t)'
                            /\ Passed(t.to) /\ t.to \in Int
    BY <1>1, <1>3
  <2>2. Passed(t.to)'
    BY <2>1, <1>3
  <2> QED
    BY <2>1, <2>2 DEF SizeSettled
<1>4. picture = 0 => SizeSettled'
  BY DEF SizeSettled
<1> QED
  BY <1>2, <1>3, <1>4 DEF ParserInv, LoopInv

\* Handlers that are behind stay behind.
LEMMA HandlersStay ==
  ASSUME handlers' = handlers, ParserTypeOK, HandlersPassed,
         \A p \in Int : Passed(p) => Passed(p)'
  PROVE  HandlersPassed'
<1>1. ASSUME NEW i \in 1 .. Len(handlers)
      PROVE  handlers[i].at + 1 \in Int /\ Passed(handlers[i].at + 1)
  <2>1. handlers[i] \in Handlers
    BY DEF ParserTypeOK
  <2> QED
    BY <2>1 DEF Handlers, HandlersPassed
<1>2. ASSUME NEW i \in 1 .. Len(handlers) PROVE Passed(handlers[i].at + 1)'
  <2>1. PICK p : p = handlers[i].at + 1
    OBVIOUS
  <2>2. Passed(p)'
    BY <2>1, <1>1
  <2>3. p = handlers'[i].at + 1
    BY <2>1
  <2> QED
    BY <2>2, <2>3
<1> QED
  BY <1>2 DEF HandlersPassed

\* What is known of the track under way stays, where nothing is read in it.
LEMMA TrackKept ==
  ASSUME NEW end, TrackUnderWay(end), ParserTypeOK, tracks \subseteq tracks',
         inTrack' = inTrack, picture' = picture, handlers' = handlers,
         \A p \in Int : Passed(p) => Passed(p)'
  PROVE  TrackUnderWay(end)'
<1>1. PICK t \in tracks :
        /\ t.to = end /\ Passed(t.from + 1)
        /\ inTrack.picture # picture => t.from < inTrack.picture /\ inTrack.picture < t.to
        /\ inTrack.isVideo => LastIsVideoOf(t)
  BY DEF TrackUnderWay
<1>2. t.from + 1 \in Int
  BY DEF ParserTypeOK
<1>3. Passed(t.from + 1)'
  BY <1>1, <1>2
<1>4. LastIsVideoOf(t) => LastIsVideoOf(t)'
  BY DEF LastIsVideoOf
<1> QED
  BY <1>1, <1>3, <1>4 DEF TrackUnderWay

\* The track under way stays when the innermost frames change otherwise.
LEMMA TracksKept ==
  ASSUME TracksUnderWay, ParserTypeOK, tracks \subseteq tracks',
         inTrack' = inTrack, picture' = picture, handlers' = handlers,
         \A p \in Int : Passed(p) => Passed(p)',
         \A k \in 1 .. Len(frames') : frames'[k].proc = "track" =>
           k \in 1 .. Len(frames) /\ frames'[k] = frames[k]
  PROVE  TracksUnderWay'
<1>1. ASSUME NEW k \in 1 .. Len(frames'), frames'[k].proc = "track"
      PROVE  TrackUnderWay(frames[k].end)' /\ frames'[k] = frames[k]
  <2>1. PICK end : end = frames[k].end
    OBVIOUS
  <2>2. k \in 1 .. Len(frames) /\ frames'[k] = frames[k] /\ TrackUnderWay(end)
    BY <1>1, <2>1 DEF TracksUnderWay
  <2>3. TrackUnderWay(end)'
    BY <2>2, TrackKept
  <2>4. end = frames'[k].end
    BY <2>1, <2>2
  <2> QED
    BY <2>2, <2>3, <2>4
<1> QED
  BY <1>1 DEF TracksUnderWay

\* A box that is skipped.
LEMMA SkippedKept ==
  ASSUME ParserInv, parser = "loop", NEW boxEnd, Fits(boxEnd), Skip(boxEnd),
         UNCHANGED <<length, picture, inTrack, tracks, handlers>>
  PROVE  ParserInv'
<1>1. ParserTypeOK /\ FramesNested /\ HandlersPassed /\ TracksUnderWay
  BY DEF ParserInv, LoopInv
<1>2. /\ position' \in Int /\ parser' \in {"loop", "thrown"} /\ frames' = frames
      /\ parser' = "loop" => position' \in Nat /\ FramesNested'
      /\ parser' = "loop" => \A p \in Int : Passed(p) => Passed(p)'
  BY <1>1, SkipMoves
<1>3. ParserTypeOK'
  BY <1>1, <1>2 DEF ParserTypeOK
<1>4. \A t \in tracks : IsVideoTrack(t) => IsVideoTrack(t)'
  BY VideoKept
<1>5. parser' = "loop" => HandlersPassed'
  BY <1>1, <1>2, HandlersStay
<1>6. parser' = "loop" => TracksUnderWay'
  BY <1>1, <1>2, TracksKept
<1> QED
  BY <1>2, <1>3, <1>4, <1>5, <1>6, GoesOn

\* A box that is entered and no trak box.
LEMMA EnteredKept ==
  ASSUME ParserInv, parser = "loop", NEW boxEnd, Fits(boxEnd),
         NEW header \in {8, 16}, NEW proc \in {"range", "media"},
         Top.proc # "media", (proc = "media") = (Top.proc = "track"),
         Call(proc, header, boxEnd),
         UNCHANGED <<length, picture, inTrack, tracks, handlers>>
  PROVE  ParserInv'
<1>1. ParserTypeOK /\ FramesNested /\ HandlersPassed /\ TracksUnderWay
  BY DEF ParserInv, LoopInv
<1>2. /\ position' \in Nat /\ parser' = "loop" /\ frames' \in Seq(Frames)
      /\ Len(frames') = Len(frames) + 1 /\ frames'[Len(frames) + 1] = Frame(proc, boxEnd)
      /\ \A i \in 1 .. Len(frames) : frames'[i] = frames[i]
      /\ FramesNested' /\ \A p \in Int : Passed(p) => Passed(p)'
  BY <1>1, CallMoves
<1>3. ParserTypeOK'
  BY <1>1, <1>2 DEF ParserTypeOK
<1>4. \A t \in tracks : IsVideoTrack(t) => IsVideoTrack(t)'
  BY VideoKept
<1>5. HandlersPassed'
  BY <1>1, <1>2, HandlersStay
<1>6. ASSUME NEW k \in 1 .. Len(frames'), frames'[k].proc = "track"
      PROVE  k \in 1 .. Len(frames) /\ frames'[k] = frames[k]
  <2>1. k # Len(frames) + 1
    BY <1>2, <1>6 DEF Frame
  <2> QED
    BY <2>1, <1>2, <1>1, TopFrame
<1>7. TracksUnderWay'
  BY <1>1, <1>2, <1>6, TracksKept
<1> QED
  BY <1>2, <1>3, <1>4, <1>5, <1>7, GoesOn

\* There is at most one track under way, with at most its media inside.
LEMMA OneTrack ==
  ASSUME ParserTypeOK, FramesNested
  PROVE  /\ \A k \in 1 .. Len(frames) : frames[k].proc = "track" =>
              \/ k = Len(frames) /\ Top.proc = "track"
              \/ k = Len(frames) - 1 /\ Top.proc = "media"
         /\ Top.proc = "media" => /\ Len(frames) - 1 \in 1 .. Len(frames)
                                  /\ frames[Len(frames) - 1].proc = "track"
<1>1. Len(frames) \in Nat \ {0} /\ Top = frames[Len(frames)]
  BY TopFrame
<1>2. ASSUME NEW k \in 1 .. Len(frames), frames[k].proc = "track", k # Len(frames)
      PROVE  k = Len(frames) - 1 /\ Top.proc = "media"
  <2>1. k < Len(frames) /\ k + 1 \in 1 .. Len(frames)
    BY <1>1, <1>2
  <2>2. frames[k + 1].proc = "media"
    BY <2>1, <1>2 DEF FramesNested
  <2>3. ~(k + 1 < Len(frames))
    BY <2>1, <2>2 DEF FramesNested
  <2> QED
    BY <2>1, <2>2, <2>3, <1>1
<1>3. ASSUME Top.proc = "media"
      PROVE  Len(frames) - 1 \in 1 .. Len(frames) /\ frames[Len(frames) - 1].proc = "track"
  <2>1. Len(frames) # 1
    BY <1>1, <1>3 DEF FramesNested
  <2>2. PICK k \in 1 .. Len(frames) : k = Len(frames) - 1 /\ k < Len(frames)
    <3>1. Len(frames) - 1 \in 1 .. Len(frames) /\ Len(frames) - 1 < Len(frames)
      BY <1>1, <2>1
    <3> QED BY <3>1
  <2>3. k + 1 = Len(frames)
    BY <2>2, <1>1
  <2>4. (frames[k + 1].proc = "media") = (frames[k].proc = "track")
    BY <2>2 DEF FramesNested
  <2> QED
    BY <2>2, <2>3, <2>4, <1>1, <1>3
<1> QED
  BY <1>1, <1>2, <1>3

\* A box whose end did not wrap around ends behind the position.
LEMMA BoxPastPosition ==
  ASSUME ParserTypeOK, NEW boxEnd, Fits(boxEnd), boxEnd >= 0
  PROVE  position + 1 <= boxEnd
  BY DEF ParserTypeOK, Fits

\* A trak box is entered: a new track is under way.
LEMMA TrakKept ==
  ASSUME ParserInv, parser = "loop", NEW boxEnd, Fits(boxEnd), NEW header \in {8, 16},
         Top.proc = "range", Call("track", header, boxEnd),
         inTrack' = [picture |-> picture, isVideo |-> FALSE],
         tracks' = tracks \cup {[from |-> position, to |-> boxEnd]},
         UNCHANGED <<length, picture, handlers>>
  PROVE  ParserInv'
<1>1. ParserTypeOK /\ FramesNested /\ HandlersPassed /\ TracksUnderWay
  BY DEF ParserInv, LoopInv
<1>2. /\ position' = position + header /\ position' \in Nat /\ parser' = "loop"
      /\ frames' \in Seq(Frames)
      /\ Len(frames') = Len(frames) + 1 /\ frames'[Len(frames) + 1] = Frame("track", boxEnd)
      /\ \A i \in 1 .. Len(frames) : frames'[i] = frames[i]
      /\ FramesNested' /\ \A p \in Int : Passed(p) => Passed(p)'
  BY <1>1, CallMoves
<1> PICK t0 : t0 = [from |-> position, to |-> boxEnd]
  OBVIOUS
<1>3. t0 \in [from : Nat, to : Int] /\ t0.from = position /\ t0.to = boxEnd
  BY <1>1 DEF ParserTypeOK, Fits
<1>4. tracks' = tracks \cup {t0}
  OBVIOUS
<1>5. inTrack' \in [picture : Nat, isVideo : BOOLEAN]
      /\ inTrack'.picture = picture' /\ inTrack'.isVideo = FALSE
  BY <1>1 DEF ParserTypeOK
<1>6. ParserTypeOK'
  BY <1>1, <1>2, <1>3, <1>4, <1>5 DEF ParserTypeOK
<1>7. \A t \in tracks : IsVideoTrack(t) => IsVideoTrack(t)'
  BY VideoKept
<1>8. HandlersPassed'
  BY <1>1, <1>2, HandlersStay
<1>9. ASSUME NEW p, p = position + 1 PROVE Passed(p)'
  <2>1. position \in Nat /\ p <= position'
    BY <1>1, <1>2, <1>9 DEF ParserTypeOK
  <2>2. ASSUME NEW i \in 1 .. Len(frames'), frames'[i].end >= 0 PROVE p <= frames'[i].end
    <3>1. CASE i \in 1 .. Len(frames)
      BY <3>1, <2>1, <1>1, <1>2, <1>9, TopFrame, SMTT(30) DEF Fits
    <3>2. CASE i = Len(frames) + 1
      <4>1. frames'[i].end = boxEnd /\ boxEnd >= 0
        BY <3>2, <2>2, <1>2 DEF Frame
      <4> QED
        BY <4>1, <1>1, <1>9, BoxPastPosition
    <3> QED
      BY <3>1, <3>2, <1>1, <1>2, TopFrame
  <2> QED
    BY <2>1, <2>2 DEF Passed
<1>10. ASSUME NEW k \in 1 .. Len(frames'), frames'[k].proc = "track"
       PROVE  k = Len(frames) + 1
  <2>1. CASE k \in 1 .. Len(frames)
    <3>1. frames[k].proc = "track"
      BY <2>1, <1>10, <1>2
    <3> QED
      BY <3>1, <2>1, <1>1, OneTrack
  <2> QED
    BY <2>1, <1>1, <1>2, TopFrame
<1>11. TrackUnderWay(boxEnd)'
  <2>1. t0 \in tracks' /\ Passed(t0.from + 1)'
    BY <1>3, <1>4, <1>9
  <2> QED
    BY <2>1, <1>3, <1>5 DEF TrackUnderWay
<1>12. TracksUnderWay'
  BY <1>2, <1>10, <1>11 DEF TracksUnderWay, Frame
<1> QED
  BY <1>2, <1>4, <1>6, <1>7, <1>8, <1>12, GoesOn

\* A box at the position lies within the track that a loop is in.
LEMMA BoxInTrack ==
  ASSUME ParserTypeOK, FramesNested, NEW boxEnd, Fits(boxEnd), NEW t \in tracks,
         NEW end \in Int, t.to = end, Top.end <= end, Passed(t.from + 1)
  PROVE  t.from < position /\ position < t.to
<1>1. t.from \in Nat /\ position \in Int /\ Top.end \in Int
  BY TopFrame DEF ParserTypeOK
<1>2. t.from + 1 <= position
  BY DEF Passed
<1>3. position + 8 <= Top.end
  BY DEF Fits
<1> QED
  BY <1>1, <1>2, <1>3

\* A tkhd box in a track gives its size.
LEMMA TkhdKept ==
  ASSUME ParserInv, parser = "loop", NEW boxEnd, Fits(boxEnd), Skip(boxEnd),
         Top.proc = "track", inTrack' = [inTrack EXCEPT !.picture = position],
         UNCHANGED <<length, picture, tracks, handlers>>
  PROVE  ParserInv'
<1>1. ParserTypeOK /\ FramesNested /\ HandlersPassed /\ TracksUnderWay
  BY DEF ParserInv, LoopInv
<1>2. /\ position' \in Int /\ parser' \in {"loop", "thrown"} /\ frames' = frames
      /\ parser' = "loop" => position' \in Nat /\ FramesNested'
      /\ parser' = "loop" => \A p \in Int : Passed(p) => Passed(p)'
  BY <1>1, SkipMoves
<1>3. /\ inTrack' \in [picture : Nat, isVideo : BOOLEAN] /\ position \in Nat
      /\ inTrack'.picture = position /\ inTrack'.isVideo = inTrack.isVideo
  BY <1>1 DEF ParserTypeOK
<1>4. ParserTypeOK'
  BY <1>1, <1>2, <1>3 DEF ParserTypeOK
<1>5. \A t \in tracks : IsVideoTrack(t) => IsVideoTrack(t)'
  BY VideoKept
<1>6. parser' = "loop" => HandlersPassed'
  BY <1>1, <1>2, HandlersStay
<1>7. ASSUME parser' = "loop" PROVE TracksUnderWay'
  <2>1. PICK end : end = Top.end
    OBVIOUS
  <2>2. TrackUnderWay(end)
    BY <2>1, <1>1, TopFrame DEF TracksUnderWay
  <2>3. PICK t \in tracks :
          /\ t.to = end /\ Passed(t.from + 1) /\ (inTrack.isVideo => LastIsVideoOf(t))
    BY <2>2 DEF TrackUnderWay
  <2>4. t.from \in Nat /\ t.from + 1 \in Int
    BY <1>1 DEF ParserTypeOK
  <2>5. t.from < position /\ position < t.to
    <3>1. Top.end \in Int /\ Top.end <= end /\ end \in Int
      BY <2>1, <1>1, TopFrame
    <3> QED
      BY <3>1, <2>3, <1>1, BoxInTrack
  <2>6. Passed(t.from + 1)' /\ (LastIsVideoOf(t) => LastIsVideoOf(t)')
    BY <2>3, <2>4, <1>2, <1>7 DEF LastIsVideoOf
  <2>7. TrackUnderWay(end)'
    BY <2>3, <2>5, <2>6, <1>3 DEF TrackUnderWay
  <2>8. ASSUME NEW k \in 1 .. Len(frames), frames[k].proc = "track" PROVE frames'[k].end = end
    BY <2>1, <2>8, <1>1, <1>2, OneTrack, TopFrame
  <2> QED
    BY <2>7, <2>8, <1>2 DEF TracksUnderWay
<1> QED
  BY <1>2, <1>4, <1>5, <1>6, <1>7, GoesOn

\* A hdlr box in a track's media decides what the track is, until the next one.
LEMMA HdlrKept ==
  ASSUME ParserInv, parser = "loop", NEW boxEnd, Fits(boxEnd), Skip(boxEnd),
         Top.proc = "media", NEW video \in BOOLEAN,
         inTrack' = [inTrack EXCEPT !.isVideo = video],
         handlers' = Append(handlers, [at |-> position, video |-> video]),
         UNCHANGED <<length, picture, tracks>>
  PROVE  ParserInv'
<1>1. ParserTypeOK /\ FramesNested /\ HandlersPassed /\ TracksUnderWay
  BY DEF ParserInv, LoopInv
<1>2. /\ position' \in Int /\ parser' \in {"loop", "thrown"} /\ frames' = frames
      /\ parser' = "loop" => position' \in Nat /\ FramesNested'
      /\ parser' = "loop" => \A p \in Int : Passed(p) => Passed(p)'
  BY <1>1, SkipMoves
<1>3. /\ inTrack' \in [picture : Nat, isVideo : BOOLEAN] /\ position \in Nat
      /\ inTrack'.picture = inTrack.picture /\ inTrack'.isVideo = video
  BY <1>1 DEF ParserTypeOK
<1> PICK h : h = [at |-> position, video |-> video]
  OBVIOUS
<1>4. h \in Handlers /\ h.at = position /\ h.video = video
  BY <1>3 DEF Handlers
<1>5. /\ handlers \in Seq(Handlers) /\ handlers' = Append(handlers, h)
      /\ handlers' \in Seq(Handlers) /\ Len(handlers) \in Nat
      /\ Len(handlers') = Len(handlers) + 1 /\ handlers'[Len(handlers) + 1] = h
      /\ \A i \in 1 .. Len(handlers) : handlers'[i] = handlers[i]
  BY <1>1, <1>4 DEF ParserTypeOK
<1>6. ParserTypeOK'
  BY <1>1, <1>2, <1>3, <1>5 DEF ParserTypeOK
<1>7. ASSUME NEW t \in tracks, IsVideoTrack(t), Passed(t.to) PROVE IsVideoTrack(t)'
  <2>1. t \in [from : Nat, to : Int] /\ t.to <= h.at
    BY <1>1, <1>4, <1>7 DEF ParserTypeOK, Passed
  <2> QED
    BY <2>1, <1>4, <1>5, <1>7, VideoStays
<1>8. ASSUME parser' = "loop" PROVE HandlersPassed'
  <2>1. ASSUME NEW p, p = position + 1 PROVE Passed(p)'
    <3>1. p <= position'
      BY <2>1, <1>3, <1>8 DEF Skip, Seek, Fits
    <3>2. ASSUME NEW i \in 1 .. Len(frames) PROVE p <= frames[i].end
      BY <2>1, <1>1, <1>3, TopFrame DEF Fits
    <3> QED
      BY <3>1, <3>2, <1>2 DEF Passed
  <2>2. ASSUME NEW i \in 1 .. Len(handlers') PROVE Passed(handlers[i].at + 1)'
    <3>1. CASE i = Len(handlers) + 1
      BY <3>1, <2>1, <1>4, <1>5
    <3>2. CASE i \in 1 .. Len(handlers)
      <4>1. PICK p : p = handlers[i].at + 1
        OBVIOUS
      <4>2. handlers[i] \in Handlers /\ Passed(p) /\ p = handlers'[i].at + 1
        BY <4>1, <3>2, <1>1, <1>5 DEF HandlersPassed
      <4>3. p \in Int
        BY <4>1, <4>2 DEF Handlers
      <4>4. Passed(p)'
        BY <4>2, <4>3, <1>2, <1>8
      <4> QED
        BY <4>2, <4>4
    <3> QED
      BY <3>1, <3>2, <1>5
  <2> QED
    BY <2>2 DEF HandlersPassed
<1>9. ASSUME parser' = "loop" PROVE TracksUnderWay'
  <2> PICK m : m = Len(frames) - 1
    OBVIOUS
  <2> PICK end : end = frames[m].end
    OBVIOUS
  <2>1. m \in 1 .. Len(frames) /\ frames[m].proc = "track" /\ end \in Int /\ Top.end <= end
    BY <1>1, OneTrack, TopFrame
  <2>2. TrackUnderWay(end)
    BY <2>1, <1>1 DEF TracksUnderWay
  <2>3. PICK t \in tracks :
          /\ t.to = end /\ Passed(t.from + 1)
          /\ inTrack.picture # picture => t.from < inTrack.picture /\ inTrack.picture < t.to
    BY <2>2 DEF TrackUnderWay
  <2>4. t.from \in Nat /\ t.from + 1 \in Int
    BY <1>1 DEF ParserTypeOK
  <2>5. t.from < position /\ position < t.to
    BY <2>1, <2>3, <1>1, BoxInTrack
  <2>6. video => LastIsVideoOf(t)'
    BY <2>5, <1>4, <1>5 DEF LastIsVideoOf
  <2>7. Passed(t.from + 1)'
    BY <2>3, <2>4, <1>2, <1>9
  <2>8. TrackUnderWay(end)'
    BY <2>3, <2>6, <2>7, <1>3 DEF TrackUnderWay
  <2>9. ASSUME NEW k \in 1 .. Len(frames), frames[k].proc = "track" PROVE frames'[k].end = end
    BY <2>9, <1>1, <1>2, OneTrack
  <2> QED
    BY <2>8, <2>9, <1>2 DEF TracksUnderWay
<1> QED
  BY <1>2, <1>6, <1>7, <1>8, <1>9, GoesOn

\* The end of a loop that another one called.
LEMMA LeaveKept ==
  ASSUME ParserInv, parser = "loop", Leave
  PROVE  ParserInv'
<1>1. ParserTypeOK /\ FramesNested /\ HandlersPassed /\ TracksUnderWay /\ SizeSettled
  BY DEF ParserInv, LoopInv
<1>2. UNCHANGED <<length, inTrack, tracks, handlers>>
  BY DEF Leave, history
<1> PICK n : n = Len(frames)
  OBVIOUS
<1>3. /\ n \in Nat \ {0} /\ Len(frames) = n /\ Top = frames[n] /\ n \in 1 .. n
      /\ Top.end \in Int /\ Top.proc \in {"range", "track", "media"}
      /\ \A i \in 1 .. n : frames[i].end \in Int /\ Top.end <= frames[i].end
  BY <1>1, TopFrame
<1>4. /\ frames' \in Seq(Frames) /\ Len(frames') = n - 1
      /\ \A i \in 1 .. n - 1 : frames'[i] = frames[i]
  BY <1>1, <1>3 DEF Leave, ParserTypeOK
<1>5. \A t \in tracks : IsVideoTrack(t) => IsVideoTrack(t)'
  BY <1>2, VideoKept
<1>6. CASE n = 1
  <2>1. parser' = "returned" /\ position' = position /\ picture' = picture
    BY <1>3, <1>6 DEF Leave
  <2>2. ParserTypeOK'
    BY <2>1, <1>1, <1>2, <1>4 DEF ParserTypeOK
  <2> QED
    BY <2>1, <2>2, <1>2, <1>5, GoesOn
<1>7. CASE n # 1
  <2>1. /\ position' = Top.end /\ parser' = (IF Top.end < 0 THEN "thrown" ELSE "loop")
        /\ picture' = IF Top.proc = "track" /\ inTrack.isVideo THEN inTrack.picture ELSE picture
    BY <1>3, <1>7 DEF Leave, Seek, Commit
  <2>2. ParserTypeOK'
    BY <2>1, <1>1, <1>2, <1>3, <1>4 DEF ParserTypeOK
  <2>3. ASSUME parser' = "loop", NEW p \in Int, Passed(p) PROVE Passed(p)'
    <3>1. Top.end >= 0 /\ p <= Top.end
      BY <2>1, <2>3, <1>3 DEF Passed
    <3> QED
      BY <3>1, <2>1, <1>3, <1>4 DEF Passed
  <2>4. FramesNested'
    <3>1. \A i \in 1 .. n - 1 : i \in 1 .. n /\ (i < n - 1 => i + 1 \in 1 .. n - 1)
      BY <1>3
    <3>2. Len(frames') > 0 /\ 1 \in 1 .. n - 1
      BY <1>3, <1>4, <1>7
    <3>3. ASSUME NEW i \in 1 .. n - 1
          PROVE  /\ frames'[i].end <= length'
                 /\ i < n - 1 =>
                      /\ frames'[i].end >= 0 /\ frames'[i].proc # "media"
                      /\ (frames'[i + 1].proc = "media") = (frames'[i].proc = "track")
      <4>1. i \in 1 .. Len(frames) /\ i < Len(frames) /\ frames'[i] = frames[i]
        BY <3>1, <1>3, <1>4
      <4>2. i < n - 1 => frames'[i + 1] = frames[i + 1]
        BY <3>1, <1>4
      <4> QED
        BY <4>1, <4>2, <1>1, <1>2 DEF FramesNested
    <3>4. ASSUME NEW i \in 1 .. n - 1, NEW j \in 1 .. n - 1, i < j
          PROVE  frames'[j].end <= frames'[i].end
      BY <3>1, <3>4, <1>1, <1>3, <1>4 DEF FramesNested
    <3>5. frames'[1].proc = "range"
      BY <3>2, <1>1, <1>4 DEF FramesNested
    <3> QED
      BY <3>2, <3>3, <3>4, <3>5, <1>4 DEF FramesNested
  <2>5. parser' = "loop" => HandlersPassed'
    BY <2>3, <1>1, <1>2, HandlersStay
  <2>6. \A k \in 1 .. Len(frames') : frames'[k].proc = "track" =>
          k \in 1 .. n /\ frames'[k] = frames[k] /\ Top.proc = "media"
    <3> TAKE k \in 1 .. Len(frames')
    <3>1. k \in 1 .. n /\ k # n /\ frames'[k] = frames[k]
      BY <1>3, <1>4
    <3> QED
      BY <3>1, <1>1, <1>3, OneTrack
  <2>7. CASE picture' = picture
    <3>1. parser' = "loop" => TracksUnderWay'
      BY <2>3, <2>6, <2>7, <1>1, <1>2, <1>3, TracksKept
    <3> QED
      BY <3>1, <2>2, <2>3, <2>4, <2>5, <2>7, <1>2, <1>5, GoesOn
  <2>8. CASE picture' # picture
    <3>1. Top.proc = "track" /\ inTrack.isVideo /\ picture' = inTrack.picture
      BY <2>1, <2>8
    <3> PICK end : end = Top.end
      OBVIOUS
    <3>2. TrackUnderWay(end)
      BY <3>1, <1>1, <1>3 DEF TracksUnderWay
    <3>3. PICK t \in tracks :
            t.to = end /\ t.from < picture' /\ picture' < t.to /\ LastIsVideoOf(t)
      BY <3>1, <3>2, <2>8 DEF TrackUnderWay
    <3>4. IsVideoTrack(t)'
      BY <3>3, <1>1, <1>5, LastGivesVideo DEF ParserTypeOK
    <3>5. parser' = "loop"
      <4>1. handlers[Len(handlers)] \in Handlers
        BY <3>3, <1>1 DEF LastIsVideoOf, ParserTypeOK
      <4> QED
        BY <4>1, <3>3, <2>1, <1>3 DEF LastIsVideoOf, Handlers
    <3>6. Passed(t.to)'
      BY <3>3, <2>1, <1>3, <1>4 DEF Passed
    <3>7. SizeSettled' /\ SizeOfVideoTrack'
      BY <3>3, <3>4, <3>6, <1>2 DEF SizeSettled, SizeOfVideoTrack
    <3>8. TracksUnderWay'
      BY <3>1, <2>6 DEF TracksUnderWay
    <3> QED
      BY <3>5, <3>7, <3>8, <2>2, <2>4, <2>5 DEF ParserInv, LoopInv
  <2> QED
    BY <2>7, <2>8
<1> QED
  BY <1>6, <1>7

\* The end of a box that is large enough and ends in its loop and in the file.
LEMMA BoxFits ==
  ASSUME ParserInv, parser = "loop", NEW payload \in Int, payload <= MaxLong,
         ~TooSmall(payload), position + 8 <= Top.end,
         BoxEnd(payload) <= Top.end, BoxEnd(payload) <= length
  PROVE  Fits(BoxEnd(payload))
<1>1. position \in Nat /\ length \in Nat /\ Top.end \in Int /\ MaxLong \in Nat /\ length <= MaxLong
  BY TopFrame, SizesAssumption DEF ParserInv, LoopInv, ParserTypeOK
<1>2. Top.end <= length
  BY TopFrame DEF ParserInv, LoopInv, FramesNested
<1> QED
  BY <1>1, <1>2 DEF Fits, BoxEnd, TooSmall

\* One box of any size and type.
LEMMA BoxKept ==
  ASSUME ParserInv, parser = "loop", position + 8 <= Top.end,
         NEW payload \in Int, payload <= MaxLong, NEW header \in {8, 16}, NEW type,
         Box(payload, header, type)
  PROVE  ParserInv'
<1> PICK boxEnd : boxEnd = BoxEnd(payload)
  OBVIOUS
<1>1. CASE Leave
  BY <1>1, LeaveKept
<1>2. CASE Throw
  <2>1. /\ parser' = "thrown"
        /\ UNCHANGED <<length, position, frames, picture, inTrack, tracks, handlers>>
    BY <1>2 DEF Throw, result, history
  <2>2. ParserTypeOK'
    BY <2>1 DEF ParserInv, ParserTypeOK
  <2>3. \A t \in tracks : IsVideoTrack(t) => IsVideoTrack(t)'
    BY <2>1, VideoKept
  <2> QED
    BY <2>1, <2>2, <2>3, GoesOn
<1>3. CASE Visit(type, header, boxEnd) /\ Fits(boxEnd)
  <2>1. UNCHANGED length
    BY <1>3 DEF Visit
  <2>2. Top.proc \in {"range", "track", "media"}
    BY TopFrame DEF ParserInv, LoopInv
  <2>3. CASE Top.proc = "range"
    <3>1. VisitInRange(type, header, boxEnd)
      BY <1>3, <2>3 DEF Visit
    <3>2. CASE type \in {"moov", "mdia"}
      BY <3>1, <3>2, <2>1, <2>3, <1>3, EnteredKept DEF VisitInRange, result, history
    <3>3. CASE type = "trak"
      BY <3>1, <3>3, <2>1, <2>3, <1>3, TrakKept DEF VisitInRange, result
    <3>4. CASE type \notin {"moov", "mdia", "trak"}
      BY <3>1, <3>4, <2>1, <1>3, SkippedKept DEF VisitInRange, result, history
    <3> QED
      BY <3>2, <3>3, <3>4
  <2>4. CASE Top.proc = "track"
    <3>1. VisitInTrack(type, header, boxEnd)
      BY <1>3, <2>4 DEF Visit
    <3>2. CASE type = "mdia"
      BY <3>1, <3>2, <2>1, <2>4, <1>3, EnteredKept DEF VisitInTrack, result, history
    <3>3. CASE type = "tkhd"
      BY <3>1, <3>3, <2>1, <2>4, <1>3, TkhdKept DEF VisitInTrack, result, history
    <3>4. CASE type \notin {"mdia", "tkhd"}
      BY <3>1, <3>4, <2>1, <1>3, SkippedKept DEF VisitInTrack, result, history
    <3> QED
      BY <3>2, <3>3, <3>4
  <2>5. CASE Top.proc = "media"
    <3>1. VisitInMedia(type, header, boxEnd)
      BY <1>3, <2>5 DEF Visit
    <3>2. CASE type = "hdlr"
      BY <3>1, <3>2, <2>1, <2>5, <1>3, HdlrKept DEF VisitInMedia, result
    <3>3. CASE type # "hdlr"
      BY <3>1, <3>3, <2>1, <1>3, SkippedKept DEF VisitInMedia, result, history
    <3> QED
      BY <3>2, <3>3
  <2> QED
    BY <2>2, <2>3, <2>4, <2>5
<1>4. TooSmall(payload) \/ boxEnd > Top.end \/ boxEnd > length \/ Fits(boxEnd)
  <2>1. boxEnd \in Int /\ Top.end \in Int /\ length \in Int
    BY TopFrame, SizesAssumption DEF ParserInv, LoopInv, ParserTypeOK, BoxEnd
  <2> QED
    BY <2>1, BoxFits
<1> QED
  BY <1>1, <1>2, <1>3, <1>4 DEF Box

\* Every step of TryParse.
LEMMA ParserInvKept == ParserInv /\ [TryParse]_parserVars => ParserInv'
<1> SUFFICES ASSUME ParserInv, [TryParse]_parserVars PROVE ParserInv'
  OBVIOUS
<1>1. CASE LoopEnds
  BY <1>1, LeaveKept DEF LoopEnds
<1>2. CASE ReadBox
  <2>1. parser = "loop" /\ position + 8 <= Top.end
    BY <1>2 DEF ReadBox
  <2>2. position \in Nat /\ Top.end \in Int /\ Top.end <= MaxLong /\ MaxLong \in Nat
    BY <2>1, TopFrame, SizesAssumption DEF ParserInv, LoopInv, ParserTypeOK, FramesNested
  <2> PICK type \in Types :
         \/ \E size \in Sizes \ {0, 1} : Box(size, 8, type)
         \/ Box(Top.end - position, 8, type)
         \/ \E size \in LargeSizes : IF size > MaxLong THEN Throw ELSE Box(size, 16, type)
    BY <1>2 DEF ReadBox
  <2>3. CASE \E size \in Sizes \ {0, 1} : Box(size, 8, type)
    BY <2>1, <2>2, <2>3, SizesAssumption, BoxKept
  <2>4. CASE Box(Top.end - position, 8, type)
    <3>1. Top.end - position \in Int /\ Top.end - position <= MaxLong
      BY <2>2
    <3> QED
      BY <3>1, <2>1, <2>4, BoxKept
  <2>5. CASE \E size \in LargeSizes : size <= MaxLong /\ Box(size, 16, type)
    BY <2>1, <2>2, <2>5, SizesAssumption, BoxKept
  <2>6. CASE Throw
    <3>1. /\ parser' = "thrown"
          /\ UNCHANGED <<length, position, frames, picture, inTrack, tracks, handlers>>
      BY <2>6 DEF Throw, result, history
    <3>2. ParserTypeOK'
      BY <3>1 DEF ParserInv, ParserTypeOK
    <3>3. \A t \in tracks : IsVideoTrack(t) => IsVideoTrack(t)'
      BY <3>1, VideoKept
    <3> QED
      BY <3>1, <3>2, <3>3, <2>1, GoesOn
  <2>7. \A size \in LargeSizes : size > MaxLong \/ size <= MaxLong
    BY <2>2, SizesAssumption
  <2> QED
    BY <2>3, <2>4, <2>5, <2>6, <2>7
<1>3. CASE UNCHANGED parserVars
  <2>1. UNCHANGED <<length, parser, position, frames, picture, inTrack, tracks, handlers>>
    BY <1>3 DEF parserVars, result, history
  <2> QED
    BY <2>1 DEF ParserInv, ParserTypeOK, LoopInv, FramesNested, HandlersPassed,
         TracksUnderWay, TrackUnderWay, LastIsVideoOf, SizeSettled, SizeOfVideoTrack,
         IsVideoTrack, Passed
<1> QED
  BY <1>1, <1>2, <1>3 DEF TryParse

\* Nothing is read yet.
LEMMA ParserInvInitial == ParserInit => ParserInv
<1> SUFFICES ASSUME ParserInit PROVE ParserInv
  OBVIOUS
<1>1. length \in Nat /\ length <= MaxLong
  BY SizesAssumption DEF ParserInit
<1> PICK f : f = Frame("range", length)
  OBVIOUS
<1>2. f \in Frames /\ f.proc = "range" /\ f.end = length
  BY <1>1 DEF Frame, Frames
<1>3. frames = <<f>> /\ frames \in Seq(Frames) /\ Len(frames) = 1 /\ frames[1] = f
  BY <1>2 DEF ParserInit
<1>4. ParserTypeOK
  BY <1>1, <1>3 DEF ParserInit, ParserTypeOK
<1>5. FramesNested
  BY <1>1, <1>2, <1>3 DEF FramesNested
<1>6. HandlersPassed /\ TracksUnderWay /\ SizeSettled /\ SizeOfVideoTrack
  BY <1>2, <1>3 DEF ParserInit, HandlersPassed, TracksUnderWay, SizeSettled, SizeOfVideoTrack
<1> QED
  BY <1>4, <1>5, <1>6 DEF ParserInv, LoopInv

\* TryParse of Mp4MetadataParser, on a file of any length with any boxes, sizes that
\* wrap around included: the picture size it reports is that of a tkhd box in a trak
\* box whose last handler is video.
THEOREM SizeIsOfVideoTrack == ParserSpec => []SizeOfVideoTrack
<1>1. ParserInv => SizeOfVideoTrack
  BY DEF ParserInv
<1> QED
  BY <1>1, ParserInvInitial, ParserInvKept, PTL DEF ParserSpec
=============================================================================
