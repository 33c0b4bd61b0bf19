------------------------------ MODULE FatImage ------------------------------
(***************************************************************************)
(* FatImageBuilder of UefiSupport.cs: the FAT12 system partition that      *)
(* firmware boots from.                                                    *)
(*                                                                         *)
(* BuildEfiSystemPartition builds a tree of short names, lays it out on    *)
(* clusters (FatTable) and writes directories and files.  There is one     *)
(* action per call the builder makes for one segment, file or node.        *)
(*                                                                         *)
(* A short name is a pair of stem and extension.  How Sanitize shortens a  *)
(* name is given by NormalizeName and NormalizeFile, functions that may    *)
(* map several names to one.  On the disk a name is also the byte that     *)
(* fills it up.  A node is its path of short names; a byte of a file is    *)
(* the file's id and an offset.  The boot sector repeats the constants and *)
(* is left out, and so are the attributes of entries.                      *)
(***************************************************************************)
EXTENDS FatTable, SequencesExt

CONSTANTS
  RuntimeFileLists,    \* the possible arguments runtimeFiles
  LoaderSizes,         \* the possible lengths of bootx64
  NormalizeName,       \* raw directory name -> short name
  NormalizeFile,       \* raw file name -> <<short stem, short extension>>
  EntryBytes,          \* a directory entry has 32 bytes
  RootEntryCount

ASSUME EntryAssumption ==
  /\ EntryBytes \in Nat \ {0} /\ ClusterSizeBytes % EntryBytes = 0
  /\ RootEntryCount \in Nat

\* Sanitize answers letters and digits, at least one: no name is made of dots and
\* blanks, and a file's extension is never empty, a directory's always is.
ASSUME NameAssumption ==
  /\ \A raw \in DOMAIN NormalizeName : NormalizeName[raw] \notin {".", ". ", ".."}
  /\ \A raw \in DOMAIN NormalizeFile :
       LET name == NormalizeFile[raw]
       IN  name = <<name[1], name[2]>> /\ name[1] # ". " /\ name[2] # ""

LoaderFile(size) ==
  [path |-> <<"EFI", "BOOT", "BOOTX64.EFI">>, id |-> "bootx64", len |-> size]

\* The segments of a path are names: of directories, and at last of a file.
IsRuntimeFile(file) ==
  /\ file.len \in Nat
  /\ file.path \in Seq(DOMAIN NormalizeName \cup DOMAIN NormalizeFile)
  /\ \A i \in 1 .. Len(file.path) :
       file.path[i] \in IF i = Len(file.path) THEN DOMAIN NormalizeFile
                                              ELSE DOMAIN NormalizeName

ASSUME FilesAssumption ==
  /\ \A size \in LoaderSizes : IsRuntimeFile(LoaderFile(size))
  /\ \A list \in RuntimeFileLists :
       list \in Seq(ToSet(list)) /\ \A i \in 1 .. Len(list) : IsRuntimeFile(list[i])

VARIABLES
  phase,            \* what the builder does: add, collect, layout, write, done or thrown
  requested,        \* bootx64 and runtimeFiles: sequence of [path, id, len]
  added,            \* how many of them are in the tree
  directory,        \* the directory the next one's path has led to
  children,         \* FatDirectoryNode.Children: directory -> short names
  data,             \* FatFileNode.Data: file -> [id, len]
  pending,          \* what CollectDirectories and CollectFiles still have to visit
  allDirectories,   \* the root first
  allFiles,
  written,          \* how many nodes are on the disk
  root,             \* the entries of the root directory
  disk              \* cluster -> what was written to it

tree == <<children, data>>
request == <<requested, added, directory>>
walk == <<pending, allDirectories, allFiles>>
image == <<written, root, disk>>
vars == <<tableVars, phase, tree, request, walk, image>>

Root == <<>>
DirName(raw) == <<NormalizeName[raw], "">>

Init ==
  /\ TableInit
  /\ phase = "add" /\ added = 0 /\ directory = Root
  /\ \E size \in LoaderSizes, list \in RuntimeFileLists :
       requested = <<LoaderFile(size)>> \o list
  /\ children = [d \in {Root} |-> <<>>] /\ data = <<>>
  /\ pending = <<Root>> /\ allDirectories = <<>> /\ allFiles = <<>>
  /\ written = 0 /\ root = <<>> /\ disk = <<>>

-----------------------------------------------------------------------------
\* The tree.

\* The directory of that short name, which is made when it is not there.
GetOrAddDirectory(raw) ==
  LET path == Append(directory, DirName(raw))
  IN  /\ directory' = path
      /\ children' = IF path \in DOMAIN children THEN children
                     ELSE [d \in DOMAIN children \cup {path} |->
                             IF d = path THEN <<>>
                             ELSE IF d = directory THEN Append(children[d], DirName(raw))
                             ELSE children[d]]

\* A file of the same short name (there is at most one) is replaced, and the new
\* one comes last.
AddFile(raw, content) ==
  LET name == NormalizeFile[raw]
      path == Append(directory, name)
  IN  /\ children' = [children EXCEPT ![directory] = Append(RemoveFirst(@, name), name)]
      /\ data' = [f \in DOMAIN data \cup {path} |->
                    IF f = path THEN content ELSE data[f]]

\* The loader, which goes into EFI\BOOT, then every runtime file.
Adding == phase = "add" /\ added < Len(requested)
current == requested[added + 1]

\* AddRuntimeFile: the directories of the path are made on the way to the last
\* segment, which is the file.  A path without segments is left out.
EnterDirectory ==
  /\ Adding /\ Len(directory) + 1 < Len(current.path)
  /\ GetOrAddDirectory(current.path[Len(directory) + 1])
  /\ UNCHANGED <<tableVars, phase, requested, added, data, walk, image>>

FileAdded ==
  /\ added' = added + 1 /\ directory' = Root
  /\ UNCHANGED <<tableVars, phase, requested, walk, image>>

AddRuntimeFile ==
  /\ Adding /\ Len(directory) + 1 = Len(current.path)
  /\ AddFile(Last(current.path), [id |-> current.id, len |-> current.len])
  /\ FileAdded

SkipRuntimeFile ==
  /\ Adding /\ current.path = <<>>
  /\ FileAdded
  /\ UNCHANGED tree

-----------------------------------------------------------------------------
\* The lists of nodes.

AllAdded ==
  /\ phase = "add" /\ added = Len(requested)
  /\ phase' = "collect"
  /\ UNCHANGED <<tableVars, tree, request, walk, image>>

PathsIn(dir) == [i \in 1 .. Len(children[dir]) |-> Append(dir, children[dir][i])]

\* CollectDirectories and CollectFiles go through the tree in the same order, a
\* directory before its own.
CollectDirectory ==
  /\ phase = "collect" /\ pending # <<>> /\ Head(pending) \in DOMAIN children
  /\ allDirectories' = Append(allDirectories, Head(pending))
  /\ pending' = PathsIn(Head(pending)) \o Tail(pending)
  /\ UNCHANGED <<tableVars, phase, tree, request, allFiles, image>>

CollectFile ==
  /\ phase = "collect" /\ pending # <<>> /\ Head(pending) \notin DOMAIN children
  /\ allFiles' = Append(allFiles, Head(pending))
  /\ pending' = Tail(pending)
  /\ UNCHANGED <<tableVars, phase, tree, request, allDirectories, image>>

\* The nodes that get clusters: all directories but the root, then all files.
nodes == Tail(allDirectories) \o allFiles

\* The bytes a node takes: a directory has two entries of its own.
NodeBytes(node) ==
  IF node \in DOMAIN children THEN (Len(children[node]) + 2) * EntryBytes
  ELSE data[node].len

AllCollected ==
  /\ phase = "collect" /\ pending = <<>>
  /\ Receive([i \in 1 .. Len(nodes) |-> NodeBytes(nodes[i])])
  /\ phase' = "layout"
  /\ UNCHANGED <<tree, request, walk, image>>

\* The clusters and the table; an exception there ends the build.
Layout ==
  /\ phase = "layout"
  /\ MakeTable
  /\ phase' = IF pc' = "thrown" THEN "thrown" ELSE "layout"
  /\ UNCHANGED <<tree, request, walk, image>>

-----------------------------------------------------------------------------
\* Directories and files.

\* The run of clusters of a node.
RunOf(node) == clusters[SelectInSeq(nodes, LAMBDA n : n = node)]

\* The eleven bytes of a name: what stem and extension begin with, and the byte that
\* fills up both.
NameField(stem, ext, fill) == [stem |-> stem, ext |-> ext, fill |-> fill]

WriteShortName(name) == NameField(name[1], name[2], "blank")

\* Behind the dot and a blank, or the two dots, the entry stays cleared.
SpecialName(name) == NameField(IF name = "." THEN ". " ELSE "..", "", "zero")

Entry(name, cluster, size) == [name |-> name, cluster |-> cluster, size |-> size]

\* WriteNodeEntry for the children of a directory, in order.
NodeEntries(dir) ==
  [i \in 1 .. Len(children[dir]) |->
     LET path == Append(dir, children[dir][i])
     IN  Entry(WriteShortName(children[dir][i]), RunOf(path).start,
               IF path \in DOMAIN children THEN 0 ELSE data[path].len)]

\* Throws when the entries do not fit into the root directory's sectors.
WriteRoot ==
  /\ phase = "layout" /\ pc = "packed"
  /\ IF Len(children[Root]) > RootEntryCount
     THEN phase' = "thrown" /\ UNCHANGED root
     ELSE phase' = "write" /\ root' = NodeEntries(Root)
  /\ UNCHANGED <<tableVars, tree, request, walk, written, disk>>

\* Mutant: the parent's cluster is written for a child of the root as well.
ParentClusterAlways(dir) ==
  IF Front(dir) = Root THEN 2 ELSE RunOf(Front(dir)).start

\* The cluster of "..": zero stands for the root.
ParentCluster(dir) == IF Front(dir) = Root THEN 0 ELSE RunOf(Front(dir)).start

DirectoryEntries(dir) ==
  <<Entry(SpecialName("."), RunOf(dir).start, 0),
    Entry(SpecialName(".."), ParentCluster(dir), 0)>>
  \o NodeEntries(dir)

Contents(file) == [k \in 1 .. file.len |-> <<file.id, k>>]

\* What goes into cluster i of a run; empty past the end of the data.
Chunk(items, i, perCluster) ==
  LET from == i * perCluster + 1
      to == (i + 1) * perCluster
  IN  SubSeq(items, from, IF to > Len(items) THEN Len(items) ELSE to)

\* WriteFileToClusterChain: the items of a node, so many to a cluster.
WriteRun(run, items, perCluster) ==
  [c \in DOMAIN disk \cup run.start .. run.start + run.count - 1 |->
     IF c \in run.start .. run.start + run.count - 1
     THEN Chunk(items, c - run.start, perCluster) ELSE disk[c]]

\* What a node is written as, and how much of it a cluster takes.
Items(node) ==
  IF node \in DOMAIN children THEN DirectoryEntries(node) ELSE Contents(data[node])
PerCluster(node) ==
  IF node \in DOMAIN children THEN ClusterSizeBytes \div EntryBytes ELSE ClusterSizeBytes

\* WriteDirectoryClusters and WriteFileToClusterChain, node by node.
WriteNode ==
  /\ phase = "write" /\ written < Len(nodes)
  /\ LET node == nodes[written + 1]
     IN  disk' = WriteRun(clusters[written + 1], Items(node), PerCluster(node))
  /\ written' = written + 1
  /\ UNCHANGED <<tableVars, phase, tree, request, walk, root>>

Finish ==
  /\ phase = "write" /\ written = Len(nodes)
  /\ phase' = "done"
  /\ UNCHANGED <<tableVars, tree, request, walk, image>>

Next ==
  \/ EnterDirectory \/ AddRuntimeFile \/ SkipRuntimeFile
  \/ AllAdded \/ CollectDirectory \/ CollectFile \/ AllCollected
  \/ Layout \/ WriteRoot \/ WriteNode \/ Finish

Spec == Init /\ [][Next]_vars

-----------------------------------------------------------------------------
\* What a reader of the image sees: the items in the clusters of a chain, up to
\* an end mark.
ReadChain(cluster) ==
  LET read[n \in Nat] ==
        IF n = 0 THEN [at |-> cluster, items |-> <<>>]
        ELSE LET before == read[n - 1]
             IN  IF before.at >= FirstEndMark \/ before.at < 2 THEN before
                 ELSE [at |-> GetFat12Entry(fat, before.at),
                       items |-> before.items \o (IF before.at \in DOMAIN disk
                                                  THEN disk[before.at] ELSE <<>>)]
  IN  read[DataClusters].items

NoEntry == Entry(WriteShortName(<<"", "">>), 0, 0)

\* Blanks at the end of a stem; only that of "." has one.
TrimTrailingBlanks(stem) == IF stem = ". " THEN "." ELSE stem

\* The name that the FAT driver of edk2 takes from its bytes.  It trims the blanks at
\* their end before it stops at a zero, so that a blank in front of zeros stays.
FatNameToStr(field) ==
  <<IF field.fill = "blank" THEN TrimTrailingBlanks(field.stem) ELSE field.stem, field.ext>>

\* The first entry of that name, in a directory given as its entries.
Find(entries, name) ==
  LET i == SelectInSeq(entries, LAMBDA e : FatNameToStr(e.name) = name)
  IN  IF i = 0 THEN NoEntry ELSE entries[i]

\* The entry a reader finds for a path, directory by directory from the root.
Lookup(path) ==
  LET entries[n \in 0 .. Len(path) - 1] ==
        IF n = 0 THEN root ELSE ReadChain(Find(entries[n - 1], path[n]).cluster)
  IN  Find(entries[Len(path) - 1], Last(path))

ReadFile(path) ==
  LET entry == Lookup(path)
      bytes == ReadChain(entry.cluster)
  IN  SubSeq(bytes, 1, IF entry.size < Len(bytes) THEN entry.size ELSE Len(bytes))

ShortPath(file) ==
  [i \in 1 .. Len(file.path) |->
     IF i = Len(file.path) THEN NormalizeFile[file.path[i]] ELSE DirName(file.path[i])]

\* Following names and chains through the finished image, a reader finds every
\* requested file with all its bytes; of files with the same short name it finds
\* the last one.
FilesReadBack ==
  phase = "done" =>
    \A i \in 1 .. Len(requested) :
      /\ requested[i].path # <<>>
      /\ \A j \in i + 1 .. Len(requested) :
           ShortPath(requested[j]) # ShortPath(requested[i])
      => /\ ReadFile(ShortPath(requested[i])) = Contents(requested[i])
         /\ Lookup(ShortPath(requested[i])).size = requested[i].len

\* The first entry of a directory leads a reader to the directory itself, and ".."
\* to the one that holds it, with zero for the root.  The first entry is taken by its
\* place: the reader does not see it as "." (DotIsNotSeen in MCFatImage).
DotsLeadBack ==
  phase = "done" =>
    \A dir \in DOMAIN children \ {Root} :
      LET entries == ReadChain(Lookup(dir).cluster)
      IN  /\ entries[1].cluster = Lookup(dir).cluster
          /\ Find(entries, <<"..", "">>).cluster =
               IF Len(dir) = 1 THEN 0 ELSE Lookup(Front(dir)).cluster

\* A reader of the image can go down to every file and back up to the root.
ImageReadsBack == FilesReadBack /\ DotsLeadBack

=============================================================================
