------------------------------ MODULE FatTable ------------------------------
(***************************************************************************)
(* The clusters of FatImageBuilder in UefiSupport.cs: the part of          *)
(* BuildEfiSystemPartition that gives every directory and file a run of    *)
(* clusters, links the runs in the allocation table and packs the table    *)
(* into 12 bit entries.  It sees of a node only its size in bytes.         *)
(*                                                                         *)
(* FatImage extends it by the tree of names the sizes come from and by     *)
(* what is written to the clusters.                                        *)
(***************************************************************************)
EXTENDS Integers, Sequences

CONSTANTS
  TotalSectors, FirstDataSector, SectorsPerCluster,
  ClusterSizeBytes,
  FatBytes             \* SectorsPerFat * BytesPerSector

ASSUME GeometryAssumption ==
  /\ TotalSectors \in Nat /\ FirstDataSector \in 1 .. TotalSectors
  /\ SectorsPerCluster \in Nat \ {0}
  /\ ClusterSizeBytes \in Nat \ {0}
  /\ FatBytes \in Nat

\* The clusters between the first data sector and the end of the disk.
DataClusters == (TotalSectors - FirstDataSector) \div SectorsPerCluster

\* 0xFFF ends a chain; a reader takes everything from 0xFF8 on as an end.
EndOfChain == 4095
FirstEndMark == 4088

\* What the constants of the code satisfy and the code nowhere checks: the
\* table has room for every cluster, and no cluster's number looks like a mark.
ASSUME TableAssumption ==
  /\ 2 * FatBytes >= 3 * (DataClusters + 2) + 1
  /\ DataClusters + 2 < FirstEndMark

VARIABLES
  pc,           \* what the builder does next
  sizes,        \* the bytes of the nodes: directories, then files
  next,         \* the index of a loop over nodes or table entries
  clusters,     \* StartCluster and ClusterCount of the nodes placed so far
  nextCluster,
  fatEntries,   \* the table as an array of numbers
  fat           \* fatBytes: the table as packed bytes

tableVars == <<pc, sizes, next, clusters, nextCluster, fatEntries, fat>>

FirstCluster == 2

TableInit ==
  /\ pc = "collect" /\ sizes = <<>> /\ next = 1
  /\ clusters = <<>> /\ nextCluster = FirstCluster
  /\ fatEntries = <<>>
  /\ fat = [i \in 0 .. FatBytes - 1 |-> 0]

\* The nodes are known.
Receive(nodeSizes) ==
  /\ pc = "collect"
  /\ sizes' = nodeSizes
  /\ pc' = "place"
  /\ UNCHANGED <<next, clusters, nextCluster, fatEntries, fat>>

-----------------------------------------------------------------------------
DivideRoundUp(value, divisor) == (value + divisor - 1) \div divisor

\* At least one cluster, for an empty file too.
ClusterCount(size) ==
  LET count == DivideRoundUp(size, ClusterSizeBytes)
  IN  IF count > 1 THEN count ELSE 1

\* nextCluster after a run of count clusters.
Advance(count) == nextCluster + count

\* The next node gets the next free clusters.
Place ==
  /\ pc = "place" /\ next <= Len(sizes)
  /\ LET count == ClusterCount(sizes[next])
     IN  /\ clusters' = Append(clusters, [start |-> nextCluster, count |-> count])
         /\ nextCluster' = Advance(count)
  /\ next' = next + 1
  /\ UNCHANGED <<pc, sizes, fatEntries, fat>>

\* Mutant: the sectors before the first data sector are forgotten.
OutOfSpaceWithoutHeader == (nextCluster - 2) * SectorsPerCluster > TotalSectors

OutOfSpace == FirstDataSector + (nextCluster - 2) * SectorsPerCluster > TotalSectors

\* Throws, or allocates the table with its two reserved entries.
CheckSpace ==
  /\ pc = "place" /\ next > Len(sizes)
  /\ IF OutOfSpace
     THEN pc' = "thrown" /\ UNCHANGED fatEntries
     ELSE /\ pc' = "link"
          /\ fatEntries' = [i \in 0 .. nextCluster |->
                              IF i = 0 THEN 4080 ELSE IF i = 1 THEN 4095 ELSE 0]
  /\ next' = 1
  /\ UNCHANGED <<sizes, clusters, nextCluster, fat>>

\* Mutant: the last cluster of a run points on to the next run.
LinkClusterChainOpen(start, count) ==
  [c \in DOMAIN fatEntries |->
     IF c \in start .. start + count - 1 THEN c + 1 ELSE fatEntries[c]]

LinkClusterChain(start, count) ==
  [c \in DOMAIN fatEntries |->
     IF c = start + count - 1 THEN EndOfChain
     ELSE IF c \in start .. start + count - 1 THEN c + 1
     ELSE fatEntries[c]]

Link ==
  /\ pc = "link" /\ next <= Len(sizes)
  /\ fatEntries' = LinkClusterChain(clusters[next].start, clusters[next].count)
  /\ next' = next + 1
  /\ UNCHANGED <<pc, sizes, clusters, nextCluster, fat>>

LinkDone ==
  /\ pc = "link" /\ next > Len(sizes)
  /\ pc' = "pack" /\ next' = 0
  /\ UNCHANGED <<sizes, clusters, nextCluster, fatEntries, fat>>

-----------------------------------------------------------------------------
\* The packed table: two entries in three bytes.

Byte == 0 .. 255
Bits12 == 0 .. 4095
UInt16 == {v \in Nat : v < 65536}

IsEven(index) == index % 2 = 0

\* Mutant: an entry takes two bytes.
FatOffsetWide(index) == 2 * index

\* The offset of an entry's first byte.
FatOffset(index) == index + index \div 2

\* Mutant: an odd entry overwrites the half byte of the even one before it.
LowByteWhole(old, index, v) == IF IsEven(index) THEN v % 256 ELSE (v % 16) * 16

\* The two bytes of an entry; one of them keeps a half of its old value.
LowByte(old, index, v) ==
  IF IsEven(index) THEN v % 256 ELSE (old % 16) + (v % 16) * 16
HighByte(old, index, v) ==
  IF IsEven(index) THEN (old \div 16) * 16 + v \div 256 ELSE v \div 16

SetFat12Entry(bytes, index, value) ==
  [k \in DOMAIN bytes |->
     IF k = FatOffset(index) THEN LowByte(bytes[k], index, value % 4096)
     ELSE IF k = FatOffset(index) + 1 THEN HighByte(bytes[k], index, value % 4096)
     ELSE bytes[k]]

\* WriteFat12Entries, one entry at a time; entries of free clusters stay zero.
\* An offset outside the table throws.
Pack ==
  /\ pc = "pack" /\ next <= nextCluster
  /\ IF next > 1 /\ fatEntries[next] = 0
     THEN UNCHANGED <<pc, fat>>
     ELSE IF FatOffset(next) + 1 >= FatBytes
          THEN pc' = "thrown" /\ UNCHANGED fat
          ELSE fat' = SetFat12Entry(fat, next, fatEntries[next]) /\ UNCHANGED pc
  /\ next' = next + 1
  /\ UNCHANGED <<sizes, clusters, nextCluster, fatEntries>>

PackDone ==
  /\ pc = "pack" /\ next > nextCluster
  /\ pc' = "packed"
  /\ UNCHANGED <<sizes, next, clusters, nextCluster, fatEntries, fat>>

\* The steps that make the table once the nodes are known.
MakeTable == Place \/ CheckSpace \/ Link \/ LinkDone \/ Pack \/ PackDone

TableNext == (\E nodeSizes \in Seq(Nat) : Receive(nodeSizes)) \/ MakeTable

TableSpec == TableInit /\ [][TableNext]_tableVars

-----------------------------------------------------------------------------
\* StartCluster and ClusterCount of a node.
ClusterRun == [start : Nat, count : Nat]

\* Type invariant of the table: runs and entries of BuildEfiSystemPartition are
\* numbers in range, packed bytes are bytes, and a run belongs to a node.
TableTypeOK ==
  /\ pc \in {"collect", "place", "link", "pack", "packed", "thrown"}
  /\ sizes \in Seq(Nat) /\ next \in Nat
  /\ nextCluster \in Nat /\ nextCluster >= 2
  /\ clusters \in Seq(ClusterRun) /\ Len(clusters) <= Len(sizes)
  /\ \A i \in DOMAIN fatEntries : fatEntries[i] \in UInt16
  /\ fat \in [0 .. FatBytes - 1 -> Byte]

Run(i) == clusters[i].start .. clusters[i].start + clusters[i].count - 1

\* No cluster is given to two nodes, and every node has one: the runs handed out
\* by BuildEfiSystemPartition are disjoint, not empty and below nextCluster.
RunsDisjoint ==
  \A i, j \in 1 .. Len(clusters) :
    /\ Run(i) # {} /\ Run(i) \subseteq 2 .. nextCluster - 1
    /\ i # j => Run(i) \cap Run(j) = {}

\* Past the space check every cluster of every node lies on the disk, so that
\* GetClusterSpan is never asked for bytes behind its end.
RunsOnDisk ==
  pc \in {"link", "pack", "packed"} =>
    \A i \in 1 .. Len(clusters) : \A c \in Run(i) :
      FirstDataSector + (c - 1) * SectorsPerCluster <= TotalSectors

\* The clusters BuildEfiSystemPartition hands out are a node's own and, past the
\* space check, on the disk.
RunsSound == RunsDisjoint /\ RunsOnDisk

\* Once linked, a run is one chain from its first to its last cluster, whatever
\* runs LinkClusterChain linked before or after it.
RunsLinked ==
  \A i \in 1 .. Len(clusters) :
    (pc \in {"pack", "packed"} \/ (pc = "link" /\ i < next)) =>
      \A c \in Run(i) :
        fatEntries[c] = IF c + 1 \in Run(i) THEN c + 1 ELSE EndOfChain

\* SetFat12Entry never leaves the table, whose size is checked nowhere: the
\* builder throws only when the clusters ran out.
TableHasRoom == pc = "thrown" => OutOfSpace

\* A reader's view of an entry in a packed table.
EvenValue(low, high) == low + (high % 16) * 256
OddValue(low, high) == low \div 16 + high * 16

GetFat12Entry(bytes, index) ==
  LET o == FatOffset(index)
  IN  IF IsEven(index) THEN EvenValue(bytes[o], bytes[o + 1])
      ELSE OddValue(bytes[o], bytes[o + 1])

\* Packing an entry leaves its neighbours alone: at every moment of
\* WriteFat12Entries the entries written so far read back as they were set.
PackedEntriesKept ==
  \A i \in 0 .. nextCluster - 1 :
    (pc = "packed" \/ (pc = "pack" /\ i < next)) =>
      GetFat12Entry(fat, i) = fatEntries[i]

=============================================================================
