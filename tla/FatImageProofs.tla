--------------------------- MODULE FatImageProofs ---------------------------
(***************************************************************************)
(* Proofs about FatTable and FatImage, for every disk geometry, every list *)
(* of files and every way of shortening names.                             *)
(*                                                                         *)
(* The invariant of the table has three parts: LayoutInv (the runs lie one *)
(* behind the other), EntryInv (the entries of a run form one chain and    *)
(* the last entry is free) and PackInv (the bytes hold the entries packed  *)
(* so far and zero for the others).                                        *)
(*                                                                         *)
(* The invariant of the image adds the tree (TreeInv), the files asked for *)
(* (RequestInv, FilesInv), the walk that lists the nodes (WalkInv), the    *)
(* runs of the nodes (PlacedInv) and what the disk holds (DiskInv).  A     *)
(* reader is a recursive function over clusters or path segments: it is    *)
(* shown to be the one function that satisfies its equation.               *)
(***************************************************************************)
EXTENDS FatImage, SequenceTheorems, WellFoundedInduction, TLAPS

\* The runs are in order, and there is one per node once all are placed.
LayoutInv ==
  /\ \A i \in 1 .. Len(clusters) :
       /\ clusters[i].start >= 2 /\ clusters[i].count >= 1
       /\ clusters[i].start + clusters[i].count <= nextCluster
  /\ \A i, j \in 1 .. Len(clusters) :
       i < j => clusters[i].start + clusters[i].count <= clusters[j].start
  /\ pc = "collect" => clusters = <<>> /\ next = 1
  /\ pc = "place" => Len(clusters) = next - 1
  /\ pc \in {"link", "pack", "packed"} =>
       /\ Len(clusters) = Len(sizes) /\ ~OutOfSpace
       /\ DOMAIN fatEntries = 0 .. nextCluster
  /\ pc = "link" => next >= 1

\* Every entry has 12 bits, the last one is free.
EntryInv ==
  /\ \A i \in DOMAIN fatEntries : fatEntries[i] \in Bits12
  /\ pc \in {"link", "pack", "packed"} => fatEntries[nextCluster] = 0

\* The table read back: the entries before next as they are, the others free.
PackInv ==
  /\ pc \in {"collect", "place", "link"} =>
       \A k \in 0 .. FatBytes - 1 : fat[k] = 0
  /\ pc = "pack" =>
       \A i \in 0 .. nextCluster - 1 :
         GetFat12Entry(fat, i) = IF i < next THEN fatEntries[i] ELSE 0
  /\ pc = "packed" =>
       \A i \in 0 .. nextCluster - 1 : GetFat12Entry(fat, i) = fatEntries[i]

TableInv == TableTypeOK /\ LayoutInv /\ EntryInv /\ RunsLinked /\ PackInv /\ TableHasRoom

-----------------------------------------------------------------------------
\* A product that does not exceed c has no more factors than the quotient.
LEMMA QuotientBound ==
  ASSUME NEW a \in Nat, NEW b \in Nat \ {0}, NEW c \in Nat, a * b <= c
  PROVE  a <= c \div b
<1>1. c < (c \div b + 1) * b /\ c \div b \in Nat
  OBVIOUS
<1>2. SUFFICES ASSUME a > c \div b PROVE FALSE
  BY <1>1
<1>3. PICK d \in Nat : a = c \div b + 1 + d
  <2>1. a - (c \div b + 1) \in Nat
    BY <1>1, <1>2
  <2> QED BY <2>1, <1>1
<1>4. a * b = (c \div b + 1) * b + d * b /\ d * b >= 0
  BY <1>1, <1>3
<1> QED BY <1>1, <1>4

\* Multiplication keeps the order.
LEMMA ProductMonotone ==
  ASSUME NEW a \in Nat, NEW b \in Nat, NEW f \in Nat, a <= b
  PROVE  a * f <= b * f
<1>1. PICK d \in Nat : b = a + d
  <2>1. b - a \in Nat
    OBVIOUS
  <2> QED BY <2>1
<1>2. b * f = a * f + d * f /\ d * f >= 0
  BY <1>1
<1> QED BY <1>2

\* A node takes at least one cluster (DivideRoundUp and Math.Max).
LEMMA CountPositive ==
  ASSUME NEW size \in Nat
  PROVE  ClusterCount(size) \in Nat /\ ClusterCount(size) >= 1
<1>1. (size + ClusterSizeBytes - 1) \div ClusterSizeBytes \in Nat
  BY GeometryAssumption
<1> QED BY <1>1 DEF ClusterCount, DivideRoundUp

\* Three bytes hold two entries, and the two halves of the byte they share do not
\* mix: of the bytes SetFat12Entry computes for an entry v, the one shared with a
\* neighbour keeps the neighbour's half.
LEMMA EvenEntry ==
  ASSUME NEW i \in Nat, IsEven(i), NEW v \in Bits12,
         NEW a \in Byte, NEW b \in Byte, NEW x \in Byte
  PROVE  /\ LowByte(a, i, v) \in Byte /\ HighByte(b, i, v) \in Byte
         /\ EvenValue(LowByte(a, i, v), HighByte(b, i, v)) = v
         /\ OddValue(HighByte(b, i, v), x) = OddValue(b, x)
<1>0. v \in 0 .. 4095 /\ a \in 0 .. 255 /\ b \in 0 .. 255
  BY DEF Byte, Bits12
<1>1. LowByte(a, i, v) = v % 256 /\ HighByte(b, i, v) = (b \div 16) * 16 + v \div 256
  BY DEF LowByte, HighByte
<1>2. v % 256 \in Byte
  BY <1>0 DEF Byte
<1>3. (b \div 16) * 16 + v \div 256 \in Byte
  <2>1. b \div 16 \in 0 .. 15
    BY <1>0
  <2>2. v \div 256 \in 0 .. 15
    BY <1>0
  <2> QED BY <2>1, <2>2 DEF Byte
<1>4. ((b \div 16) * 16 + v \div 256) \div 16 = b \div 16
  BY <1>0
<1>5. (v % 256) + (((b \div 16) * 16 + v \div 256) % 16) * 256 = v
  BY <1>0, SMTT(30)
<1> QED BY <1>1, <1>2, <1>3, <1>4, <1>5 DEF EvenValue, OddValue

LEMMA OddEntry ==
  ASSUME NEW i \in Nat, ~IsEven(i), NEW v \in Bits12,
         NEW a \in Byte, NEW b \in Byte, NEW x \in Byte
  PROVE  /\ LowByte(a, i, v) \in Byte /\ HighByte(b, i, v) \in Byte
         /\ OddValue(LowByte(a, i, v), HighByte(b, i, v)) = v
         /\ EvenValue(x, LowByte(a, i, v)) = EvenValue(x, a)
<1>0. v \in 0 .. 4095 /\ a \in 0 .. 255 /\ b \in 0 .. 255
  BY DEF Byte, Bits12
<1>1. LowByte(a, i, v) = (a % 16) + (v % 16) * 16 /\ HighByte(b, i, v) = v \div 16
  BY DEF LowByte, HighByte
<1>2. v \div 16 \in Byte
  BY <1>0 DEF Byte
<1>3. (a % 16) + (v % 16) * 16 \in Byte
  BY <1>0 DEF Byte
<1>4. ((a % 16) + (v % 16) * 16) % 16 = a % 16
  BY <1>0
<1>5. ((a % 16) + (v % 16) * 16) \div 16 + (v \div 16) * 16 = v
  BY <1>0
<1> QED BY <1>1, <1>2, <1>3, <1>4, <1>5 DEF EvenValue, OddValue

\* The half of an even entry's second byte that belongs to the next entry.
LEMMA EvenKeepsNext ==
  ASSUME NEW i \in Nat, IsEven(i), NEW v \in Bits12, NEW b \in Byte, NEW x \in Byte
  PROVE  OddValue(HighByte(b, i, v), x) = OddValue(b, x)
  BY EvenEntry

\* The half of an odd entry's first byte that belongs to the entry before it.
LEMMA OddKeepsPrevious ==
  ASSUME NEW i \in Nat, ~IsEven(i), NEW v \in Bits12, NEW a \in Byte, NEW x \in Byte
  PROVE  EvenValue(x, LowByte(a, i, v)) = EvenValue(x, a)
  BY OddEntry

\* How the bytes of two entries can overlap.
LEMMA Offsets ==
  ASSUME NEW i \in Nat, NEW j \in Nat
  PROVE  /\ FatOffset(i) \in Nat
         /\ FatOffset(i) = FatOffset(j) <=> i = j
         /\ FatOffset(j) = FatOffset(i) + 1 => IsEven(i) /\ ~IsEven(j)
  BY DEF FatOffset, IsEven

\* A table entry that was set reads back, and no other entry changes.
LEMMA SetThenGet ==
  ASSUME NEW bytes \in [0 .. FatBytes - 1 -> Byte],
         NEW i \in Nat, NEW j \in Nat, NEW v \in Bits12,
         FatOffset(i) + 1 < FatBytes, FatOffset(j) + 1 < FatBytes
  PROVE  /\ SetFat12Entry(bytes, i, v) \in [0 .. FatBytes - 1 -> Byte]
         /\ GetFat12Entry(SetFat12Entry(bytes, i, v), j) =
              IF i = j THEN v ELSE GetFat12Entry(bytes, j)
<1> DEFINE o == FatOffset(i)
           p == FatOffset(j)
           low == LowByte(bytes[o], i, v)
           high == HighByte(bytes[o + 1], i, v)
           after == SetFat12Entry(bytes, i, v)
<1>1. FatBytes \in Nat
  BY GeometryAssumption
<1>2. o \in Nat /\ p \in Nat /\ o + 1 # o
  BY Offsets
<1>3. o + 1 < FatBytes /\ p + 1 < FatBytes
  OBVIOUS
<1>4. bytes[o] \in Byte /\ bytes[o + 1] \in Byte
      /\ bytes[p] \in Byte /\ bytes[p + 1] \in Byte
  <2> HIDE DEF o, p
  <2> QED BY <1>1, <1>2, <1>3
<1>5. low \in Byte /\ high \in Byte
  BY <1>4, EvenEntry, OddEntry, Zenon
<1>6. /\ DOMAIN after = 0 .. FatBytes - 1
      /\ \A k \in 0 .. FatBytes - 1 :
           after[k] = IF k = o THEN low ELSE IF k = o + 1 THEN high ELSE bytes[k]
  <2>1. v % 4096 = v
    BY DEF Bits12
  <2> QED BY <2>1 DEF SetFat12Entry
<1> HIDE DEF o, p, low, high, after
<1>7. after \in [0 .. FatBytes - 1 -> Byte]
  <2>1. \A k \in 0 .. FatBytes - 1 : bytes[k] \in Byte
    BY <1>1
  <2>2. after = [k \in DOMAIN after |-> after[k]]
    BY DEF SetFat12Entry, after
  <2> QED BY <2>1, <2>2, <1>5, <1>6
<1>8. after[p] = (IF p = o + 1 THEN high ELSE IF p = o THEN low ELSE bytes[p])
      /\ after[p + 1] = (IF p = o THEN high
                         ELSE IF p + 1 = o THEN low ELSE bytes[p + 1])
  BY <1>1, <1>2, <1>3, <1>6
<1>9. GetFat12Entry(after, j) = IF i = j THEN v ELSE GetFat12Entry(bytes, j)
  <2>1. CASE i = j
    <3>1. after[p] = low /\ after[p + 1] = high
      BY <2>1, <1>2, <1>8 DEF o, p
    <3>2. GetFat12Entry(after, j) = IF IsEven(i) THEN EvenValue(low, high)
                                    ELSE OddValue(low, high)
      BY <2>1, <3>1 DEF GetFat12Entry, p
    <3>3. ASSUME IsEven(i) PROVE EvenValue(low, high) = v
      <4>1. bytes[o] \in Byte
        BY <1>4
      <4>2. bytes[o + 1] \in Byte
        BY <1>4
      <4>3. EvenValue(LowByte(bytes[o], i, v), HighByte(bytes[o + 1], i, v)) = v
        BY <3>3, <4>1, <4>2, EvenEntry
      <4> QED BY <4>3 DEF low, high
    <3>4. ASSUME ~IsEven(i) PROVE OddValue(low, high) = v
      <4>1. bytes[o] \in Byte
        BY <1>4
      <4>2. bytes[o + 1] \in Byte
        BY <1>4
      <4>3. OddValue(LowByte(bytes[o], i, v), HighByte(bytes[o + 1], i, v)) = v
        BY <3>4, <4>1, <4>2, OddEntry
      <4> QED BY <4>3 DEF low, high
    <3> QED BY <2>1, <3>2, <3>3, <3>4
  <2>2. CASE i # j /\ p # o + 1 /\ p + 1 # o
    <3>1. after[p] = bytes[p] /\ after[p + 1] = bytes[p + 1]
      BY <2>2, <1>2, <1>8, Offsets DEF o, p
    <3> QED BY <2>2, <3>1 DEF GetFat12Entry, p
  <2>3. CASE i # j /\ p = o + 1
    <3>1. IsEven(i) /\ ~IsEven(j)
      BY <2>3, Offsets DEF o, p
    <3>2. after[p] = high /\ after[p + 1] = bytes[p + 1]
      BY <2>3, <1>2, <1>8
    <3>3. OddValue(high, bytes[p + 1]) = OddValue(bytes[p], bytes[p + 1])
      <4>1. high = HighByte(bytes[p], i, v)
        BY <2>3 DEF high
      <4>2. OddValue(HighByte(bytes[p], i, v), bytes[p + 1]) = OddValue(bytes[p], bytes[p + 1])
        BY <3>1, <1>4, EvenKeepsNext
      <4> QED BY <4>1, <4>2, Zenon
    <3> QED BY <2>3, <3>1, <3>2, <3>3 DEF GetFat12Entry, p
  <2>4. CASE i # j /\ p + 1 = o
    <3>1. ~IsEven(i) /\ IsEven(j)
      BY <2>4, Offsets DEF o, p
    <3>2. after[p + 1] = low /\ after[p] = bytes[p]
      BY <2>4, <1>2, <1>8
    <3>3. EvenValue(bytes[p], low) = EvenValue(bytes[p], bytes[p + 1])
      <4>1. low = LowByte(bytes[p + 1], i, v)
        BY <2>4 DEF low
      <4>2. EvenValue(bytes[p], LowByte(bytes[p + 1], i, v)) = EvenValue(bytes[p], bytes[p + 1])
        BY <3>1, <1>4, OddKeepsPrevious
      <4> QED BY <4>1, <4>2, Zenon
    <3> QED BY <2>4, <3>1, <3>2, <3>3 DEF GetFat12Entry, p
  <2> QED BY <2>1, <2>2, <2>3, <2>4
<1> QED BY <1>7, <1>9 DEF after

-----------------------------------------------------------------------------
\* When the space check passes, every cluster handed out has its entry inside the
\* table, and no cluster's number looks like an end mark.
LEMMA Room ==
  ASSUME nextCluster \in Nat, nextCluster >= 2, ~OutOfSpace
  PROVE  /\ nextCluster < FirstEndMark
         /\ \A c \in 0 .. nextCluster - 1 : FatOffset(c) \in Nat /\ FatOffset(c) + 1 < FatBytes
<1> DEFINE space == TotalSectors - FirstDataSector
<1>1. nextCluster - 2 \in Nat /\ space \in Nat /\ SectorsPerCluster \in Nat \ {0}
  BY GeometryAssumption
<1>2. (nextCluster - 2) * SectorsPerCluster <= space
  <2>1. (nextCluster - 2) * SectorsPerCluster \in Nat
    BY <1>1
  <2> QED BY <2>1, GeometryAssumption DEF OutOfSpace
<1>3. nextCluster - 2 <= DataClusters
  <2> HIDE DEF space
  <2>1. nextCluster - 2 <= space \div SectorsPerCluster
    BY <1>1, <1>2, QuotientBound
  <2> QED BY <2>1 DEF DataClusters, space
<1>4. DataClusters \in Nat
  BY <1>1 DEF DataClusters
<1>5. 3 * nextCluster + 1 <= 2 * FatBytes /\ nextCluster < FirstEndMark
  BY <1>3, <1>4, TableAssumption, GeometryAssumption DEF FirstEndMark
<1>6. ASSUME NEW c \in 0 .. nextCluster - 1
      PROVE  FatOffset(c) \in Nat /\ FatOffset(c) + 1 < FatBytes
  <2>1. c \div 2 \in Nat /\ 2 * (c \div 2) <= c
    OBVIOUS
  <2> QED BY <2>1, <1>5, GeometryAssumption DEF FatOffset
<1> QED BY <1>5, <1>6

\* A run lies below nextCluster.
LEMMA RunBounds ==
  ASSUME TableTypeOK, LayoutInv, NEW i \in 1 .. Len(clusters)
  PROVE  /\ clusters[i].start \in Nat /\ clusters[i].count \in Nat
         /\ clusters[i].start >= 2 /\ clusters[i].count >= 1
         /\ clusters[i].start + clusters[i].count <= nextCluster
         /\ Run(i) = clusters[i].start .. clusters[i].start + clusters[i].count - 1
<1>1. clusters[i] \in ClusterRun
  BY DEF TableTypeOK
<1>2. clusters[i].start \in Nat /\ clusters[i].count \in Nat
  BY <1>1 DEF ClusterRun
<1> QED BY <1>2 DEF LayoutInv, Run

\* A 12 bit number is a ushort.
LEMMA Bits12Fit == ASSUME NEW v \in Bits12 PROVE v \in UInt16
  BY DEF Bits12, UInt16

\* The initial state satisfies the invariant.
LEMMA InitInv == TableInit => TableInv
<1> SUFFICES ASSUME TableInit PROVE TableInv
  OBVIOUS
<1>1. TableTypeOK
  BY GeometryAssumption DEF TableInit, TableTypeOK, FirstCluster, Byte
<1>2. LayoutInv
  BY DEF TableInit, LayoutInv
<1>3. EntryInv /\ RunsLinked /\ TableHasRoom
  BY DEF TableInit, EntryInv, RunsLinked, TableHasRoom
<1>4. PackInv
  BY DEF TableInit, PackInv
<1> QED BY <1>1, <1>2, <1>3, <1>4 DEF TableInv

\* Taking the list of sizes over keeps the invariant.
LEMMA ReceiveInv ==
  ASSUME TableInv, NEW nodeSizes \in Seq(Nat), Receive(nodeSizes)
  PROVE  TableInv'
<1>1. TableTypeOK'
  BY DEF TableInv, TableTypeOK, LayoutInv, Receive
<1>2. LayoutInv'
  BY DEF TableInv, TableTypeOK, LayoutInv, Receive
<1>3. EntryInv' /\ RunsLinked' /\ TableHasRoom'
  BY DEF TableInv, EntryInv, RunsLinked, TableHasRoom, Receive
<1>4. PackInv'
  BY DEF TableInv, PackInv, Receive
<1> QED BY <1>1, <1>2, <1>3, <1>4 DEF TableInv

\* A new run lies behind the runs placed before it.
LEMMA PlaceInv ==
  ASSUME TableInv, Place
  PROVE  TableInv'
<1> DEFINE count == ClusterCount(sizes[next])
           new == [start |-> nextCluster, count |-> count]
<1>1. next \in 1 .. Len(sizes) /\ sizes[next] \in Nat /\ Len(clusters) = next - 1
  BY DEF TableInv, TableTypeOK, LayoutInv, Place
<1>2. count \in Nat /\ count >= 1
  BY <1>1, CountPositive
<1> HIDE DEF count
<1>3. /\ clusters' = Append(clusters, new) /\ nextCluster' = nextCluster + count
      /\ next' = next + 1 /\ pc = "place" /\ pc' = "place"
      /\ UNCHANGED <<sizes, fatEntries, fat>>
  BY DEF Place, Advance, count
<1>4. TableTypeOK
  BY DEF TableInv
<1>5. new \in ClusterRun
  BY <1>2, <1>4 DEF ClusterRun, TableTypeOK
<1>6. /\ clusters' \in Seq(ClusterRun)
      /\ Len(clusters') = next
      /\ \A i \in 1 .. Len(clusters') :
           clusters'[i] = IF i < next THEN clusters[i] ELSE new
  <2> HIDE DEF new
  <2> QED BY <1>1, <1>3, <1>4, <1>5 DEF TableTypeOK
<1>7. TableTypeOK'
  BY <1>1, <1>2, <1>3, <1>4, <1>6 DEF TableTypeOK
<1>8. LayoutInv'
  <2>1. \A i \in 1 .. next - 1 :
          /\ clusters[i].start \in Nat /\ clusters[i].count \in Nat
          /\ clusters[i].start >= 2 /\ clusters[i].count >= 1
          /\ clusters[i].start + clusters[i].count <= nextCluster
    BY <1>1, <1>4, RunBounds DEF TableInv
  <2>2. \A i, j \in 1 .. next - 1 :
          i < j => clusters[i].start + clusters[i].count <= clusters[j].start
    BY <1>1 DEF TableInv, LayoutInv
  <2>3. new.start = nextCluster /\ new.count = count /\ nextCluster \in Nat /\ nextCluster >= 2
        /\ next \in Nat
    BY <1>1, <1>4 DEF TableTypeOK
  <2> HIDE DEF new
  <2>4. ASSUME NEW i \in 1 .. Len(clusters')
        PROVE  /\ clusters'[i].start >= 2 /\ clusters'[i].count >= 1
               /\ clusters'[i].start + clusters'[i].count <= nextCluster'
    <3>1. CASE i < next
      BY <3>1, <1>2, <1>3, <1>6, <2>1, <2>3
    <3>2. CASE ~(i < next)
      BY <3>2, <1>2, <1>3, <1>6, <2>3
    <3> QED BY <3>1, <3>2
  <2>5. ASSUME NEW i \in 1 .. Len(clusters'), NEW j \in 1 .. Len(clusters'), i < j
        PROVE  clusters'[i].start + clusters'[i].count <= clusters'[j].start
    <3>1. clusters'[i] = clusters[i] /\ i \in 1 .. next - 1
      BY <2>5, <1>6, <2>3
    <3>2. CASE j < next
      BY <3>1, <3>2, <2>5, <1>6, <2>2, <2>3
    <3>3. CASE ~(j < next)
      BY <3>1, <3>3, <1>6, <2>1, <2>3
    <3> QED BY <3>2, <3>3
  <2> QED BY <1>1, <1>3, <1>6, <2>3, <2>4, <2>5 DEF LayoutInv
<1>9. EntryInv' /\ RunsLinked' /\ TableHasRoom'
  BY <1>3 DEF TableInv, EntryInv, RunsLinked, TableHasRoom
<1>10. PackInv'
  BY <1>3 DEF TableInv, PackInv
<1> QED BY <1>7, <1>8, <1>9, <1>10 DEF TableInv

\* Past the space check the table has one entry per cluster and a free one.
LEMMA CheckSpaceInv ==
  ASSUME TableInv, CheckSpace
  PROVE  TableInv'
<1>1. /\ next' = 1 /\ pc = "place" /\ UNCHANGED <<sizes, clusters, nextCluster, fat>>
      /\ OutOfSpace' = OutOfSpace
  BY DEF CheckSpace, OutOfSpace
<1>2. Len(clusters) = Len(sizes) /\ nextCluster \in Nat /\ nextCluster >= 2
  BY DEF TableInv, TableTypeOK, LayoutInv, CheckSpace
<1>3. CASE OutOfSpace
  <2>1. pc' = "thrown" /\ fatEntries' = fatEntries
    BY <1>3 DEF CheckSpace
  <2>2. TableTypeOK'
    BY <1>1, <2>1 DEF TableInv, TableTypeOK
  <2>3. LayoutInv' /\ EntryInv'
    BY <1>1, <2>1 DEF TableInv, LayoutInv, EntryInv
  <2>4. RunsLinked' /\ PackInv' /\ TableHasRoom'
    BY <1>1, <1>3, <2>1 DEF TableInv, RunsLinked, PackInv, TableHasRoom
  <2> QED BY <2>2, <2>3, <2>4 DEF TableInv
<1>4. CASE ~OutOfSpace
  <2>1. /\ pc' = "link" /\ DOMAIN fatEntries' = 0 .. nextCluster
        /\ \A i \in 0 .. nextCluster :
             fatEntries'[i] = IF i = 0 THEN 4080 ELSE IF i = 1 THEN 4095 ELSE 0
    BY <1>4 DEF CheckSpace
  <2>2. \A i \in DOMAIN fatEntries' : fatEntries'[i] \in Bits12 /\ fatEntries'[i] \in UInt16
    <3>1. 4080 \in Bits12 /\ 4095 \in Bits12 /\ 0 \in Bits12
      BY DEF Bits12
    <3> QED BY <3>1, <2>1, Bits12Fit
  <2>3. TableTypeOK'
    BY <1>1, <2>1, <2>2 DEF TableInv, TableTypeOK
  <2>4. LayoutInv'
    BY <1>1, <1>2, <1>4, <2>1 DEF TableInv, LayoutInv
  <2>5. EntryInv'
    BY <1>1, <1>2, <2>1, <2>2 DEF EntryInv
  <2>6. RunsLinked'
    BY <1>1, <2>1 DEF RunsLinked
  <2>7. PackInv' /\ TableHasRoom'
    BY <1>1, <2>1 DEF TableInv, PackInv, TableHasRoom
  <2> QED BY <2>3, <2>4, <2>5, <2>6, <2>7 DEF TableInv
<1> QED BY <1>3, <1>4

\* Linking a run leaves the chains of the runs before it alone.
LEMMA LinkInv ==
  ASSUME TableInv, Link
  PROVE  TableInv'
<1> DEFINE first == clusters[next].start
           last == clusters[next].start + clusters[next].count - 1
<1>1. /\ pc = "link" /\ pc' = "link" /\ next' = next + 1
      /\ UNCHANGED <<sizes, clusters, nextCluster, fat>>
  BY DEF Link
<1>2. TableTypeOK /\ LayoutInv
  BY DEF TableInv
<1>3. /\ next \in 1 .. Len(clusters) /\ next \in Nat /\ Len(clusters) = Len(sizes)
      /\ ~OutOfSpace /\ DOMAIN fatEntries = 0 .. nextCluster
  BY <1>1, <1>2 DEF TableTypeOK, LayoutInv, Link
<1>4. first \in Nat /\ first >= 2 /\ last \in Nat /\ last < nextCluster /\ first <= last
  BY <1>2, <1>3, RunBounds, SMTT(30) DEF TableTypeOK
<1>5. /\ DOMAIN fatEntries' = 0 .. nextCluster
      /\ \A c \in 0 .. nextCluster :
           fatEntries'[c] = IF c = last THEN EndOfChain
                            ELSE IF c \in first .. last THEN c + 1 ELSE fatEntries[c]
  BY <1>3 DEF Link, LinkClusterChain
<1>6. nextCluster \in Nat /\ nextCluster >= 2 /\ nextCluster < 4088
  BY <1>2, <1>3, Room DEF TableTypeOK, FirstEndMark
<1>7. Run(next) = first .. last
  BY DEF Run
<1> HIDE DEF first, last
<1>8. \A c \in DOMAIN fatEntries' : fatEntries'[c] \in Bits12
  <2>1. \A c \in 0 .. nextCluster : fatEntries[c] \in Bits12
    BY <1>3 DEF TableInv, EntryInv
  <2>2. EndOfChain \in Bits12
    BY DEF EndOfChain, Bits12
  <2>3. \A c \in first .. last : c + 1 \in Bits12
    BY <1>4, <1>6 DEF Bits12
  <2> QED BY <1>5, <2>1, <2>2, <2>3
<1>9. TableTypeOK'
  <2>1. \A c \in DOMAIN fatEntries' : fatEntries'[c] \in UInt16
    BY <1>8, Bits12Fit
  <2> QED BY <2>1, <1>1, <1>2 DEF TableTypeOK
<1>10. LayoutInv'
  <2>1. OutOfSpace' = OutOfSpace
    BY <1>1 DEF OutOfSpace
  <2> QED BY <2>1, <1>1, <1>2, <1>3, <1>5 DEF LayoutInv
<1>11. EntryInv'
  <2>1. fatEntries'[nextCluster] = fatEntries[nextCluster]
    BY <1>4, <1>5, <1>6
  <2> QED BY <2>1, <1>1, <1>8 DEF TableInv, EntryInv
<1>12. RunsLinked'
  <2>1. SUFFICES ASSUME NEW i \in 1 .. Len(clusters), i < next + 1, NEW c \in Run(i)
                 PROVE  fatEntries'[c] = IF c + 1 \in Run(i) THEN c + 1 ELSE EndOfChain
    BY <1>1 DEF RunsLinked, Run
  <2>2. c \in 0 .. nextCluster
    <3>1. /\ clusters[i].start \in Nat /\ clusters[i].count \in Nat
          /\ clusters[i].start + clusters[i].count <= nextCluster
          /\ c \in clusters[i].start .. clusters[i].start + clusters[i].count - 1
      BY <1>2, RunBounds
    <3> QED BY <3>1, <1>6
  <2>3. CASE i = next
    BY <2>2, <2>3, <1>4, <1>5, <1>7
  <2>4. CASE i # next
    <3>1. i < next
      BY <2>1, <2>4, <1>3
    <3>2. clusters[i].start + clusters[i].count <= first
      BY <3>1, <1>2, <1>3 DEF LayoutInv, first
    <3>3. c \notin first .. last /\ c # last
      BY <3>2, <1>2, <1>4, RunBounds, SMTT(30)
    <3>4. fatEntries'[c] = fatEntries[c]
      BY <2>2, <3>3, <1>5
    <3> QED BY <3>1, <3>4, <1>1 DEF TableInv, RunsLinked
  <2> QED BY <2>3, <2>4
<1>13. PackInv' /\ TableHasRoom'
  BY <1>1 DEF TableInv, PackInv, TableHasRoom
<1> QED BY <1>9, <1>10, <1>11, <1>12, <1>13 DEF TableInv

\* A cleared table reads as free entries.
LEMMA ZeroEntry ==
  ASSUME NEW bytes, NEW c \in Nat, bytes[FatOffset(c)] = 0, bytes[FatOffset(c) + 1] = 0
  PROVE  GetFat12Entry(bytes, c) = 0
<1>1. EvenValue(0, 0) = 0 /\ OddValue(0, 0) = 0
  BY DEF EvenValue, OddValue
<1> QED BY <1>1 DEF GetFat12Entry

\* When all runs are linked, every entry is still to be packed and reads as free.
LEMMA LinkDoneInv ==
  ASSUME TableInv, LinkDone
  PROVE  TableInv'
<1>1. /\ pc = "link" /\ next > Len(sizes) /\ pc' = "pack" /\ next' = 0
      /\ UNCHANGED <<sizes, clusters, nextCluster, fatEntries, fat>>
  BY DEF LinkDone
<1>2. TableTypeOK /\ LayoutInv
  BY DEF TableInv
<1>3. Len(clusters) = Len(sizes) /\ ~OutOfSpace /\ Len(sizes) \in Nat /\ next \in Nat
  BY <1>1, <1>2 DEF TableTypeOK, LayoutInv
<1>4. TableTypeOK'
  BY <1>1, <1>2 DEF TableTypeOK
<1>5. LayoutInv' /\ EntryInv'
  <2>1. OutOfSpace' = OutOfSpace
    BY <1>1 DEF OutOfSpace
  <2> QED BY <2>1, <1>1 DEF TableInv, LayoutInv, EntryInv
<1>6. RunsLinked'
  <2>1. \A i \in 1 .. Len(clusters) : i < next
    BY <1>1, <1>3
  <2>2. \A i \in 1 .. Len(clusters) : \A c \in Run(i) :
          fatEntries[c] = IF c + 1 \in Run(i) THEN c + 1 ELSE EndOfChain
    BY <2>1, <1>1 DEF TableInv, RunsLinked
  <2> QED BY <2>2, <1>1 DEF RunsLinked, Run
<1>7. PackInv' /\ TableHasRoom'
  <2>1. nextCluster \in Nat /\ nextCluster >= 2 /\ FatBytes \in Nat
    BY <1>2, GeometryAssumption DEF TableTypeOK
  <2>2. ASSUME NEW c \in 0 .. nextCluster - 1
        PROVE  GetFat12Entry(fat, c) = 0
    <3>1. FatOffset(c) \in Nat /\ FatOffset(c) + 1 < FatBytes
      BY <2>1, <1>3, Room
    <3>2. FatOffset(c) \in 0 .. FatBytes - 1 /\ FatOffset(c) + 1 \in 0 .. FatBytes - 1
      BY <3>1, <2>1
    <3>3. fat[FatOffset(c)] = 0 /\ fat[FatOffset(c) + 1] = 0
      BY <3>2, <1>1 DEF TableInv, PackInv
    <3> QED BY <3>3, <2>1, ZeroEntry
  <2>3. \A c \in 0 .. nextCluster - 1 : ~(c < 0)
    BY <2>1
  <2>4. \A c : GetFat12Entry(fat, c)' = GetFat12Entry(fat, c)
    BY <1>1 DEF GetFat12Entry
  <2> QED BY <2>2, <2>3, <1>1 DEF PackInv, TableHasRoom, GetFat12Entry
<1> QED BY <1>4, <1>5, <1>6, <1>7 DEF TableInv

\* Packing one entry: the free entry behind the last cluster is skipped, so that
\* the bytes of every entry that is set lie inside the table.
LEMMA PackStepInv ==
  ASSUME TableInv, Pack
  PROVE  TableInv'
<1>1. /\ pc = "pack" /\ next <= nextCluster /\ next' = next + 1
      /\ UNCHANGED <<sizes, clusters, nextCluster, fatEntries>>
  BY DEF Pack
<1>2. TableTypeOK /\ LayoutInv
  BY DEF TableInv
<1>3. /\ ~OutOfSpace /\ DOMAIN fatEntries = 0 .. nextCluster
      /\ next \in Nat /\ nextCluster \in Nat /\ nextCluster >= 2
      /\ fat \in [0 .. FatBytes - 1 -> Byte]
  BY <1>1, <1>2 DEF TableTypeOK, LayoutInv
<1>4. \A c \in 0 .. nextCluster - 1 : FatOffset(c) \in Nat /\ FatOffset(c) + 1 < FatBytes
  BY <1>3, Room
<1>5. \A c \in 0 .. nextCluster - 1 :
        GetFat12Entry(fat, c) = IF c < next THEN fatEntries[c] ELSE 0
  BY <1>1 DEF TableInv, PackInv
<1>6. \A c \in 0 .. nextCluster : fatEntries[c] \in Bits12
  BY <1>3 DEF TableInv, EntryInv
<1>7. /\ pc' = "pack" /\ fat' \in [0 .. FatBytes - 1 -> Byte]
      /\ \A c \in 0 .. nextCluster - 1 :
           GetFat12Entry(fat', c) = IF c < next + 1 THEN fatEntries[c] ELSE 0
  <2>1. CASE next > 1 /\ fatEntries[next] = 0
    <3>1. pc' = "pack" /\ fat' = fat
      BY <2>1, <1>1 DEF Pack
    <3> QED BY <3>1, <2>1, <1>3, <1>5
  <2>2. CASE ~(next > 1 /\ fatEntries[next] = 0)
    <3>1. next # nextCluster
      BY <2>2, <1>1, <1>3 DEF TableInv, EntryInv
    <3>2. next \in 0 .. nextCluster - 1
      BY <3>1, <1>1, <1>3
    <3>3. FatOffset(next) \in Nat /\ FatOffset(next) + 1 < FatBytes
      BY <3>2, <1>4
    <3>4. pc' = "pack" /\ fat' = SetFat12Entry(fat, next, fatEntries[next])
      BY <2>2, <3>3, <1>1, GeometryAssumption DEF Pack
    <3>5. fatEntries[next] \in Bits12
      BY <3>2, <1>3, <1>6
    <3>6. fat' \in [0 .. FatBytes - 1 -> Byte]
      BY <3>3, <3>4, <3>5, <1>3, SetThenGet
    <3>7. ASSUME NEW c \in 0 .. nextCluster - 1
          PROVE  GetFat12Entry(fat', c) = IF c < next + 1 THEN fatEntries[c] ELSE 0
      <4>1. GetFat12Entry(fat', c) = IF next = c THEN fatEntries[next] ELSE GetFat12Entry(fat, c)
        BY <3>3, <3>4, <3>5, <1>3, <1>4, SetThenGet
      <4> QED BY <4>1, <1>3, <1>5
    <3> QED BY <3>4, <3>6, <3>7
  <2> QED BY <2>1, <2>2
<1>8. TableTypeOK'
  BY <1>1, <1>2, <1>7 DEF TableTypeOK
<1>9. LayoutInv' /\ EntryInv'
  <2>1. OutOfSpace' = OutOfSpace
    BY <1>1 DEF OutOfSpace
  <2> QED BY <2>1, <1>1, <1>7 DEF TableInv, LayoutInv, EntryInv
<1>10. RunsLinked'
  BY <1>1, <1>7 DEF TableInv, RunsLinked, Run
<1>11. PackInv' /\ TableHasRoom'
  BY <1>1, <1>7 DEF PackInv, TableHasRoom, GetFat12Entry
<1> QED BY <1>8, <1>9, <1>10, <1>11 DEF TableInv

\* When all entries are packed, all of them read back.
LEMMA PackDoneInv ==
  ASSUME TableInv, PackDone
  PROVE  TableInv'
<1>1. /\ pc = "pack" /\ next > nextCluster /\ pc' = "packed"
      /\ UNCHANGED <<sizes, next, clusters, nextCluster, fatEntries, fat>>
  BY DEF PackDone
<1>2. TableTypeOK'
  BY <1>1 DEF TableInv, TableTypeOK
<1>3. LayoutInv' /\ EntryInv'
  <2>1. OutOfSpace' = OutOfSpace
    BY <1>1 DEF OutOfSpace
  <2> QED BY <2>1, <1>1 DEF TableInv, LayoutInv, EntryInv
<1>4. RunsLinked'
  BY <1>1 DEF TableInv, RunsLinked, Run
<1>5. PackInv' /\ TableHasRoom'
  <2>1. \A c \in 0 .. nextCluster - 1 : c < next
    BY <1>1 DEF TableInv, TableTypeOK
  <2>2. \A c \in 0 .. nextCluster - 1 : GetFat12Entry(fat, c) = fatEntries[c]
    BY <2>1, <1>1 DEF TableInv, PackInv
  <2> QED BY <2>2, <1>1 DEF PackInv, TableHasRoom, GetFat12Entry
<1> QED BY <1>2, <1>3, <1>4, <1>5 DEF TableInv

-----------------------------------------------------------------------------
\* TableInv holds in every state of the builder.
LEMMA Invariance == TableSpec => []TableInv
<1>1. TableInv /\ [TableNext]_tableVars => TableInv'
  <2> SUFFICES ASSUME TableInv, [TableNext]_tableVars PROVE TableInv'
    OBVIOUS
  <2>1. ASSUME NEW nodeSizes \in Seq(Nat), Receive(nodeSizes) PROVE TableInv'
    BY <2>1, ReceiveInv
  <2>2. CASE Place
    BY <2>2, PlaceInv
  <2>3. CASE CheckSpace
    BY <2>3, CheckSpaceInv
  <2>4. CASE Link
    BY <2>4, LinkInv
  <2>5. CASE LinkDone
    BY <2>5, LinkDoneInv
  <2>6. CASE Pack
    BY <2>6, PackStepInv
  <2>7. CASE PackDone
    BY <2>7, PackDoneInv
  <2>8. CASE UNCHANGED tableVars
    <3>1. /\ pc' = pc /\ sizes' = sizes /\ next' = next /\ clusters' = clusters
          /\ nextCluster' = nextCluster /\ fatEntries' = fatEntries /\ fat' = fat
      BY <2>8 DEF tableVars
    <3>2. TableTypeOK' /\ LayoutInv' /\ EntryInv'
      BY <3>1 DEF TableInv, TableTypeOK, LayoutInv, EntryInv, OutOfSpace
    <3>3. RunsLinked' /\ PackInv' /\ TableHasRoom'
      BY <3>1 DEF TableInv, RunsLinked, Run, PackInv, TableHasRoom, OutOfSpace, GetFat12Entry
    <3> QED BY <3>2, <3>3 DEF TableInv
  <2> QED BY <2>1, <2>2, <2>3, <2>4, <2>5, <2>6, <2>7, <2>8 DEF TableNext, MakeTable
<1> QED BY <1>1, InitInv, PTL DEF TableSpec

\* BuildEfiSystemPartition keeps runs, entries and bytes in their ranges.
THEOREM TableTypeCorrect == TableSpec => []TableTypeOK
<1>1. TableInv => TableTypeOK
  BY DEF TableInv
<1> QED BY <1>1, Invariance, PTL

\* BuildEfiSystemPartition gives no cluster to two nodes, and every node one.
THEOREM RunsAreDisjoint == TableSpec => []RunsDisjoint
<1>1. TableInv => RunsDisjoint
  <2> SUFFICES ASSUME TableInv, NEW i \in 1 .. Len(clusters), NEW j \in 1 .. Len(clusters)
               PROVE  /\ Run(i) # {} /\ Run(i) \subseteq 2 .. nextCluster - 1
                      /\ i # j => Run(i) \cap Run(j) = {}
    BY DEF RunsDisjoint
  <2>1. TableTypeOK /\ LayoutInv /\ nextCluster \in Nat /\ i \in Nat /\ j \in Nat
    BY DEF TableInv, TableTypeOK
  <2>2. /\ clusters[i].start \in Nat /\ clusters[i].count \in Nat
        /\ clusters[i].start >= 2 /\ clusters[i].count >= 1
        /\ clusters[i].start + clusters[i].count <= nextCluster
        /\ Run(i) = clusters[i].start .. clusters[i].start + clusters[i].count - 1
    BY <2>1, RunBounds
  <2>3. /\ clusters[j].start \in Nat /\ clusters[j].count \in Nat
        /\ Run(j) = clusters[j].start .. clusters[j].start + clusters[j].count - 1
    BY <2>1, RunBounds
  <2>4. clusters[i].start \in Run(i)
    BY <2>2
  <2>5. Run(i) \subseteq 2 .. nextCluster - 1
    BY <2>1, <2>2
  <2>6. ASSUME i # j PROVE Run(i) \cap Run(j) = {}
    <3>1. CASE i < j
      <4>1. clusters[i].start + clusters[i].count <= clusters[j].start
        BY <3>1, <2>1 DEF LayoutInv
      <4>2. ASSUME NEW c \in Run(i), c \in Run(j) PROVE FALSE
        <5> PICK a, b, m, n : /\ a = clusters[i].start /\ m = clusters[i].count
                              /\ b = clusters[j].start /\ n = clusters[j].count
          OBVIOUS
        <5>1. c \in a .. a + m - 1 /\ c \in b .. b + n - 1
          BY <4>2, <2>2, <2>3
        <5>2. a \in Nat /\ b \in Nat /\ m \in Nat /\ n \in Nat
          BY <2>2, <2>3
        <5>3. a + m <= b
          BY <4>1
        <5> QED BY ONLY <5>1, <5>2, <5>3
      <4> QED BY <4>2
    <3>2. CASE j < i
      <4>1. clusters[j].start + clusters[j].count <= clusters[i].start
        BY <3>2, <2>1 DEF LayoutInv
      <4>2. ASSUME NEW c \in Run(i), c \in Run(j) PROVE FALSE
        <5> PICK a, b, m, n : /\ a = clusters[i].start /\ m = clusters[i].count
                              /\ b = clusters[j].start /\ n = clusters[j].count
          OBVIOUS
        <5>1. c \in a .. a + m - 1 /\ c \in b .. b + n - 1
          BY <4>2, <2>2, <2>3
        <5>2. a \in Nat /\ b \in Nat /\ m \in Nat /\ n \in Nat
          BY <2>2, <2>3
        <5>3. b + n <= a
          BY <4>1
        <5> QED BY ONLY <5>1, <5>2, <5>3
      <4> QED BY <4>2
    <3> QED BY <3>1, <3>2, <2>1, <2>6
  <2> QED BY <2>4, <2>5, <2>6
<1> QED BY <1>1, Invariance, PTL

\* Past the space check of BuildEfiSystemPartition, GetClusterSpan stays inside
\* the disk for every cluster of every node.
THEOREM RunsStayOnDisk == TableSpec => []RunsOnDisk
<1>1. TableInv => RunsOnDisk
  <2> SUFFICES ASSUME TableInv, pc \in {"link", "pack", "packed"},
                      NEW i \in 1 .. Len(clusters), NEW c \in Run(i)
               PROVE  FirstDataSector + (c - 1) * SectorsPerCluster <= TotalSectors
    BY DEF RunsOnDisk
  <2>1. TableTypeOK /\ LayoutInv /\ nextCluster \in Nat /\ ~OutOfSpace
    BY DEF TableInv, TableTypeOK, LayoutInv
  <2>2. /\ clusters[i].start \in Nat /\ clusters[i].count \in Nat
        /\ clusters[i].start >= 2
        /\ clusters[i].start + clusters[i].count <= nextCluster
        /\ Run(i) = clusters[i].start .. clusters[i].start + clusters[i].count - 1
    BY <2>1, RunBounds
  <2>3. c - 1 \in Nat /\ nextCluster - 2 \in Nat /\ c - 1 <= nextCluster - 2
    BY <2>1, <2>2, SMTT(30)
  <2>4. (c - 1) * SectorsPerCluster <= (nextCluster - 2) * SectorsPerCluster
    BY <2>3, GeometryAssumption, ProductMonotone
  <2>5. (c - 1) * SectorsPerCluster \in Nat /\ (nextCluster - 2) * SectorsPerCluster \in Nat
    BY <2>3, GeometryAssumption
  <2> QED BY <2>1, <2>4, <2>5, GeometryAssumption DEF OutOfSpace
<1> QED BY <1>1, Invariance, PTL

\* The clusters BuildEfiSystemPartition hands out are a node's own and on the disk.
THEOREM RunsAreSound == TableSpec => []RunsSound
<1>1. RunsDisjoint /\ RunsOnDisk => RunsSound
  BY DEF RunsSound
<1> QED BY <1>1, RunsAreDisjoint, RunsStayOnDisk, PTL

\* LinkClusterChain makes every run one chain and keeps the others.
THEOREM RunsAreLinked == TableSpec => []RunsLinked
<1>1. TableInv => RunsLinked
  BY DEF TableInv
<1> QED BY <1>1, Invariance, PTL

\* SetFat12Entry never leaves the table: the builder throws only when the space
\* check of BuildEfiSystemPartition fails.
THEOREM TableNeverOverflows == TableSpec => []TableHasRoom
<1>1. TableInv => TableHasRoom
  BY DEF TableInv
<1> QED BY <1>1, Invariance, PTL

\* The entries WriteFat12Entries has packed read back as they were set, though
\* two neighbours share a byte.
THEOREM PackedTableReadsBack == TableSpec => []PackedEntriesKept
<1>1. TableInv => PackedEntriesKept
  BY DEF TableInv, PackInv, PackedEntriesKept
<1> QED BY <1>1, Invariance, PTL

-----------------------------------------------------------------------------
(* The image: what is known of the builder in every state.                 *)

\* The names in the tree, and what tells a directory's from a file's.
ShortNames ==
  {DirName(raw) : raw \in DOMAIN NormalizeName}
  \cup {NormalizeFile[raw] : raw \in DOMAIN NormalizeFile}

IsDirName(name) == name[2] = "" /\ name # <<". ", "">> /\ name # <<"..", "">>

Paths == Seq(ShortNames)
TreeNodes == DOMAIN children \cup DOMAIN data

\* The tree: the children of a directory are nodes with different names, and every
\* node but the root is a child of its directory.
TreeInv ==
  /\ TreeNodes \subseteq Paths /\ Root \in DOMAIN children
  /\ \A d \in DOMAIN children :
       /\ children[d] \in Seq(ShortNames) /\ IsInjective(children[d])
       /\ \A name \in ToSet(children[d]) : Append(d, name) \in TreeNodes
  /\ \A p \in TreeNodes \ {Root} :
       Front(p) \in DOMAIN children /\ Last(p) \in ToSet(children[Front(p)])
  /\ \A d \in DOMAIN children \ {Root} : IsDirName(Last(d))
  /\ \A f \in DOMAIN data : f # Root /\ Last(f)[2] # "" /\ data[f].len \in Nat

\* The file under way: its path has been followed up to directory.
RequestInv ==
  /\ Len(requested) \in Nat /\ \A i \in 1 .. Len(requested) : IsRuntimeFile(requested[i])
  /\ added \in 0 .. Len(requested)
  /\ directory \in DOMAIN children
  /\ IF added < Len(requested) /\ current.path # <<>>
     THEN /\ Len(directory) < Len(current.path)
          /\ \A k \in 1 .. Len(directory) : directory[k] = DirName(current.path[k])
     ELSE directory = Root
  /\ phase = "add" \/ added = Len(requested)

\* A file that was added is there until one of the same short path is.
Content(file) == [id |-> file.id, len |-> file.len]
FilesInv ==
  \A i \in 1 .. added :
    /\ requested[i].path # <<>>
    /\ \A j \in i + 1 .. added : ShortPath(requested[j]) # ShortPath(requested[i])
    => /\ ShortPath(requested[i]) \in DOMAIN data
       /\ data[ShortPath(requested[i])] = Content(requested[i])

\* The walk: nothing is met twice, the directory of what is met was met before, and
\* what is in a directory met is met or pending.
Met == ToSet(pending) \cup ToSet(allDirectories) \cup ToSet(allFiles)
Started == allDirectories # <<>> /\ allDirectories[1] = Root
WalkInv ==
  /\ pending \in Seq(Paths) /\ allDirectories \in Seq(Paths) /\ allFiles \in Seq(Paths)
  /\ phase = "add" => ~Started
  /\ ~Started => pending = <<Root>> /\ allDirectories = <<>> /\ allFiles = <<>>
  /\ phase \notin {"add", "collect"} => pending = <<>>
  /\ IsInjective(pending) /\ IsInjective(allDirectories) /\ IsInjective(allFiles)
  /\ ToSet(pending) \subseteq TreeNodes
  /\ ToSet(allDirectories) \subseteq DOMAIN children /\ ToSet(allFiles) \subseteq DOMAIN data
  /\ ToSet(pending) \cap (ToSet(allDirectories) \cup ToSet(allFiles)) = {}
  /\ \A p \in Met \ {Root} : Front(p) \in ToSet(allDirectories)
  /\ \A p \in TreeNodes \ {Root} : Front(p) \in ToSet(allDirectories) => p \in Met

\* The table is made for the nodes.
PlacedInv ==
  /\ phase \in {"add", "collect", "layout", "write", "done", "thrown"}
  /\ phase \in {"add", "collect"} <=> pc = "collect"
  /\ phase \in {"write", "done"} => pc = "packed"
  /\ pc = "collect" => clusters = <<>>
  /\ pc # "collect" => sizes = [i \in 1 .. Len(nodes) |-> NodeBytes(nodes[i])]
  /\ \A i \in 1 .. Len(clusters) : clusters[i].count = ClusterCount(sizes[i])

\* The runs of the nodes written hold them.
Holds(i) ==
  \A c \in Run(i) :
    c \in DOMAIN disk
    /\ disk[c] = Chunk(Items(nodes[i]), c - clusters[i].start, PerCluster(nodes[i]))
DiskInv ==
  /\ written \in Nat
  /\ phase \notin {"write", "done"} => written = 0
  /\ phase \in {"write", "done"} =>
       /\ root = NodeEntries(Root) /\ written <= Len(nodes)
       /\ \A i \in 1 .. written : Holds(i)
  /\ phase = "done" => written = Len(nodes)

-----------------------------------------------------------------------------
(* Paths and lists.                                                        *)

\* A path and one more segment.
LEMMA AppendParts ==
  ASSUME NEW d \in Paths, NEW n \in ShortNames
  PROVE  /\ Append(d, n) \in Paths /\ Append(d, n) # <<>> /\ Len(Append(d, n)) = Len(d) + 1
         /\ Front(Append(d, n)) = d /\ Last(Append(d, n)) = n
<1>1. /\ Append(d, n) \in Seq(ShortNames) /\ Len(Append(d, n)) = Len(d) + 1
      /\ Append(d, n)[Len(d) + 1] = n /\ \A i \in 1 .. Len(d) : Append(d, n)[i] = d[i]
      /\ Len(d) \in Nat
  BY DEF Paths
<1>2. SubSeq(Append(d, n), 1, Len(d)) = d
  BY <1>1 DEF Paths
<1>3. Append(d, n) # <<>>
  BY <1>1
<1> QED
  BY <1>1, <1>2, <1>3 DEF Paths, Front, Last

\* A path taken apart into its directory and its last segment.
LEMMA PartsAppend ==
  ASSUME NEW p \in Paths, p # <<>>
  PROVE  /\ Front(p) \in Paths /\ Last(p) \in ShortNames /\ Append(Front(p), Last(p)) = p
         /\ Len(p) \in Nat /\ Len(p) >= 1 /\ Len(Front(p)) = Len(p) - 1
         /\ \A k \in 1 .. Len(p) - 1 : Front(p)[k] = p[k]
<1>1. p \in Seq(ShortNames) /\ Len(p) \in Nat /\ Len(p) >= 1
  BY DEF Paths
<1>2. Last(p) \in ShortNames
  BY <1>1 DEF Last
<1>3. /\ Front(p) \in Seq(ShortNames) /\ Len(Front(p)) = Len(p) - 1
      /\ \A k \in 1 .. Len(p) - 1 : Front(p)[k] = p[k]
  <2>1. Len(p) - 1 \in Nat /\ Len(p) - 1 <= Len(p)
    BY <1>1
  <2>2. \A k \in 1 .. Len(p) - 1 : k \in 1 .. Len(p)
    BY <1>1
  <2>3. Front(p) = [k \in 1 .. Len(p) - 1 |-> p[k]]
    BY <1>1, <2>1, <2>2 DEF Front
  <2>4. Front(p) \in Seq(ShortNames)
    BY <1>1, <2>1, <2>2, <2>3
  <2> QED
    BY <2>1, <2>3, <2>4
<1>4. Append(Front(p), Last(p)) = p
  <2>1. /\ Append(Front(p), Last(p)) \in Seq(ShortNames)
        /\ Len(Append(Front(p), Last(p))) = Len(p)
    BY <1>1, <1>2, <1>3
  <2>2. \A k \in 1 .. Len(p) : Append(Front(p), Last(p))[k] = p[k]
    BY <1>1, <1>2, <1>3 DEF Last
  <2> QED
    BY <1>1, <2>1, <2>2, SeqEqual
<1> QED
  BY <1>1, <1>2, <1>3, <1>4 DEF Paths

\* The elements of lists, and lists without repetition.
LEMMA ElementsOf ==
  ASSUME NEW S, NEW s \in Seq(S)
  PROVE  /\ ToSet(s) = {s[i] : i \in 1 .. Len(s)} /\ ToSet(s) \subseteq S /\ Len(s) \in Nat
         /\ IsInjective(s) <=> \A i, j \in 1 .. Len(s) : s[i] = s[j] => i = j
BY DEF ToSet, IsInjective

\* A list with a new last element, as FatDirectoryNode.Children.Add makes it.
LEMMA AppendList ==
  ASSUME NEW S, NEW s \in Seq(S), NEW e \in S, IsInjective(s), e \notin ToSet(s)
  PROVE  /\ Append(s, e) \in Seq(S) /\ ToSet(Append(s, e)) = ToSet(s) \cup {e}
         /\ IsInjective(Append(s, e))
<1>1. /\ Append(s, e) \in Seq(S) /\ Len(Append(s, e)) = Len(s) + 1 /\ Len(s) \in Nat
      /\ Append(s, e)[Len(s) + 1] = e /\ \A i \in 1 .. Len(s) : Append(s, e)[i] = s[i]
  OBVIOUS
<1> PICK t : t = Append(s, e)
  OBVIOUS
<1>2. \A i \in 1 .. Len(t) : t[i] = IF i = Len(s) + 1 THEN e ELSE s[i]
  BY <1>1
<1>3. ToSet(t) = ToSet(s) \cup {e}
  BY <1>1, <1>2 DEF ToSet
<1>4. IsInjective(t)
  BY <1>1, <1>2 DEF ToSet, IsInjective
<1> QED
  BY <1>1, <1>3, <1>4

\* A list without its head.
LEMMA TailList ==
  ASSUME NEW S, NEW s \in Seq(S), s # <<>>, IsInjective(s)
  PROVE  /\ Tail(s) \in Seq(S) /\ Head(s) \in ToSet(s) /\ Head(s) = s[1]
         /\ ToSet(Tail(s)) = ToSet(s) \ {Head(s)} /\ IsInjective(Tail(s))
<1>1. /\ Tail(s) \in Seq(S) /\ Len(Tail(s)) = Len(s) - 1 /\ Head(s) = s[1] /\ Len(s) \in Nat
      /\ Len(s) >= 1 /\ \A i \in 1 .. Len(s) - 1 : Tail(s)[i] = s[i + 1]
  OBVIOUS
<1>2. IsInjective(Tail(s))
  BY <1>1 DEF IsInjective
<1>3. Head(s) \in ToSet(s)
  BY <1>1 DEF ToSet
<1>4. ASSUME NEW e \in ToSet(Tail(s)) PROVE e \in ToSet(s) /\ e # Head(s)
  <2>1. PICK i \in 1 .. Len(s) - 1 : e = s[i + 1]
    BY <1>1 DEF ToSet
  <2>2. i + 1 \in 1 .. Len(s) /\ i + 1 # 1 /\ 1 \in 1 .. Len(s)
    BY <1>1
  <2> QED
    BY <1>1, <2>1, <2>2 DEF ToSet, IsInjective
<1>5. ASSUME NEW e \in ToSet(s), e # Head(s) PROVE e \in ToSet(Tail(s))
  <2>1. PICK i \in 1 .. Len(s) : e = s[i]
    BY DEF ToSet
  <2>2. i - 1 \in 1 .. Len(s) - 1 /\ i = (i - 1) + 1
    BY <1>1, <1>5, <2>1
  <2>3. Tail(s)[i - 1] = e /\ i - 1 \in DOMAIN Tail(s)
    BY <1>1, <2>1, <2>2
  <2> QED
    BY <2>3 DEF ToSet
<1> QED
  BY <1>1, <1>2, <1>3, <1>4, <1>5

\* Two lists that have no element in common.
LEMMA JoinLists ==
  ASSUME NEW S, NEW s \in Seq(S), NEW t \in Seq(S), IsInjective(s), IsInjective(t),
         ToSet(s) \cap ToSet(t) = {}
  PROVE  /\ s \o t \in Seq(S) /\ ToSet(s \o t) = ToSet(s) \cup ToSet(t) /\ IsInjective(s \o t)
<1> PICK u : u = s \o t
  OBVIOUS
<1>1. /\ u \in Seq(S) /\ Len(u) = Len(s) + Len(t) /\ Len(s) \in Nat /\ Len(t) \in Nat
      /\ \A i \in 1 .. Len(u) : u[i] = IF i <= Len(s) THEN s[i] ELSE t[i - Len(s)]
  OBVIOUS
<1>0. DOMAIN u = 1 .. Len(u) /\ DOMAIN s = 1 .. Len(s) /\ DOMAIN t = 1 .. Len(t)
  BY <1>1
<1>2. ASSUME NEW i \in 1 .. Len(u)
      PROVE  \/ i \in 1 .. Len(s) /\ u[i] = s[i] /\ u[i] \in ToSet(s)
             \/ i - Len(s) \in 1 .. Len(t) /\ u[i] = t[i - Len(s)] /\ u[i] \in ToSet(t)
  BY <1>1 DEF ToSet
<1>3. ToSet(u) \subseteq ToSet(s) \cup ToSet(t)
  BY <1>1, <1>2 DEF ToSet
<1>4. ASSUME NEW e \in ToSet(s) PROVE e \in ToSet(u)
  <2>1. PICK i \in 1 .. Len(s) : e = s[i]
    BY DEF ToSet
  <2>2. i \in 1 .. Len(u) /\ u[i] = e
    BY <1>1, <2>1
  <2> QED
    BY <1>0, <2>2 DEF ToSet
<1>5. ASSUME NEW e \in ToSet(t) PROVE e \in ToSet(u)
  <2>1. PICK i \in 1 .. Len(t) : e = t[i]
    BY DEF ToSet
  <2>2. Len(s) + i \in 1 .. Len(u) /\ u[Len(s) + i] = e
    BY <1>1, <2>1
  <2> QED
    BY <1>0, <2>2 DEF ToSet
<1>6. ASSUME NEW i \in 1 .. Len(u), NEW j \in 1 .. Len(u), u[i] = u[j] PROVE i = j
  <2>1. CASE u[i] \in ToSet(s)
    <3>1. /\ i \in 1 .. Len(s) /\ u[i] = s[i]
          /\ j \in 1 .. Len(s) /\ u[j] = s[j]
      BY <1>2, <1>6, <2>1
    <3> QED
      BY <1>0, <1>6, <3>1 DEF IsInjective
  <2>2. CASE u[i] \notin ToSet(s)
    <3>1. /\ i - Len(s) \in 1 .. Len(t) /\ u[i] = t[i - Len(s)]
          /\ j - Len(s) \in 1 .. Len(t) /\ u[j] = t[j - Len(s)]
      BY <1>2, <1>6, <2>2
    <3>2. i - Len(s) = j - Len(s)
      BY <1>0, <1>6, <3>1 DEF IsInjective
    <3> QED
      BY <1>1, <3>2
  <2> QED
    BY <2>1, <2>2
<1>7. IsInjective(u)
  BY <1>1, <1>6 DEF IsInjective
<1> QED
  BY <1>1, <1>3, <1>4, <1>5, <1>7

\* Min is the least element of a set of numbers.
LEMMA LeastOf ==
  ASSUME NEW I, I \subseteq Nat, NEW k \in I, \A i \in I : k <= i
  PROVE  Min(I) = k
<1>1. \A i \in I : (\A j \in I : i <= j) => i = k
  OBVIOUS
<1> QED
  BY <1>1 DEF Min

\* A list of names without its k-th.
LEMMA ListWithout ==
  ASSUME NEW s \in Seq(ShortNames), NEW k \in 1 .. Len(s)
  PROVE  /\ RemoveAt(s, k) \in Seq(ShortNames) /\ Len(RemoveAt(s, k)) = Len(s) - 1
         /\ \A i \in 1 .. Len(s) - 1 : RemoveAt(s, k)[i] = IF i < k THEN s[i] ELSE s[i + 1]
<1>1. Len(s) \in Nat /\ \A i \in 1 .. Len(s) : s[i] \in ShortNames
  OBVIOUS
<1> PICK n : n = Len(s)
  OBVIOUS
<1>2. n \in Nat /\ k \in Int /\ 1 <= k /\ k <= n
  BY <1>1
<1>3. (\A i \in 1 .. k - 1 : s[i] \in ShortNames) /\ \A i \in k + 1 .. n : s[i] \in ShortNames
  BY <1>1, <1>2
<1>5. /\ SubSeq(s, 1, k - 1) \in Seq(ShortNames)
      /\ Len(SubSeq(s, 1, k - 1)) = IF 1 <= k - 1 THEN k - 1 - 1 + 1 ELSE 0
      /\ \A i \in 1 .. k - 1 - 1 + 1 : SubSeq(s, 1, k - 1)[i] = s[1 + i - 1]
  BY <1>2, <1>3, SubSeqProperties
<1>6. /\ SubSeq(s, k + 1, n) \in Seq(ShortNames)
      /\ Len(SubSeq(s, k + 1, n)) = IF k + 1 <= n THEN n - (k + 1) + 1 ELSE 0
      /\ \A i \in 1 .. n - (k + 1) + 1 : SubSeq(s, k + 1, n)[i] = s[(k + 1) + i - 1]
  BY <1>2, <1>3, SubSeqProperties
<1> SUFFICES ASSUME NEW left \in Seq(ShortNames), NEW right \in Seq(ShortNames),
                    Len(left) = k - 1, Len(right) = n - k,
                    \A i \in 1 .. k - 1 : left[i] = s[i],
                    \A i \in 1 .. n - k : right[i] = s[k + i]
             PROVE  /\ left \o right \in Seq(ShortNames) /\ Len(left \o right) = n - 1
                    /\ \A i \in 1 .. n - 1 :
                         (left \o right)[i] = IF i < k THEN s[i] ELSE s[i + 1]
  <2> PICK left, right : left = SubSeq(s, 1, k - 1) /\ right = SubSeq(s, k + 1, n)
    OBVIOUS
  <2>1. left \in Seq(ShortNames) /\ Len(left) = k - 1 /\ \A i \in 1 .. k - 1 : left[i] = s[i]
    BY <1>2, <1>5
  <2>2. right \in Seq(ShortNames) /\ Len(right) = n - k
    BY <1>2, <1>6
  <2>3. \A i \in 1 .. n - k : right[i] = s[k + i]
    <3> SUFFICES ASSUME NEW i \in 1 .. n - k PROVE right[i] = s[k + i]
      OBVIOUS
    <3>1. i \in 1 .. n - (k + 1) + 1 /\ (k + 1) + i - 1 = k + i
      BY <1>2
    <3> QED
      BY <1>6, <3>1
  <2>4. RemoveAt(s, k) = left \o right
    BY DEF RemoveAt
  <2>5. /\ left \o right \in Seq(ShortNames) /\ Len(left \o right) = n - 1
        /\ \A i \in 1 .. n - 1 : (left \o right)[i] = IF i < k THEN s[i] ELSE s[i + 1]
    BY <2>1, <2>2, <2>3
  <2> QED
    BY <2>4, <2>5
<1>7. /\ left \o right \in Seq(ShortNames) /\ Len(left \o right) = Len(left) + Len(right)
      /\ \A i \in 1 .. Len(left) + Len(right) :
           (left \o right)[i] = IF i <= Len(left) THEN left[i] ELSE right[i - Len(left)]
  BY ConcatProperties
<1>8. Len(left) + Len(right) = n - 1
  BY <1>2
<1>9. ASSUME NEW i \in 1 .. n - 1 PROVE (left \o right)[i] = IF i < k THEN s[i] ELSE s[i + 1]
  <2>1. (left \o right)[i] = IF i <= k - 1 THEN left[i] ELSE right[i - (k - 1)]
    BY <1>7, <1>8
  <2>2. CASE i < k
    BY <1>2, <2>1, <2>2
  <2>3. CASE ~ i < k
    <3>1. i - (k - 1) \in 1 .. n - k /\ k + (i - (k - 1)) = i + 1
      BY <1>2, <2>3
    <3>2. right[i - (k - 1)] = s[i + 1]
      BY <3>1
    <3> QED
      BY <1>2, <2>1, <2>3, <3>2
  <2> QED
    BY <2>2, <2>3
<1> QED
  BY <1>7, <1>8, <1>9

\* A list of names without one of them: AddFile's RemoveAll.
LEMMA RemoveFromList ==
  ASSUME NEW s \in Seq(ShortNames), IsInjective(s), NEW e \in ShortNames
  PROVE  /\ RemoveFirst(s, e) \in Seq(ShortNames) /\ IsInjective(RemoveFirst(s, e))
         /\ ToSet(RemoveFirst(s, e)) = ToSet(s) \ {e}
<1>1. DOMAIN s = 1 .. Len(s) /\ Len(s) \in Nat
  OBVIOUS
<1>2. CASE ~ \E i \in 1 .. Len(s) : s[i] = e
  <2>1. RemoveFirst(s, e) = s
    BY <1>2 DEF RemoveFirst
  <2>2. e \notin ToSet(s)
    BY <1>1, <1>2 DEF ToSet
  <2> QED
    BY <2>1, <2>2
<1>3. CASE \E i \in 1 .. Len(s) : s[i] = e
  <2>1. PICK k \in 1 .. Len(s) : s[k] = e
    BY <1>3
  <2>2. {i \in 1 .. Len(s) : s[i] = e} = {k}
    BY <1>1, <2>1 DEF IsInjective
  <2>3. Min({k}) = k
    BY <1>1, <2>1 DEF Min
  <2>4. SelectInSeq(s, LAMBDA v : v = e) = k
    BY <2>2, <2>3 DEF SelectInSeq
  <2>5. RemoveFirst(s, e) = RemoveAt(s, k)
    BY <1>3, <2>4 DEF RemoveFirst
  <2>6. /\ RemoveAt(s, k) \in Seq(ShortNames) /\ Len(RemoveAt(s, k)) = Len(s) - 1
        /\ \A i \in 1 .. Len(s) - 1 : RemoveAt(s, k)[i] = IF i < k THEN s[i] ELSE s[i + 1]
    BY ListWithout
  <2> SUFFICES ASSUME NEW u \in Seq(ShortNames), DOMAIN u = 1 .. Len(s) - 1,
                      \A i \in 1 .. Len(s) - 1 : u[i] = IF i < k THEN s[i] ELSE s[i + 1]
               PROVE  IsInjective(u) /\ ToSet(u) = ToSet(s) \ {e}
    <3>1. DOMAIN RemoveAt(s, k) = 1 .. Len(s) - 1
      BY <2>6
    <3> QED
      BY <2>5, <2>6, <3>1
  <2>9. ASSUME NEW i \in 1 .. Len(s) - 1
        PROVE  \E j \in 1 .. Len(s) : j = (IF i < k THEN i ELSE i + 1) /\ j # k /\ u[i] = s[j]
    <3>1. CASE i < k
      <4>1. i \in 1 .. Len(s) /\ i # k
        BY <1>1, <2>1, <3>1
      <4> QED
        BY <3>1, <4>1
    <3>2. CASE ~ i < k
      <4>1. i + 1 \in 1 .. Len(s) /\ i + 1 # k
        BY <1>1, <2>1, <3>2
      <4> QED
        BY <3>2, <4>1
    <3> QED
      BY <3>1, <3>2
  <2>10. IsInjective(u)
    <3> SUFFICES ASSUME NEW i \in 1 .. Len(s) - 1, NEW j \in 1 .. Len(s) - 1, u[i] = u[j]
                 PROVE  i = j
      BY DEF IsInjective
    <3>1. PICK a \in 1 .. Len(s) : a = (IF i < k THEN i ELSE i + 1) /\ u[i] = s[a]
      BY <2>9
    <3>2. PICK b \in 1 .. Len(s) : b = (IF j < k THEN j ELSE j + 1) /\ u[j] = s[b]
      BY <2>9
    <3>3. a = b
      BY <1>1, <3>1, <3>2 DEF IsInjective
    <3> QED
      BY <1>1, <2>1, <3>1, <3>2, <3>3
  <2>11. ASSUME NEW x \in ToSet(u) PROVE x \in ToSet(s) /\ x # e
    <3>1. PICK i \in 1 .. Len(s) - 1 : x = u[i]
      BY DEF ToSet
    <3>2. PICK j \in 1 .. Len(s) : j # k /\ x = s[j]
      BY <2>9, <3>1
    <3> QED
      BY <1>1, <2>1, <3>2 DEF ToSet, IsInjective
  <2>12. ASSUME NEW x \in ToSet(s), x # e PROVE x \in ToSet(u)
    <3>1. PICK j \in 1 .. Len(s) : x = s[j]
      BY <1>1 DEF ToSet
    <3>2. j # k
      BY <2>1, <2>12, <3>1
    <3>3. \E i \in 1 .. Len(s) - 1 : u[i] = x
      <4>1. CASE j < k
        <5>1. j \in 1 .. Len(s) - 1
          BY <1>1, <2>1, <4>1
        <5> QED
          BY <3>1, <4>1, <5>1
      <4>2. CASE j > k
        <5>1. j - 1 \in 1 .. Len(s) - 1 /\ ~ j - 1 < k /\ (j - 1) + 1 = j
          BY <1>1, <2>1, <4>2
        <5>2. u[j - 1] = x
          BY <3>1, <5>1
        <5> QED
          BY <5>1, <5>2
      <4> QED
        BY <1>1, <2>1, <3>2, <4>1, <4>2
    <3> QED
      BY <3>3 DEF ToSet
  <2> QED
    BY <2>10, <2>11, <2>12
<1> QED
  BY <1>2, <1>3

\* The short path of a file and the directory on the way to it.
LEMMA ShortPathOf ==
  ASSUME NEW file, IsRuntimeFile(file), file.path # <<>>
  PROVE  /\ ShortPath(file) \in Paths /\ ShortPath(file) # <<>>
         /\ Len(ShortPath(file)) = Len(file.path) /\ Len(file.path) \in Nat
         /\ Len(file.path) >= 1
         /\ Last(file.path) \in DOMAIN NormalizeFile
         /\ Last(ShortPath(file)) = NormalizeFile[Last(file.path)]
         /\ \A k \in 1 .. Len(file.path) - 1 :
              /\ file.path[k] \in DOMAIN NormalizeName
              /\ ShortPath(file)[k] = DirName(file.path[k])
<1>1. /\ file.path \in Seq(DOMAIN NormalizeName \cup DOMAIN NormalizeFile)
      /\ Len(file.path) \in Nat /\ Len(file.path) >= 1
  BY DEF IsRuntimeFile
<1>2. \A k \in 1 .. Len(file.path) :
        file.path[k] \in IF k = Len(file.path) THEN DOMAIN NormalizeFile ELSE DOMAIN NormalizeName
  BY DEF IsRuntimeFile
<1> PICK n : n = Len(file.path)
  OBVIOUS
<1> PICK s : s = ShortPath(file)
  OBVIOUS
<1>3. s = [k \in 1 .. n |-> IF k = n THEN NormalizeFile[file.path[k]] ELSE DirName(file.path[k])]
  BY DEF ShortPath
<1>4. \A k \in 1 .. n : s[k] \in ShortNames
  BY <1>2, <1>3 DEF ShortNames
<1>5. s \in Seq(ShortNames) /\ Len(s) = n
  BY <1>1, <1>3, <1>4
<1>6. Last(file.path) = file.path[n] /\ n \in 1 .. n /\ Last(s) = s[n]
  BY <1>1, <1>5 DEF Last
<1>7. file.path[n] \in DOMAIN NormalizeFile /\ s[n] = NormalizeFile[file.path[n]]
  BY <1>2, <1>3, <1>6
<1>8. \A k \in 1 .. n - 1 : k \in 1 .. n /\ k # n
  BY <1>1
<1>9. \A k \in 1 .. n - 1 :
        file.path[k] \in DOMAIN NormalizeName /\ s[k] = DirName(file.path[k])
  BY <1>2, <1>3, <1>8
<1>10. s # <<>>
  BY <1>1, <1>5
<1> QED
  BY <1>1, <1>5, <1>6, <1>7, <1>9, <1>10 DEF Paths

\* The directory reached on the way to a file and the file's name are its short
\* path.
LEMMA ShortPathReached ==
  ASSUME NEW file, IsRuntimeFile(file), file.path # <<>>, NEW d \in Paths,
         Len(d) + 1 = Len(file.path), \A k \in 1 .. Len(d) : d[k] = DirName(file.path[k])
  PROVE  ShortPath(file) = Append(d, NormalizeFile[Last(file.path)])
<1>1. /\ ShortPath(file) \in Paths /\ ShortPath(file) # <<>>
      /\ Len(ShortPath(file)) = Len(d) + 1
      /\ Last(ShortPath(file)) = NormalizeFile[Last(file.path)]
      /\ \A k \in 1 .. Len(d) : ShortPath(file)[k] = d[k]
  BY ShortPathOf DEF Paths
<1>2. /\ Append(Front(ShortPath(file)), Last(ShortPath(file))) = ShortPath(file)
      /\ Front(ShortPath(file)) \in Paths /\ Len(Front(ShortPath(file))) = Len(d)
      /\ \A k \in 1 .. Len(d) : Front(ShortPath(file))[k] = d[k]
  BY <1>1, PartsAppend, SMTT(30) DEF Paths
<1>3. Front(ShortPath(file)) = d
  BY <1>2, SeqEqual DEF Paths
<1> QED
  BY <1>1, <1>2, <1>3

\* A directory's name and a file's.
LEMMA NamesApart ==
  /\ \A raw \in DOMAIN NormalizeName : DirName(raw) \in ShortNames /\ IsDirName(DirName(raw))
  /\ \A raw \in DOMAIN NormalizeFile :
       NormalizeFile[raw] \in ShortNames /\ NormalizeFile[raw][2] # ""
BY NameAssumption DEF ShortNames, DirName, IsDirName

\* Where GetOrAddDirectory makes a directory, the tree stays one.
LEMMA MakeDirectory ==
  ASSUME TreeInv, directory \in DOMAIN children, NEW name \in ShortNames, IsDirName(name),
         Append(directory, name) \notin DOMAIN children,
         children' = [d \in DOMAIN children \cup {Append(directory, name)} |->
                        IF d = Append(directory, name) THEN <<>>
                        ELSE IF d = directory THEN Append(children[d], name)
                        ELSE children[d]],
         data' = data
  PROVE  TreeInv'
<1> PICK path : path = Append(directory, name)
  OBVIOUS
<1>1. /\ directory \in Paths /\ path \in Paths /\ path # Root /\ Front(path) = directory
      /\ Last(path) = name /\ path # directory
  <2>1. directory \in Paths
    BY DEF TreeInv, TreeNodes
  <2>2. /\ path \in Paths /\ path # <<>> /\ Len(path) = Len(directory) + 1
        /\ Front(path) = directory /\ Last(path) = name
    BY <2>1, AppendParts
  <2>3. Len(directory) \in Nat
    BY <2>1 DEF Paths
  <2> QED
    BY <2>1, <2>2, <2>3 DEF Root
<1>2. /\ DOMAIN children' = DOMAIN children \cup {path}
      /\ TreeNodes' = TreeNodes \cup {path}
      /\ children'[path] = <<>> /\ children'[directory] = Append(children[directory], name)
      /\ \A d \in DOMAIN children \ {directory} : children'[d] = children[d]
  BY <1>1 DEF TreeNodes
<1>3. path \notin DOMAIN data
  BY <1>1 DEF TreeInv, IsDirName
<1>4. name \notin ToSet(children[directory])
  BY <1>3 DEF TreeInv, TreeNodes
<1>5. children[directory] \in Seq(ShortNames) /\ IsInjective(children[directory])
  BY DEF TreeInv
<1>6. /\ children'[directory] \in Seq(ShortNames) /\ IsInjective(children'[directory])
      /\ ToSet(children'[directory]) = ToSet(children[directory]) \cup {name}
  BY <1>2, <1>4, <1>5, AppendList
<1>7. TreeNodes' \subseteq Paths /\ Root \in DOMAIN children'
  BY <1>1, <1>2 DEF TreeInv
<1>8. ASSUME NEW d \in DOMAIN children'
      PROVE  /\ children'[d] \in Seq(ShortNames) /\ IsInjective(children'[d])
             /\ \A n \in ToSet(children'[d]) : Append(d, n) \in TreeNodes'
  <2>1. CASE d = path
    <3>1. <<>> \in Seq(ShortNames) /\ IsInjective(<<>>) /\ ToSet(<<>>) = {}
      BY DEF IsInjective, ToSet
    <3> QED
      BY <1>2, <2>1, <3>1
  <2>2. CASE d = directory
    <3>1. \A n \in ToSet(children[directory]) : Append(directory, n) \in TreeNodes
      BY DEF TreeInv
    <3> QED
      BY <1>2, <1>6, <2>2, <3>1
  <2>3. CASE d \in DOMAIN children \ {directory}
    BY <1>2, <2>3 DEF TreeInv
  <2> QED
    BY <1>2, <2>1, <2>2, <2>3
<1>9. ASSUME NEW p \in TreeNodes' \ {Root}
      PROVE  Front(p) \in DOMAIN children' /\ Last(p) \in ToSet(children'[Front(p)])
  <2>1. CASE p = path
    BY <1>1, <1>2, <1>6, <2>1
  <2>2. CASE p \in TreeNodes \ {Root}
    <3>1. Front(p) \in DOMAIN children /\ Last(p) \in ToSet(children[Front(p)])
      BY <2>2 DEF TreeInv
    <3>2. CASE Front(p) = directory
      BY <1>2, <1>6, <3>1, <3>2
    <3>3. CASE Front(p) # directory
      BY <1>2, <3>1, <3>3
    <3> QED
      BY <3>2, <3>3
  <2> QED
    BY <1>2, <2>1, <2>2
<1>10. \A d \in DOMAIN children' \ {Root} : IsDirName(Last(d))
  BY <1>1, <1>2 DEF TreeInv
<1>11. \A f \in DOMAIN data' : f # Root /\ Last(f)[2] # "" /\ data'[f].len \in Nat
  BY DEF TreeInv
<1> QED
  BY <1>7, <1>8, <1>9, <1>10, <1>11 DEF TreeInv, Root

\* Where AddFile adds or replaces a file, it does too.
LEMMA MakeFile ==
  ASSUME TreeInv, directory \in DOMAIN children, NEW name \in ShortNames, name[2] # "",
         NEW content, content.len \in Nat,
         children' = [children EXCEPT ![directory] = Append(RemoveFirst(@, name), name)],
         data' = [f \in DOMAIN data \cup {Append(directory, name)} |->
                    IF f = Append(directory, name) THEN content ELSE data[f]]
  PROVE  TreeInv'
<1> PICK path : path = Append(directory, name)
  OBVIOUS
<1>1. /\ directory \in Paths /\ path \in Paths /\ path # Root /\ Front(path) = directory
      /\ Last(path) = name
  <2>1. directory \in Paths
    BY DEF TreeInv, TreeNodes
  <2> QED
    BY <2>1, AppendParts DEF Root
<1> PICK old : old = RemoveFirst(children[directory], name)
  OBVIOUS
<1>2. /\ DOMAIN children' = DOMAIN children
      /\ TreeNodes' = TreeNodes \cup {path}
      /\ children'[directory] = Append(old, name)
      /\ \A d \in DOMAIN children \ {directory} : children'[d] = children[d]
  BY DEF TreeNodes
<1>3. children[directory] \in Seq(ShortNames) /\ IsInjective(children[directory])
  BY DEF TreeInv
<1>4. /\ old \in Seq(ShortNames) /\ IsInjective(old)
      /\ ToSet(old) = ToSet(children[directory]) \ {name}
  BY <1>3, RemoveFromList
<1>5. /\ Append(old, name) \in Seq(ShortNames) /\ IsInjective(Append(old, name))
      /\ ToSet(Append(old, name)) = ToSet(old) \cup {name}
  <2>1. name \notin ToSet(old)
    BY <1>4
  <2>2. name \in ShortNames /\ old \in Seq(ShortNames) /\ IsInjective(old)
    BY <1>4
  <2> QED
    BY ONLY <2>1, <2>2, AppendList
<1>6. ToSet(children'[directory]) = ToSet(children[directory]) \cup {name}
  BY <1>2, <1>4, <1>5
<1>7. TreeNodes' \subseteq Paths /\ Root \in DOMAIN children'
  BY <1>1, <1>2 DEF TreeInv
<1>8. ASSUME NEW d \in DOMAIN children'
      PROVE  /\ children'[d] \in Seq(ShortNames) /\ IsInjective(children'[d])
             /\ \A n \in ToSet(children'[d]) : Append(d, n) \in TreeNodes'
  <2>1. CASE d = directory
    <3>1. \A n \in ToSet(children[directory]) : Append(directory, n) \in TreeNodes
      BY DEF TreeInv
    <3> QED
      BY <1>2, <1>5, <1>6, <2>1, <3>1
  <2>2. CASE d \in DOMAIN children \ {directory}
    BY <1>2, <2>2 DEF TreeInv
  <2> QED
    BY <1>2, <2>1, <2>2
<1>9. ASSUME NEW p \in TreeNodes' \ {Root}
      PROVE  Front(p) \in DOMAIN children' /\ Last(p) \in ToSet(children'[Front(p)])
  <2>1. CASE p = path
    BY <1>1, <1>2, <1>6, <2>1
  <2>2. CASE p \in TreeNodes \ {Root}
    <3>1. Front(p) \in DOMAIN children /\ Last(p) \in ToSet(children[Front(p)])
      BY <2>2 DEF TreeInv
    <3>2. CASE Front(p) = directory
      BY <1>2, <1>6, <3>1, <3>2
    <3>3. CASE Front(p) # directory
      BY <1>2, <3>1, <3>3
    <3> QED
      BY <3>2, <3>3
  <2> QED
    BY <1>2, <2>1, <2>2
<1>10. \A d \in DOMAIN children' \ {Root} : IsDirName(Last(d))
  BY <1>2 DEF TreeInv
<1>11. \A f \in DOMAIN data' : f # Root /\ Last(f)[2] # "" /\ data'[f].len \in Nat
  BY <1>1 DEF TreeInv
<1> QED
  BY <1>7, <1>8, <1>9, <1>10, <1>11 DEF TreeInv, Root

-----------------------------------------------------------------------------
(* Steps that build the tree.                                              *)

\* The tree and what was asked for.
BuildInv == TreeInv /\ RequestInv /\ FilesInv

\* The file that is added.
LEMMA CurrentFile ==
  ASSUME RequestInv, Adding
  PROVE  /\ added \in Nat /\ added + 1 \in 1 .. Len(requested) /\ Len(requested) \in Nat
         /\ current = requested[added + 1] /\ IsRuntimeFile(current)
BY DEF RequestInv, Adding, current

\* The tree at the start.
LEMMA BuildInit == Init => BuildInv
<1> SUFFICES ASSUME Init PROVE BuildInv
  OBVIOUS
<1>1. children = [d \in {<<>>} |-> <<>>] /\ data = <<>> /\ DOMAIN data = {}
  BY DEF Init, Root
<1>2. TreeInv
  <2>1. TreeNodes = {<<>>} /\ <<>> \in Paths
    BY <1>1 DEF TreeNodes, Paths
  <2>2. <<>> \in Seq(ShortNames) /\ IsInjective(<<>>) /\ ToSet(<<>>) = {}
    BY DEF IsInjective, ToSet
  <2> QED
    BY <1>1, <2>1, <2>2 DEF TreeInv, Root
<1>3. PICK size \in LoaderSizes, list \in RuntimeFileLists : requested = <<LoaderFile(size)>> \o list
  BY DEF Init
<1>4. /\ IsRuntimeFile(LoaderFile(size)) /\ list \in Seq(ToSet(list))
      /\ \A i \in 1 .. Len(list) : IsRuntimeFile(list[i])
  BY FilesAssumption
<1>5. /\ Len(requested) = Len(list) + 1 /\ Len(list) \in Nat
      /\ \A i \in 1 .. Len(requested) :
           requested[i] = IF i = 1 THEN LoaderFile(size) ELSE list[i - 1]
  <2> PICK loader : loader = LoaderFile(size)
    OBVIOUS
  <2> PICK S : S = ToSet(list) \cup {loader}
    OBVIOUS
  <2>1. list \in Seq(S)
    BY <1>4, SeqMonotonic
  <2>2. <<loader>> \in Seq(S) /\ Len(<<loader>>) = 1 /\ <<loader>>[1] = loader
    OBVIOUS
  <2>3. requested = <<loader>> \o list
    BY <1>3
  <2>4. /\ Len(requested) = 1 + Len(list) /\ Len(list) \in Nat
        /\ \A i \in 1 .. 1 + Len(list) :
             requested[i] = IF i <= 1 THEN <<loader>>[i] ELSE list[i - 1]
    BY <2>1, <2>2, <2>3, ConcatProperties
  <2> QED
    BY <2>2, <2>4
<1>6. \A i \in 1 .. Len(requested) : IsRuntimeFile(requested[i])
  <2> SUFFICES ASSUME NEW i \in 1 .. Len(requested) PROVE IsRuntimeFile(requested[i])
    OBVIOUS
  <2>1. i = 1 \/ i - 1 \in 1 .. Len(list)
    BY <1>5
  <2> QED
    BY <1>4, <1>5, <2>1
<1>7. added = 0 /\ directory = <<>> /\ phase = "add"
  BY DEF Init, Root
<1>8. RequestInv
  <2>1. Len(requested) \in Nat /\ added \in 0 .. Len(requested) /\ directory \in DOMAIN children
    BY <1>1, <1>5, <1>7
  <2>2. ASSUME added < Len(requested), current.path # <<>>
        PROVE  Len(directory) < Len(current.path)
    <3>1. IsRuntimeFile(current)
      BY <1>5, <1>6, <1>7 DEF current
    <3>2. Len(current.path) >= 1 /\ Len(current.path) \in Nat
      BY <2>2, <3>1, ShortPathOf
    <3> QED
      BY <1>7, <3>2
  <2> QED
    BY <1>6, <1>7, <2>1, <2>2 DEF RequestInv, Root
<1>9. FilesInv
  BY <1>7 DEF FilesInv
<1> QED
  BY <1>2, <1>8, <1>9 DEF BuildInv

\* GetOrAddDirectory keeps the tree a tree.
LEMMA EnterKeeps ==
  ASSUME BuildInv, EnterDirectory
  PROVE  BuildInv'
<1> PICK raw : raw = current.path[Len(directory) + 1]
  OBVIOUS
<1>1. /\ Adding /\ Len(directory) + 1 < Len(current.path)
      /\ GetOrAddDirectory(raw) /\ UNCHANGED <<requested, added, data, phase>>
  BY DEF EnterDirectory
<1>2. /\ TreeInv /\ RequestInv /\ FilesInv /\ directory \in DOMAIN children
      /\ IsRuntimeFile(current) /\ added < Len(requested)
  BY <1>1, CurrentFile DEF BuildInv, RequestInv, Adding
<1>3. directory \in Paths /\ Len(directory) \in Nat
  <2>1. directory \in Paths
    BY <1>2 DEF TreeInv, TreeNodes
  <2> QED
    BY <2>1 DEF Paths
<1>4. current.path # <<>> /\ Len(current.path) \in Nat /\ raw \in DOMAIN NormalizeName
  <2>1. current.path # <<>>
    BY <1>1, <1>3
  <2>2. /\ Len(current.path) \in Nat
        /\ \A k \in 1 .. Len(current.path) - 1 : current.path[k] \in DOMAIN NormalizeName
    BY <1>2, <2>1, ShortPathOf
  <2>3. Len(directory) + 1 \in 1 .. Len(current.path) - 1
    BY <1>1, <1>3, <2>2
  <2> QED
    BY <2>1, <2>2, <2>3
<1> PICK name : name = DirName(raw)
  OBVIOUS
<1>5. name \in ShortNames /\ IsDirName(name)
  BY <1>4, NamesApart
<1> PICK path : path = Append(directory, name)
  OBVIOUS
<1>6. /\ directory' = path
      /\ children' = IF path \in DOMAIN children THEN children
                     ELSE [d \in DOMAIN children \cup {path} |->
                             IF d = path THEN <<>>
                             ELSE IF d = directory THEN Append(children[d], name)
                             ELSE children[d]]
  BY <1>1 DEF GetOrAddDirectory
<1>7. TreeInv' /\ directory' \in DOMAIN children'
  <2>1. CASE path \in DOMAIN children
    <3>1. children' = children /\ data' = data
      BY <1>1, <1>6, <2>1
    <3> QED
      BY <1>2, <1>6, <2>1, <3>1 DEF TreeInv, TreeNodes
  <2>2. CASE path \notin DOMAIN children
    <3>1. TreeInv'
      BY <1>1, <1>2, <1>5, <1>6, <2>2, MakeDirectory
    <3>2. path \in DOMAIN children'
      BY <1>6, <2>2
    <3> QED
      BY <1>6, <3>1, <3>2
  <2> QED
    BY <2>1, <2>2
<1>8. RequestInv'
  <2>1. current' = current /\ added' = added /\ requested' = requested /\ phase' = phase
    BY <1>1 DEF current
  <2>2. \A k \in 1 .. Len(directory) : directory[k] = DirName(current.path[k])
    BY <1>2, <1>4 DEF RequestInv
  <2>3. /\ Len(path) = Len(directory) + 1 /\ path[Len(directory) + 1] = name
        /\ \A k \in 1 .. Len(directory) : path[k] = directory[k]
    BY <1>3, <1>5, AppendProperties DEF Paths
  <2>4. \A k \in 1 .. Len(path) : path[k] = DirName(current.path[k])
    <3> SUFFICES ASSUME NEW k \in 1 .. Len(path) PROVE path[k] = DirName(current.path[k])
      OBVIOUS
    <3>1. k = Len(directory) + 1 \/ k \in 1 .. Len(directory)
      BY <1>3, <2>3
    <3> QED
      BY <2>2, <2>3, <3>1
  <2>5. Len(path) < Len(current.path)
    BY <1>1, <2>3
  <2> QED
    BY <1>2, <1>4, <1>6, <1>7, <2>1, <2>4, <2>5 DEF RequestInv
<1>9. FilesInv'
  BY <1>1, <1>2 DEF FilesInv
<1> QED
  BY <1>7, <1>8, <1>9 DEF BuildInv

\* The next file starts at the root.
LEMMA NextFile ==
  ASSUME BuildInv, Adding, FileAdded, DOMAIN children' = DOMAIN children
  PROVE  RequestInv'
<1>1. /\ added \in Nat /\ added + 1 \in 1 .. Len(requested) /\ Len(requested) \in Nat
      /\ \A i \in 1 .. Len(requested) : IsRuntimeFile(requested[i])
      /\ Root \in DOMAIN children /\ phase = "add"
  BY CurrentFile DEF BuildInv, RequestInv, TreeInv, Adding
<1>2. requested' = requested /\ added' = added + 1 /\ directory' = <<>> /\ phase' = phase
  BY DEF FileAdded, Root
<1>3. ASSUME added' < Len(requested'), current'.path # <<>>
      PROVE  Len(directory') < Len(current'.path)
  <2>1. current' = requested[added + 2] /\ added + 2 \in 1 .. Len(requested)
    BY <1>1, <1>2, <1>3 DEF current
  <2>2. IsRuntimeFile(requested[added + 2]) /\ requested[added + 2].path # <<>>
    BY <1>1, <1>3, <2>1
  <2>3. Len(requested[added + 2].path) >= 1 /\ Len(requested[added + 2].path) \in Nat
    BY <2>2, ShortPathOf
  <2> QED
    BY <1>2, <2>1, <2>3
<1>4. added' \in 0 .. Len(requested')
  BY <1>1, <1>2
<1> QED
  BY <1>1, <1>2, <1>3, <1>4 DEF RequestInv, Root

\* AddFile keeps the tree a tree and replaces only a file of the same short path.
LEMMA AddKeeps ==
  ASSUME BuildInv, AddRuntimeFile
  PROVE  BuildInv'
<1> PICK raw, content : raw = Last(current.path) /\ content = Content(current)
  OBVIOUS
<1>1. /\ Adding /\ Len(directory) + 1 = Len(current.path) /\ FileAdded
      /\ AddFile(raw, content)
  BY DEF AddRuntimeFile, Content
<1>2. /\ TreeInv /\ RequestInv /\ FilesInv /\ directory \in DOMAIN children
      /\ IsRuntimeFile(current) /\ added < Len(requested) /\ added \in Nat
      /\ added + 1 \in 1 .. Len(requested) /\ current = requested[added + 1]
  BY <1>1, CurrentFile DEF BuildInv, RequestInv, Adding
<1>3. directory \in Paths /\ Len(directory) \in Nat
  <2>1. directory \in Paths
    BY <1>2 DEF TreeInv, TreeNodes
  <2> QED
    BY <2>1 DEF Paths
<1>4. current.path # <<>>
  BY <1>1, <1>3
<1> PICK name : name = NormalizeFile[raw]
  OBVIOUS
<1>5. name \in ShortNames /\ name[2] # ""
  <2>1. raw \in DOMAIN NormalizeFile
    BY <1>2, <1>4, ShortPathOf
  <2> QED
    BY <2>1, NamesApart
<1>6. content.len \in Nat
  BY <1>2 DEF Content, IsRuntimeFile
<1> PICK path : path = Append(directory, name)
  OBVIOUS
<1>7. /\ children' = [children EXCEPT ![directory] = Append(RemoveFirst(@, name), name)]
      /\ data' = [f \in DOMAIN data \cup {path} |-> IF f = path THEN content ELSE data[f]]
  BY <1>1 DEF AddFile
<1>8. TreeInv'
  BY <1>2, <1>5, <1>6, <1>7, MakeFile
<1>9. RequestInv'
  BY <1>1, <1>7, NextFile
<1>10. ShortPath(current) = path
  <2>1. \A k \in 1 .. Len(directory) : directory[k] = DirName(current.path[k])
    BY <1>2, <1>4 DEF RequestInv
  <2> QED
    BY <1>1, <1>2, <1>3, <1>4, <2>1, ShortPathReached
<1>11. FilesInv'
  <2>0. requested' = requested /\ added' = added + 1
    BY <1>1 DEF FileAdded
  <2> SUFFICES ASSUME NEW i \in 1 .. added + 1, requested[i].path # <<>>,
                      \A j \in i + 1 .. added + 1 :
                        ShortPath(requested[j]) # ShortPath(requested[i])
               PROVE  /\ ShortPath(requested[i]) \in DOMAIN data'
                      /\ data'[ShortPath(requested[i])] = Content(requested[i])
    BY <2>0 DEF FilesInv
  <2>1. CASE i = added + 1
    BY <1>2, <1>7, <1>10, <2>1
  <2>2. CASE i # added + 1
    <3>1. i \in 1 .. added /\ added + 1 \in i + 1 .. added + 1
      BY <1>2, <2>2
    <3>2. \A j \in i + 1 .. added : j \in i + 1 .. added + 1
      BY <1>2
    <3>3. /\ ShortPath(requested[i]) \in DOMAIN data
          /\ data[ShortPath(requested[i])] = Content(requested[i])
      BY <1>2, <3>1, <3>2 DEF FilesInv
    <3>4. ShortPath(requested[i]) # path
      BY <1>2, <1>10, <3>1
    <3> QED
      BY <1>7, <3>3, <3>4
  <2> QED
    BY <2>1, <2>2
<1> QED
  BY <1>8, <1>9, <1>11 DEF BuildInv

\* A path without segments adds nothing.
LEMMA SkipKeeps ==
  ASSUME BuildInv, SkipRuntimeFile
  PROVE  BuildInv'
<1>1. /\ Adding /\ current.path = <<>> /\ FileAdded /\ children' = children /\ data' = data
  BY DEF SkipRuntimeFile, tree
<1>2. TreeInv'
  BY <1>1 DEF BuildInv, TreeInv, TreeNodes
<1>3. RequestInv'
  BY <1>1, NextFile
<1>4. /\ added \in Nat /\ current = requested[added + 1] /\ requested' = requested
      /\ added' = added + 1
  BY <1>1, CurrentFile DEF BuildInv, FileAdded
<1>5. FilesInv'
  <2> SUFFICES ASSUME NEW i \in 1 .. added + 1, requested[i].path # <<>>,
                      \A j \in i + 1 .. added + 1 :
                        ShortPath(requested[j]) # ShortPath(requested[i])
               PROVE  /\ ShortPath(requested[i]) \in DOMAIN data
                      /\ data[ShortPath(requested[i])] = Content(requested[i])
    BY <1>1, <1>4 DEF FilesInv
  <2>1. i \in 1 .. added
    BY <1>1, <1>4
  <2>2. \A j \in i + 1 .. added : j \in i + 1 .. added + 1
    BY <1>4
  <2> QED
    BY <2>1, <2>2 DEF BuildInv, FilesInv
<1> QED
  BY <1>2, <1>3, <1>5 DEF BuildInv

\* Every other step leaves the tree alone.
LEMMA TreeStays ==
  ASSUME BuildInv, UNCHANGED <<tree, request>>, phase' = "add" => phase = "add",
         phase' # "add" => phase # "add" \/ added = Len(requested)
  PROVE  BuildInv'
<1>1. /\ children' = children /\ data' = data /\ requested' = requested /\ added' = added
      /\ directory' = directory
  BY DEF tree, request
<1>2. TreeInv'
  BY <1>1 DEF BuildInv, TreeInv, TreeNodes
<1>3. RequestInv'
  BY <1>1 DEF BuildInv, RequestInv, current
<1>4. FilesInv'
  BY <1>1 DEF BuildInv, FilesInv
<1> QED
  BY <1>2, <1>3, <1>4 DEF BuildInv

\* Every step of the builder keeps the tree.
LEMMA BuildStep ==
  ASSUME BuildInv, [Next]_vars
  PROVE  BuildInv'
<1>1. CASE EnterDirectory
  BY <1>1, EnterKeeps
<1>2. CASE AddRuntimeFile
  BY <1>2, AddKeeps
<1>3. CASE SkipRuntimeFile
  BY <1>3, SkipKeeps
<1>4. CASE AllAdded
  BY <1>4, TreeStays DEF AllAdded
<1>5. CASE CollectDirectory \/ CollectFile \/ AllCollected
  BY <1>5, TreeStays DEF CollectDirectory, CollectFile, AllCollected
<1>6. CASE Layout
  <2>1. UNCHANGED <<tree, request>> /\ phase = "layout" /\ phase' # "add"
    BY <1>6 DEF Layout
  <2> QED
    BY <2>1, TreeStays
<1>7. CASE WriteRoot
  <2>1. UNCHANGED <<tree, request>> /\ phase = "layout" /\ phase' # "add"
    BY <1>7 DEF WriteRoot
  <2> QED
    BY <2>1, TreeStays
<1>8. CASE WriteNode \/ Finish
  BY <1>8, TreeStays DEF WriteNode, Finish
<1>9. CASE UNCHANGED vars
  BY <1>9, TreeStays DEF vars
<1> QED
  BY <1>1, <1>2, <1>3, <1>4, <1>5, <1>6, <1>7, <1>8, <1>9 DEF Next

-----------------------------------------------------------------------------
(* Steps that walk through the tree.                                       *)

\* Before the first step of the walk.
AtStart == pending = <<Root>> /\ allDirectories = <<>> /\ allFiles = <<>>

\* Before the walk begins only the root is pending.
LEMMA StartOfWalk == TreeInv /\ AtStart /\ phase \in {"add", "collect"} => WalkInv
<1> SUFFICES ASSUME TreeInv, AtStart, phase \in {"add", "collect"} PROVE WalkInv
  OBVIOUS
<1>1. Root \in DOMAIN children /\ Root \in Paths
  BY DEF TreeInv, TreeNodes
<1>2. /\ pending \in Seq(Paths) /\ ToSet(pending) = {Root} /\ IsInjective(pending)
  <2>1. pending = <<Root>> /\ DOMAIN pending = 1 .. 1 /\ pending[1] = Root
    BY DEF AtStart
  <2> QED
    BY <1>1, <2>1 DEF ToSet, IsInjective
<1>3. \A s \in {allDirectories, allFiles} :
        s = <<>> /\ s \in Seq(Paths) /\ ToSet(s) = {} /\ IsInjective(s)
  <2>1. <<>> \in Seq(Paths) /\ ToSet(<<>>) = {} /\ IsInjective(<<>>)
    BY DEF ToSet, IsInjective
  <2> QED
    BY <2>1 DEF AtStart
<1> QED
  BY <1>1, <1>2, <1>3 DEF WalkInv, AtStart, Started, Met, TreeNodes

\* What is in a directory.
LEMMA PathsInList ==
  ASSUME TreeInv, NEW d \in DOMAIN children
  PROVE  /\ PathsIn(d) \in Seq(Paths) /\ IsInjective(PathsIn(d))
         /\ ToSet(PathsIn(d)) = {p \in TreeNodes \ {Root} : Front(p) = d}
<1>1. /\ d \in Paths /\ children[d] \in Seq(ShortNames) /\ IsInjective(children[d])
      /\ \A name \in ToSet(children[d]) : Append(d, name) \in TreeNodes
      /\ TreeNodes \subseteq Paths
  BY DEF TreeInv, TreeNodes
<1> PICK list : list = children[d]
  OBVIOUS
<1>2. Len(list) \in Nat /\ DOMAIN list = 1 .. Len(list) /\ list \in Seq(ShortNames)
  BY <1>1
<1> PICK s : s = PathsIn(d)
  OBVIOUS
<1>3. s = [i \in 1 .. Len(list) |-> Append(d, list[i])]
  BY DEF PathsIn
<1>4. ASSUME NEW i \in 1 .. Len(list)
      PROVE  /\ list[i] \in ShortNames /\ s[i] \in TreeNodes \ {Root} /\ s[i] \in Paths
             /\ Front(s[i]) = d /\ Last(s[i]) = list[i]
  <2>1. list[i] \in ShortNames /\ list[i] \in ToSet(list)
    BY <1>2 DEF ToSet
  <2> QED
    BY <1>1, <1>3, <2>1, AppendParts DEF Root
<1>5. s \in Seq(Paths) /\ DOMAIN s = 1 .. Len(list)
  BY <1>2, <1>3, <1>4
<1>6. IsInjective(s)
  <2> SUFFICES ASSUME NEW i \in 1 .. Len(list), NEW j \in 1 .. Len(list), s[i] = s[j]
               PROVE  i = j
    BY <1>5 DEF IsInjective
  <2>1. list[i] = list[j]
    BY <1>4
  <2> QED
    BY <1>1, <1>2, <2>1 DEF IsInjective
<1>7. ASSUME NEW p \in TreeNodes \ {Root}, Front(p) = d PROVE p \in ToSet(s)
  <2>1. Last(p) \in ToSet(list) /\ p \in Paths /\ p # <<>>
    BY <1>7 DEF TreeInv, Root
  <2>2. p = Append(d, Last(p))
    BY <1>7, <2>1, PartsAppend
  <2>3. PICK i \in 1 .. Len(list) : Last(p) = list[i]
    BY <1>2, <2>1 DEF ToSet
  <2>4. s[i] = p
    BY <1>3, <2>2, <2>3
  <2> QED
    BY <1>5, <2>4 DEF ToSet
<1>8. ASSUME NEW p \in ToSet(s) PROVE p \in TreeNodes \ {Root} /\ Front(p) = d
  BY <1>4, <1>5 DEF ToSet
<1> QED
  BY <1>5, <1>6, <1>7, <1>8

\* CollectDirectories: the children of a directory become pending.
LEMMA CollectDirectoryKeeps ==
  ASSUME TreeInv, WalkInv, CollectDirectory
  PROVE  WalkInv'
<1> PICK h : h = Head(pending)
  OBVIOUS
<1> PICK rest : rest = Tail(pending)
  OBVIOUS
<1> PICK below : below = PathsIn(h)
  OBVIOUS
<1> PICK K : K = {p \in TreeNodes \ {Root} : Front(p) = h}
  OBVIOUS
<1>1. /\ pending # <<>> /\ h \in DOMAIN children /\ allDirectories' = Append(allDirectories, h)
      /\ pending' = below \o rest /\ phase = "collect" /\ phase' = "collect"
      /\ children' = children /\ data' = data /\ allFiles' = allFiles
  BY DEF CollectDirectory, tree
<1>2. /\ pending \in Seq(Paths) /\ allDirectories \in Seq(Paths) /\ allFiles \in Seq(Paths)
      /\ IsInjective(pending) /\ IsInjective(allDirectories) /\ IsInjective(allFiles)
  BY DEF WalkInv
<1>3. /\ rest \in Seq(Paths) /\ h \in ToSet(pending) /\ h = pending[1]
      /\ ToSet(rest) = ToSet(pending) \ {h} /\ IsInjective(rest)
  BY <1>1, <1>2, TailList
<1>4. h \notin ToSet(allDirectories) /\ h \notin ToSet(allFiles) /\ h \in Paths
  BY <1>1, <1>3 DEF WalkInv, TreeInv, TreeNodes
<1>5. /\ allDirectories' \in Seq(Paths) /\ IsInjective(allDirectories')
      /\ ToSet(allDirectories') = ToSet(allDirectories) \cup {h}
  BY <1>1, <1>2, <1>4, AppendList
<1>6. below \in Seq(Paths) /\ IsInjective(below) /\ ToSet(below) = K
  BY <1>1, PathsInList
<1>7. K \cap Met = {}
  BY <1>4 DEF WalkInv
<1>8. /\ pending' \in Seq(Paths) /\ IsInjective(pending') /\ ToSet(pending') = K \cup ToSet(rest)
  <2>1. ToSet(below) \cap ToSet(rest) = {}
    BY <1>3, <1>6, <1>7 DEF Met
  <2>2. /\ below \o rest \in Seq(Paths) /\ IsInjective(below \o rest)
        /\ ToSet(below \o rest) = ToSet(below) \cup ToSet(rest)
    BY <1>3, <1>6, <2>1, JoinLists, ZenonT(40)
  <2> QED
    BY <1>1, <1>6, <2>2
<1>9. h \notin K
  <2> SUFFICES ASSUME h \in K PROVE FALSE
    OBVIOUS
  <2>1. h \in Paths /\ h # <<>> /\ Front(h) = h
    BY <1>4 DEF Root
  <2>2. Len(Front(h)) = Len(h) - 1 /\ Len(h) \in Nat
    BY <2>1, PartsAppend
  <2> QED
    BY <2>1, <2>2
<1>10. Met' = K \cup Met
  BY <1>1, <1>3, <1>5, <1>8 DEF Met
<1>11. TreeNodes' = TreeNodes
  BY <1>1 DEF TreeNodes
<1>12. Started'
  <2>1. CASE Started
    <3>1. Len(allDirectories) \in Nat /\ Len(allDirectories) >= 1
      BY <1>2, <2>1 DEF Started
    <3>2. allDirectories'[1] = allDirectories[1] /\ allDirectories' # <<>>
      BY <1>1, <1>2, <1>4, <3>1, AppendProperties
    <3> QED
      BY <2>1, <3>2 DEF Started, Root
  <2>2. CASE ~Started
    <3>1. allDirectories = <<>> /\ pending = <<Root>>
      BY <2>2 DEF WalkInv
    <3>2. h = Root
      BY <1>3, <3>1
    <3>3. allDirectories' = <<Root>>
      BY <1>1, <3>1, <3>2
    <3> QED
      BY <3>3 DEF Started, Root
  <2> QED
    BY <2>1, <2>2
<1>13. /\ ToSet(pending') \subseteq TreeNodes' /\ ToSet(allDirectories') \subseteq DOMAIN children'
       /\ ToSet(allFiles') \subseteq DOMAIN data'
  BY <1>1, <1>3, <1>5, <1>8, <1>11 DEF WalkInv
<1>14. ToSet(pending') \cap (ToSet(allDirectories') \cup ToSet(allFiles')) = {}
  BY <1>1, <1>3, <1>5, <1>7, <1>8, <1>9 DEF WalkInv, Met
<1>15. \A p \in Met' \ {Root} : Front(p) \in ToSet(allDirectories')
  BY <1>5, <1>10 DEF WalkInv
<1>16. \A p \in TreeNodes' \ {Root} : Front(p) \in ToSet(allDirectories') => p \in Met'
  BY <1>5, <1>10, <1>11 DEF WalkInv
<1> QED
  BY <1>1, <1>2, <1>5, <1>8, <1>12, <1>13, <1>14, <1>15, <1>16 DEF WalkInv, Root

\* CollectFiles: a file is met.
LEMMA CollectFileKeeps ==
  ASSUME TreeInv, WalkInv, CollectFile
  PROVE  WalkInv'
<1> PICK h : h = Head(pending)
  OBVIOUS
<1>1. /\ pending # <<>> /\ h \notin DOMAIN children /\ allFiles' = Append(allFiles, h)
      /\ pending' = Tail(pending) /\ phase = "collect" /\ phase' = "collect"
      /\ children' = children /\ data' = data /\ allDirectories' = allDirectories
  BY DEF CollectFile, tree
<1>2. /\ pending \in Seq(Paths) /\ allDirectories \in Seq(Paths) /\ allFiles \in Seq(Paths)
      /\ IsInjective(pending) /\ IsInjective(allDirectories) /\ IsInjective(allFiles)
  BY DEF WalkInv
<1>3. /\ pending' \in Seq(Paths) /\ h \in ToSet(pending) /\ h = pending[1]
      /\ ToSet(pending') = ToSet(pending) \ {h} /\ IsInjective(pending')
  BY <1>1, <1>2, TailList
<1>4. h \notin ToSet(allDirectories) /\ h \notin ToSet(allFiles) /\ h \in DOMAIN data
  BY <1>1, <1>3 DEF WalkInv, TreeNodes
<1>5. h \in Paths /\ h # Root
  BY <1>4 DEF TreeInv, TreeNodes
<1>6. /\ allFiles' \in Seq(Paths) /\ IsInjective(allFiles')
      /\ ToSet(allFiles') = ToSet(allFiles) \cup {h}
  BY <1>1, <1>2, <1>4, <1>5, AppendList
<1>7. Met' = Met /\ TreeNodes' = TreeNodes
  BY <1>1, <1>3, <1>6 DEF Met, TreeNodes
<1>8. Started'
  <2>1. Started
    <3> SUFFICES ASSUME ~Started PROVE FALSE
      OBVIOUS
    <3>1. pending = <<Root>>
      BY DEF WalkInv
    <3> QED
      BY <1>3, <1>5, <3>1
  <2> QED
    BY <1>1, <2>1 DEF Started, Root
<1>9. /\ ToSet(pending') \subseteq TreeNodes' /\ ToSet(allDirectories') \subseteq DOMAIN children'
      /\ ToSet(allFiles') \subseteq DOMAIN data'
  BY <1>1, <1>3, <1>4, <1>6, <1>7 DEF WalkInv
<1>10. ToSet(pending') \cap (ToSet(allDirectories') \cup ToSet(allFiles')) = {}
  BY <1>1, <1>3, <1>6 DEF WalkInv
<1>11. \A p \in Met' \ {Root} : Front(p) \in ToSet(allDirectories')
  BY <1>1, <1>7 DEF WalkInv
<1>12. \A p \in TreeNodes' \ {Root} : Front(p) \in ToSet(allDirectories') => p \in Met'
  BY <1>1, <1>7 DEF WalkInv
<1> QED
  BY <1>1, <1>2, <1>3, <1>6, <1>8, <1>9, <1>10, <1>11, <1>12 DEF WalkInv, Root

\* A step that leaves tree and lists alone keeps the walk.
LEMMA WalkStays ==
  ASSUME WalkInv, UNCHANGED <<tree, walk>>, phase' = phase
         \/ (phase # "add" /\ phase' # "add" /\ pending = <<>>)
         \/ (phase # "add" /\ phase' # "add" /\ phase # "collect")
  PROVE  WalkInv'
<1>1. /\ children' = children /\ data' = data /\ pending' = pending
      /\ allDirectories' = allDirectories /\ allFiles' = allFiles
  BY DEF tree, walk
<1>2. TreeNodes' = TreeNodes /\ Met' = Met /\ (Started' <=> Started)
  BY <1>1 DEF TreeNodes, Met, Started, Root
<1>3. /\ phase' = "add" => ~Started'
      /\ phase' \notin {"add", "collect"} => pending' = <<>>
  BY <1>1, <1>2 DEF WalkInv
<1> QED
  BY <1>1, <1>2, <1>3 DEF WalkInv, Root

\* Every step of the builder keeps the walk.
LEMMA WalkStep ==
  ASSUME BuildInv, BuildInv', WalkInv, [Next]_vars
  PROVE  WalkInv'
<1>0. TreeInv /\ TreeInv'
  BY DEF BuildInv
<1>1. CASE EnterDirectory \/ AddRuntimeFile \/ SkipRuntimeFile \/ AllAdded
  <2>1. UNCHANGED walk /\ phase = "add" /\ phase' \in {"add", "collect"}
    BY <1>1 DEF EnterDirectory, AddRuntimeFile, SkipRuntimeFile, AllAdded, FileAdded, Adding
  <2>2. AtStart
    BY <2>1 DEF WalkInv, AtStart
  <2>3. AtStart'
    BY <2>1, <2>2 DEF AtStart, walk, Root
  <2>4. (TreeInv /\ AtStart /\ phase \in {"add", "collect"})' => WalkInv'
    BY StartOfWalk, PTL
  <2> QED
    BY <1>0, <2>1, <2>3, <2>4
<1>2. CASE CollectDirectory
  BY <1>0, <1>2, CollectDirectoryKeeps
<1>3. CASE CollectFile
  BY <1>0, <1>3, CollectFileKeeps
<1>4. CASE AllCollected
  <2>1. UNCHANGED <<tree, walk>> /\ phase = "collect" /\ phase' = "layout" /\ pending = <<>>
    BY <1>4 DEF AllCollected
  <2> QED
    BY <2>1, WalkStays
<1>5. CASE Layout \/ WriteRoot
  <2>1. UNCHANGED <<tree, walk>> /\ phase = "layout" /\ phase' # "add"
    BY <1>5 DEF Layout, WriteRoot
  <2> QED
    BY <2>1, WalkStays
<1>6. CASE WriteNode \/ Finish
  <2>1. UNCHANGED <<tree, walk>> /\ phase = "write" /\ phase' # "add"
    BY <1>6 DEF WriteNode, Finish
  <2> QED
    BY <2>1, WalkStays
<1>7. CASE UNCHANGED vars
  BY <1>7, WalkStays DEF vars
<1> QED
  BY <1>1, <1>2, <1>3, <1>4, <1>5, <1>6, <1>7 DEF Next

\* Tree and walk are as they should be in every state of the builder.
LEMMA TreeWalked == Spec => [](BuildInv /\ WalkInv)
<1>1. Init => BuildInv /\ WalkInv
  <2> SUFFICES ASSUME Init PROVE WalkInv
    BY BuildInit
  <2>1. AtStart /\ phase = "add"
    BY DEF Init, AtStart
  <2> QED
    BY <2>1, BuildInit, StartOfWalk DEF BuildInv
<1>2. BuildInv /\ WalkInv /\ [Next]_vars => (BuildInv /\ WalkInv)'
  BY BuildStep, WalkStep
<1> QED
  BY <1>1, <1>2, PTL DEF Spec

\* A set of numbers that is not empty has a smallest one.
LEMMA Smallest ==
  ASSUME NEW T, T \subseteq Nat, T # {}
  PROVE  \E x \in T : \A y \in T : x <= y
<1>1. PICK x \in T : \A y \in T : ~(<<y, x>> \in OpToRel(<, Nat))
  BY WFMin, NatLessThanWellFounded
<1>2. \A y \in T : <<y, x>> \in OpToRel(<, Nat) <=> y < x
  BY DEF OpToRel
<1>3. x \in Nat
  BY <1>1
<1>4. \A y \in T : ~(y < x)
  BY <1>1, <1>2
<1> QED
  BY <1>3, <1>4

\* Directories and files are different nodes.
LEMMA KindsApart == TreeInv => DOMAIN children \cap DOMAIN data = {}
BY DEF TreeInv, IsDirName

\* When the walk is over, every node is in one of the lists: one of least length that
\* is not would be in a directory that is.
LEMMA WalkComplete ==
  ASSUME TreeInv, WalkInv, pending = <<>>
  PROVE  /\ ToSet(allDirectories) = DOMAIN children /\ ToSet(allFiles) = DOMAIN data
         /\ allDirectories # <<>> /\ allDirectories[1] = Root
<1>1. Started
  BY DEF WalkInv
<1>2. Root \in ToSet(allDirectories)
  <2>1. allDirectories \in Seq(Paths) /\ Len(allDirectories) \in Nat /\ Len(allDirectories) >= 1
    BY <1>1 DEF WalkInv, Started
  <2>2. 1 \in DOMAIN allDirectories
    BY <2>1
  <2> QED
    BY <1>1, <2>2 DEF ToSet, Started
<1>3. Met = ToSet(allDirectories) \cup ToSet(allFiles)
  <2>1. ToSet(pending) = {}
    BY DEF ToSet
  <2> QED
    BY <2>1 DEF Met
<1> PICK missing : missing = TreeNodes \ Met
  OBVIOUS
<1>4. missing = {}
  <2> SUFFICES ASSUME missing # {} PROVE FALSE
    OBVIOUS
  <2> PICK T : T = {Len(p) : p \in missing}
    OBVIOUS
  <2>1. \A p \in missing : p \in Paths /\ p \in TreeNodes /\ p \notin Met
    BY DEF TreeInv
  <2>2. \A p \in missing : Len(p) \in Nat
    BY <2>1 DEF Paths
  <2>3. T \subseteq Nat /\ T # {}
    BY <2>2
  <2>4. PICK n \in T : \A m \in T : n <= m
    BY <2>3, Smallest
  <2>5. PICK p \in missing : Len(p) = n
    BY <2>4
  <2>6. p \in TreeNodes \ {Root} /\ p \in Paths /\ p # <<>>
    BY <1>2, <1>3, <2>1 DEF Root
  <2>7. Front(p) \in DOMAIN children
    BY <2>6 DEF TreeInv
  <2>8. Len(Front(p)) = Len(p) - 1 /\ Len(p) \in Nat
    BY <2>6, PartsAppend
  <2>9. Front(p) \notin missing
    <3> SUFFICES ASSUME Front(p) \in missing PROVE FALSE
      OBVIOUS
    <3>1. Len(Front(p)) \in T
      OBVIOUS
    <3>2. n <= Len(Front(p))
      BY <2>4, <3>1
    <3> QED
      BY <2>5, <2>8, <3>2
  <2>10. Front(p) \in ToSet(allDirectories)
    <3>1. Front(p) \in Met
      BY <2>7, <2>9 DEF TreeNodes
    <3>2. Front(p) \notin DOMAIN data
      BY <2>7, KindsApart
    <3> QED
      BY <1>3, <3>1, <3>2 DEF WalkInv
  <2> QED
    BY <2>1, <2>5, <2>6, <2>10 DEF WalkInv
<1>5. TreeNodes \subseteq ToSet(allDirectories) \cup ToSet(allFiles)
  BY <1>3, <1>4
<1> QED
  BY <1>1, <1>5, KindsApart DEF WalkInv, TreeNodes, Started

\* The list of nodes has every node but the root once.
LEMMA NodesListed ==
  ASSUME TreeInv, WalkInv, pending = <<>>
  PROVE  /\ nodes \in Seq(Paths) /\ IsInjective(nodes) /\ ToSet(nodes) = TreeNodes \ {Root}
         /\ Len(nodes) \in Nat /\ DOMAIN nodes = 1 .. Len(nodes)
         /\ \A i \in 1 .. Len(nodes) : nodes[i] \in TreeNodes \ {Root}
<1>1. /\ allDirectories \in Seq(Paths) /\ IsInjective(allDirectories)
      /\ allFiles \in Seq(Paths) /\ IsInjective(allFiles)
  BY DEF WalkInv
<1>2. /\ ToSet(allDirectories) = DOMAIN children /\ ToSet(allFiles) = DOMAIN data
      /\ allDirectories # <<>> /\ allDirectories[1] = Root
  BY WalkComplete
<1> PICK rest : rest = Tail(allDirectories)
  OBVIOUS
<1>3. /\ rest \in Seq(Paths) /\ IsInjective(rest) /\ ToSet(rest) = DOMAIN children \ {Root}
  BY <1>1, <1>2, TailList
<1>4. ToSet(rest) \cap ToSet(allFiles) = {}
  BY <1>2, <1>3, KindsApart
<1>5. /\ rest \o allFiles \in Seq(Paths) /\ IsInjective(rest \o allFiles)
      /\ ToSet(rest \o allFiles) = ToSet(rest) \cup ToSet(allFiles)
  <2>1. rest \in Seq(Paths) /\ allFiles \in Seq(Paths) /\ IsInjective(rest) /\ IsInjective(allFiles)
    BY <1>1, <1>3
  <2> QED
    BY ONLY <2>1, <1>4, JoinLists
<1>6. nodes = rest \o allFiles
  BY DEF nodes
<1>7. ToSet(nodes) = TreeNodes \ {Root}
  BY <1>2, <1>3, <1>5, <1>6 DEF TreeInv, TreeNodes
<1>8. nodes \in Seq(Paths) /\ Len(nodes) \in Nat /\ DOMAIN nodes = 1 .. Len(nodes)
  BY <1>5, <1>6, LenProperties
<1> QED
  BY <1>5, <1>6, <1>7, <1>8 DEF ToSet

\* The bytes of a node are a number.
LEMMA BytesOfNode ==
  ASSUME TreeInv, NEW node \in TreeNodes
  PROVE  NodeBytes(node) \in Nat
<1>1. CASE node \in DOMAIN children
  <2>1. children[node] \in Seq(ShortNames)
    BY <1>1 DEF TreeInv
  <2>2. Len(children[node]) \in Nat
    BY <2>1
  <2>3. (Len(children[node]) + 2) * EntryBytes \in Nat
    BY <2>2, EntryAssumption
  <2> QED
    BY <1>1, <2>3 DEF NodeBytes
<1>2. CASE node \notin DOMAIN children
  BY <1>2 DEF TreeInv, TreeNodes, NodeBytes
<1> QED
  BY <1>1, <1>2

\* The image's clusters and table are made as FatTable makes them: what holds of
\* its specification holds of BuildEfiSystemPartition as a whole.
THEOREM ImageMakesTable == Spec => TableSpec
<1>1. Init => TableInit
  BY DEF Init
<1>2. BuildInv /\ WalkInv /\ [Next]_vars => [TableNext]_tableVars
  <2> SUFFICES ASSUME BuildInv, WalkInv, [Next]_vars PROVE [TableNext]_tableVars
    OBVIOUS
  <2>1. CASE AllCollected
    <3>1. pending = <<>> /\ Receive([i \in 1 .. Len(nodes) |-> NodeBytes(nodes[i])])
      BY <2>1 DEF AllCollected
    <3>2. Len(nodes) \in Nat /\ \A i \in 1 .. Len(nodes) : nodes[i] \in TreeNodes
      BY <3>1, NodesListed DEF BuildInv
    <3>3. \A i \in 1 .. Len(nodes) : NodeBytes(nodes[i]) \in Nat
      BY <3>2, BytesOfNode DEF BuildInv
    <3>4. [i \in 1 .. Len(nodes) |-> NodeBytes(nodes[i])] \in Seq(Nat)
      BY <3>2, <3>3
    <3> QED
      BY <3>1, <3>4 DEF TableNext
  <2>2. CASE Layout
    BY <2>2 DEF Layout, TableNext
  <2>3. CASE EnterDirectory \/ AddRuntimeFile \/ SkipRuntimeFile \/ AllAdded
    BY <2>3 DEF EnterDirectory, AddRuntimeFile, SkipRuntimeFile, AllAdded, FileAdded
  <2>4. CASE CollectDirectory \/ CollectFile \/ WriteRoot \/ WriteNode \/ Finish
    BY <2>4 DEF CollectDirectory, CollectFile, WriteRoot, WriteNode, Finish
  <2>5. CASE UNCHANGED vars
    BY <2>5 DEF vars
  <2> QED
    BY <2>1, <2>2, <2>3, <2>4, <2>5 DEF Next
<1> QED
  BY <1>1, <1>2, TreeWalked, PTL DEF Spec, TableSpec

-----------------------------------------------------------------------------
(* Steps that place and write the nodes.                                   *)

\* What is known of the table in every state of the builder.
TableFacts == TableInv /\ RunsDisjoint /\ RunsOnDisk

\* Every step keeps the runs those of the nodes.
LEMMA PlacedStep ==
  ASSUME TableFacts, PlacedInv, [Next]_vars
  PROVE  PlacedInv'
<1>1. CASE EnterDirectory \/ AddRuntimeFile \/ SkipRuntimeFile \/ AllAdded
           \/ CollectDirectory \/ CollectFile
  <2>1. UNCHANGED tableVars /\ phase \in {"add", "collect"} /\ phase' \in {"add", "collect"}
    BY <1>1 DEF EnterDirectory, AddRuntimeFile, SkipRuntimeFile, AllAdded, FileAdded, Adding,
                CollectDirectory, CollectFile
  <2>2. pc = "collect" /\ pc' = "collect" /\ clusters' = clusters /\ clusters = <<>>
    BY <2>1 DEF PlacedInv, tableVars
  <2> QED
    BY <2>1, <2>2 DEF PlacedInv
<1>2. CASE AllCollected
  <2>1. /\ phase = "collect" /\ phase' = "layout" /\ pc' = "place" /\ clusters' = clusters
        /\ UNCHANGED <<tree, walk>>
        /\ sizes' = [i \in 1 .. Len(nodes) |-> NodeBytes(nodes[i])]
    BY <1>2 DEF AllCollected, Receive
  <2>2. clusters = <<>>
    BY <2>1 DEF PlacedInv
  <2>3. sizes' = [i \in 1 .. Len(nodes') |-> NodeBytes(nodes[i])']
    BY <2>1 DEF nodes, NodeBytes, tree, walk
  <2> QED
    BY <2>1, <2>2, <2>3 DEF PlacedInv
<1>3. CASE Layout
  <2>1. /\ phase = "layout" /\ MakeTable /\ phase' \in {"layout", "thrown"}
        /\ UNCHANGED <<tree, walk>>
    BY <1>3 DEF Layout
  <2>2. pc # "collect" /\ pc' # "collect" /\ sizes' = sizes
    BY <2>1 DEF MakeTable, Place, CheckSpace, Link, LinkDone, Pack, PackDone
  <2>3. sizes' = [i \in 1 .. Len(nodes') |-> NodeBytes(nodes[i])']
    BY <2>1, <2>2 DEF PlacedInv, nodes, NodeBytes, tree, walk
  <2>4. \A i \in 1 .. Len(clusters') : clusters'[i].count = ClusterCount(sizes[i])
    <3>1. CASE Place
      <4>1. /\ clusters \in Seq(ClusterRun) /\ next = Len(clusters) + 1 /\ Len(clusters) \in Nat
        <5>1. clusters \in Seq(ClusterRun) /\ next \in Nat /\ Len(clusters) = next - 1
          BY <3>1 DEF TableFacts, TableInv, TableTypeOK, LayoutInv, Place
        <5> QED
          BY <5>1
      <4> PICK new : new = [start |-> nextCluster, count |-> ClusterCount(sizes[next])]
        OBVIOUS
      <4>2. clusters' = Append(clusters, new)
        BY <3>1 DEF Place
      <4> PICK S : S = ClusterRun \cup {new}
        OBVIOUS
      <4>3. clusters \in Seq(S) /\ new \in S
        BY <4>1, SeqMonotonic
      <4>4. /\ Len(clusters') = Len(clusters) + 1 /\ clusters'[Len(clusters) + 1] = new
            /\ \A i \in 1 .. Len(clusters) : clusters'[i] = clusters[i]
        BY <4>2, <4>3, AppendProperties
      <4> SUFFICES ASSUME NEW i \in 1 .. Len(clusters')
                   PROVE  clusters'[i].count = ClusterCount(sizes[i])
        OBVIOUS
      <4>5. i = next \/ i \in 1 .. Len(clusters)
        BY <4>1, <4>4
      <4> QED
        BY <4>1, <4>4, <4>5 DEF PlacedInv
    <3>2. CASE ~Place
      <4>1. clusters' = clusters
        BY <2>1, <3>2 DEF MakeTable, CheckSpace, Link, LinkDone, Pack, PackDone
      <4> QED
        BY <4>1 DEF PlacedInv
    <3> QED
      BY <3>1, <3>2
  <2> QED
    BY <2>1, <2>2, <2>3, <2>4 DEF PlacedInv
<1>4. CASE WriteRoot \/ WriteNode \/ Finish
  <2>1. /\ UNCHANGED <<tableVars, tree, walk>> /\ phase \in {"layout", "write"} /\ pc = "packed"
        /\ phase' \in {"write", "done", "thrown"}
    BY <1>4 DEF WriteRoot, WriteNode, Finish, PlacedInv
  <2>2. pc' = pc /\ sizes' = sizes /\ clusters' = clusters
    BY <2>1 DEF tableVars
  <2>3. sizes' = [i \in 1 .. Len(nodes') |-> NodeBytes(nodes[i])']
    BY <2>1, <2>2 DEF PlacedInv, nodes, NodeBytes, tree, walk
  <2> QED
    BY <2>1, <2>2, <2>3 DEF PlacedInv
<1>5. CASE UNCHANGED vars
  <2>1. UNCHANGED <<tableVars, tree, walk, phase>>
    BY <1>5 DEF vars
  <2>2. pc' = pc /\ sizes' = sizes /\ clusters' = clusters /\ phase' = phase
    BY <2>1 DEF tableVars
  <2>3. pc # "collect" => sizes' = [i \in 1 .. Len(nodes') |-> NodeBytes(nodes[i])']
    BY <2>1, <2>2 DEF PlacedInv, nodes, NodeBytes, tree, walk
  <2> QED
    BY <2>2, <2>3 DEF PlacedInv
<1> QED
  BY <1>1, <1>2, <1>3, <1>4, <1>5 DEF Next

\* Once all is placed, every node has its run.
LEMMA RunPerNode ==
  ASSUME BuildInv, WalkInv, TableFacts, PlacedInv,
         phase \in {"layout", "write", "done"}, pc = "packed"
  PROVE  /\ pending = <<>> /\ Len(clusters) = Len(nodes) /\ Len(nodes) \in Nat
         /\ \A i \in 1 .. Len(nodes) :
              /\ nodes[i] \in TreeNodes \ {Root}
              /\ clusters[i].count = ClusterCount(NodeBytes(nodes[i]))
<1>1. pc = "packed" /\ pending = <<>>
  BY DEF PlacedInv, WalkInv
<1>2. /\ Len(nodes) \in Nat /\ \A i \in 1 .. Len(nodes) : nodes[i] \in TreeNodes \ {Root}
  BY <1>1, NodesListed DEF BuildInv
<1>3. sizes = [i \in 1 .. Len(nodes) |-> NodeBytes(nodes[i])] /\ Len(clusters) = Len(sizes)
  BY <1>1 DEF PlacedInv, TableFacts, TableInv, LayoutInv
<1>4. Len(sizes) = Len(nodes)
  BY <1>2, <1>3
<1> QED
  BY <1>1, <1>2, <1>3, <1>4 DEF PlacedInv

\* What is written depends on the tree and the runs only.
LEMMA WritingStays ==
  ASSUME UNCHANGED <<tableVars, tree, walk>>
  PROVE  /\ nodes' = nodes /\ NodeEntries(Root)' = NodeEntries(Root)
         /\ \A node : Items(node)' = Items(node) /\ PerCluster(node)' = PerCluster(node)
         /\ \A i : Run(i)' = Run(i)
<1>1. children' = children /\ data' = data /\ clusters' = clusters
  BY DEF tableVars, tree
<1>2. nodes' = nodes
  BY DEF nodes, walk
<1>3. \A node : RunOf(node)' = RunOf(node)
  BY <1>1, <1>2 DEF RunOf, SelectInSeq
<1>4. \A dir : NodeEntries(dir)' = NodeEntries(dir)
  BY <1>1, <1>3 DEF NodeEntries
<1>5. \A dir : DirectoryEntries(dir)' = DirectoryEntries(dir)
  BY <1>1, <1>3, <1>4 DEF DirectoryEntries, ParentCluster, Root
<1>6. \A node : Items(node)' = Items(node)
  BY <1>1, <1>5 DEF Items
<1>7. \A node : PerCluster(node)' = PerCluster(node)
  BY <1>1 DEF PerCluster
<1>8. \A i : Run(i)' = Run(i)
  BY <1>1 DEF Run
<1>9. NodeEntries(Root)' = NodeEntries(Root)
  BY <1>4 DEF Root
<1> QED
  BY <1>2, <1>6, <1>7, <1>8, <1>9

\* Every step keeps what was written: a node's run is written once, as runs are
\* disjoint.
LEMMA DiskStep ==
  ASSUME BuildInv, WalkInv, TableFacts, PlacedInv, DiskInv, [Next]_vars
  PROVE  DiskInv'
<1>1. CASE EnterDirectory \/ AddRuntimeFile \/ SkipRuntimeFile \/ AllAdded
           \/ CollectDirectory \/ CollectFile \/ AllCollected \/ Layout
  <2>1. UNCHANGED image /\ phase \notin {"write", "done"} /\ phase' \notin {"write", "done"}
    BY <1>1 DEF EnterDirectory, AddRuntimeFile, SkipRuntimeFile, AllAdded, FileAdded, Adding,
                CollectDirectory, CollectFile, AllCollected, Layout
  <2> QED
    BY <2>1 DEF DiskInv, image
<1>2. CASE WriteRoot
  <2>1. /\ phase = "layout" /\ pc = "packed" /\ UNCHANGED <<tableVars, tree, walk, written>>
        /\ \/ phase' = "thrown"
           \/ phase' = "write" /\ root' = NodeEntries(Root)
    BY <1>2 DEF WriteRoot
  <2>2. written = 0 /\ written' = 0 /\ Len(nodes) \in Nat
    BY <2>1, RunPerNode DEF DiskInv
  <2>3. nodes' = nodes /\ NodeEntries(Root)' = NodeEntries(Root)
    BY <2>1, WritingStays
  <2> QED
    BY <2>1, <2>2, <2>3 DEF DiskInv
<1>3. CASE WriteNode
  <2> PICK w, node, run, items, per : /\ w = written + 1 /\ node = nodes[written + 1]
                                      /\ run = clusters[written + 1] /\ items = Items(node)
                                      /\ per = PerCluster(node)
    OBVIOUS
  <2>1. /\ phase = "write" /\ phase' = "write" /\ written < Len(nodes) /\ written' = w
        /\ disk' = WriteRun(run, items, per) /\ UNCHANGED <<tableVars, tree, walk, root>>
    BY <1>3 DEF WriteNode
  <2>2. /\ nodes' = nodes /\ NodeEntries(Root)' = NodeEntries(Root) /\ clusters' = clusters
        /\ \A n : Items(n)' = Items(n) /\ PerCluster(n)' = PerCluster(n)
        /\ \A i : Run(i)' = Run(i)
    BY <2>1, WritingStays DEF tableVars
  <2>3. Len(clusters) = Len(nodes) /\ Len(nodes) \in Nat /\ written \in Nat /\ w \in 1 .. Len(nodes)
    <3>0. phase \in {"layout", "write", "done"} /\ pc = "packed"
      BY <1>3 DEF WriteNode, PlacedInv
    <3>1. Len(clusters) = Len(nodes) /\ Len(nodes) \in Nat
      BY <3>0, RunPerNode
    <3>2. written \in Nat
      BY DEF DiskInv
    <3> QED
      BY <2>1, <3>1, <3>2
  <2>4. Run(w) = run.start .. run.start + run.count - 1
    BY DEF Run
  <2>5. /\ DOMAIN disk' = DOMAIN disk \cup Run(w)
        /\ \A c \in Run(w) : disk'[c] = Chunk(items, c - run.start, per)
        /\ \A c \in DOMAIN disk \ Run(w) : disk'[c] = disk[c]
    BY <2>1, <2>4 DEF WriteRun
  <2>6. ASSUME NEW i \in 1 .. w PROVE Holds(i)'
    <3> SUFFICES ASSUME NEW c \in Run(i)
                 PROVE  /\ c \in DOMAIN disk'
                        /\ disk'[c] = Chunk(Items(nodes[i]), c - clusters[i].start,
                                            PerCluster(nodes[i]))
      BY <2>2 DEF Holds
    <3>1. CASE i = w
      BY <2>3, <2>5, <3>1
    <3>2. CASE i # w
      <4>1. i \in 1 .. written /\ i \in 1 .. Len(clusters) /\ w \in 1 .. Len(clusters)
        BY <2>3, <3>2
      <4>2. /\ c \in DOMAIN disk
            /\ disk[c] = Chunk(Items(nodes[i]), c - clusters[i].start, PerCluster(nodes[i]))
        BY <2>1, <4>1 DEF DiskInv, Holds
      <4>3. c \notin Run(w)
        BY <3>2, <4>1 DEF TableFacts, RunsDisjoint
      <4> QED
        BY <2>5, <4>2, <4>3
    <3> QED
      BY <3>1, <3>2
  <2>7. root' = NodeEntries(Root)' /\ w <= Len(nodes) /\ w \in Nat
    BY <2>1, <2>2, <2>3 DEF DiskInv
  <2> QED
    BY <2>1, <2>2, <2>6, <2>7 DEF DiskInv
<1>4. CASE Finish \/ UNCHANGED vars
  <2>1. /\ UNCHANGED <<tableVars, tree, walk, image>>
        /\ phase' = phase \/ (phase = "write" /\ phase' = "done" /\ written = Len(nodes))
    BY <1>4 DEF Finish, vars
  <2>2. /\ nodes' = nodes /\ NodeEntries(Root)' = NodeEntries(Root) /\ clusters' = clusters
        /\ \A n : Items(n)' = Items(n) /\ PerCluster(n)' = PerCluster(n)
        /\ \A i : Run(i)' = Run(i)
    BY <2>1, WritingStays DEF tableVars
  <2>3. written' = written /\ root' = root /\ disk' = disk
    BY <2>1 DEF image
  <2>4. \A i : Holds(i)' <=> Holds(i)
    BY <2>2, <2>3 DEF Holds
  <2> QED
    BY <2>1, <2>2, <2>3, <2>4 DEF DiskInv
<1> QED
  BY <1>1, <1>2, <1>3, <1>4 DEF Next

\* The inductive invariant of BuildEfiSystemPartition.
ImageInv == BuildInv /\ WalkInv /\ TableFacts /\ PlacedInv /\ DiskInv

\* The invariant of the whole builder.
LEMMA ImageInvariance == Spec => []ImageInv
<1>1. Spec => []TableFacts
  <2>1. TableSpec => []TableInv /\ []RunsDisjoint /\ []RunsOnDisk
    BY Invariance, RunsAreDisjoint, RunsStayOnDisk, PTL
  <2>2. TableInv /\ RunsDisjoint /\ RunsOnDisk => TableFacts
    BY DEF TableFacts
  <2> QED
    BY <2>1, <2>2, ImageMakesTable, PTL
<1>2. Init => PlacedInv /\ DiskInv
  <2> SUFFICES ASSUME Init PROVE PlacedInv /\ DiskInv
    OBVIOUS
  <2>1. phase = "add" /\ pc = "collect" /\ clusters = <<>> /\ written = 0
    BY DEF Init, TableInit
  <2> QED
    BY <2>1 DEF PlacedInv, DiskInv
<1>3. /\ BuildInv /\ WalkInv /\ TableFacts /\ PlacedInv /\ DiskInv /\ [Next]_vars
      => (PlacedInv /\ DiskInv)'
  BY PlacedStep, DiskStep
<1>4. BuildInv /\ WalkInv /\ TableFacts /\ PlacedInv /\ DiskInv => ImageInv
  BY DEF ImageInv
<1> QED
  BY <1>1, <1>2, <1>3, <1>4, TreeWalked, PTL DEF Spec

-----------------------------------------------------------------------------
(* Reading back: lists and capacities.                                     *)

\* The image is finished.
Finished == ImageInv /\ phase = "done"

\* Every node has a place in the list and a run.
LEMMA RunOfNode ==
  ASSUME Finished, NEW i \in 1 .. Len(nodes)
  PROVE  RunOf(nodes[i]) = clusters[i]
<1>1. pending = <<>> /\ TreeInv /\ WalkInv
  BY DEF Finished, ImageInv, BuildInv, WalkInv
<1>2. IsInjective(nodes) /\ DOMAIN nodes = 1 .. Len(nodes) /\ Len(nodes) \in Nat
  BY <1>1, NodesListed
<1>3. {j \in 1 .. Len(nodes) : nodes[j] = nodes[i]} = {i}
  BY <1>2 DEF IsInjective
<1>4. Min({i}) = i
  BY <1>2 DEF Min
<1>5. SelectInSeq(nodes, LAMBDA n : n = nodes[i]) = i
  BY <1>3, <1>4 DEF SelectInSeq
<1> QED
  BY <1>5 DEF RunOf

\* Every node is in the list of nodes.
LEMMA PlaceOfNode ==
  ASSUME Finished, NEW p \in TreeNodes \ {Root}
  PROVE  \E i \in 1 .. Len(nodes) : nodes[i] = p
<1>1. pending = <<>> /\ TreeInv /\ WalkInv
  BY DEF Finished, ImageInv, BuildInv, WalkInv
<1>2. ToSet(nodes) = TreeNodes \ {Root} /\ DOMAIN nodes = 1 .. Len(nodes)
  BY <1>1, NodesListed
<1> QED
  BY <1>2 DEF ToSet

\* A function on 1 .. n is a list.
LEMMA IsList ==
  ASSUME NEW n \in Nat, NEW f, f = [k \in 1 .. n |-> f[k]]
  PROVE  f \in Seq({f[k] : k \in 1 .. n}) /\ Len(f) = n
<1>1. \A k \in 1 .. n : f[k] \in {f[j] : j \in 1 .. n}
  OBVIOUS
<1>2. f \in [1 .. n -> {f[k] : k \in 1 .. n}]
  BY <1>1
<1> QED
  BY <1>2

\* The entries of the children are a list as long as theirs.
LEMMA EntriesList ==
  ASSUME TreeInv, NEW d \in DOMAIN children
  PROVE  /\ NodeEntries(d) \in Seq({NodeEntries(d)[k] : k \in 1 .. Len(children[d])})
         /\ Len(NodeEntries(d)) = Len(children[d]) /\ Len(children[d]) \in Nat
<1>1. Len(children[d]) \in Nat
  <2>1. children[d] \in Seq(ShortNames)
    BY DEF TreeInv
  <2> QED
    BY <2>1
<1>2. NodeEntries(d) = [k \in 1 .. Len(children[d]) |-> NodeEntries(d)[k]]
  BY DEF NodeEntries
<1> QED
  BY <1>1, <1>2, IsList

\* Two elements before a list.
LEMMA TwoFirst ==
  ASSUME NEW S, NEW a \in S, NEW b \in S, NEW s \in Seq(S)
  PROVE  /\ <<a, b>> \o s \in Seq(S) /\ Len(<<a, b>> \o s) = Len(s) + 2
         /\ (<<a, b>> \o s)[1] = a /\ (<<a, b>> \o s)[2] = b
         /\ \A k \in 1 .. Len(s) : (<<a, b>> \o s)[k + 2] = s[k]
<1>1. <<a, b>> \in Seq(S) /\ Len(<<a, b>>) = 2 /\ <<a, b>>[1] = a /\ <<a, b>>[2] = b
  OBVIOUS
<1> PICK t : t = <<a, b>>
  OBVIOUS
<1>2. t \in Seq(S) /\ Len(t) = 2 /\ t[1] = a /\ t[2] = b
  BY <1>1
<1>3. /\ t \o s \in Seq(S) /\ Len(t \o s) = Len(t) + Len(s)
      /\ \A i \in 1 .. Len(t) + Len(s) :
           (t \o s)[i] = IF i <= Len(t) THEN t[i] ELSE s[i - Len(t)]
  BY <1>2, ConcatProperties
<1> PICK u, n : u = t \o s /\ n = Len(s)
  OBVIOUS
<1>4. n \in Nat
  OBVIOUS
<1>5. u \in Seq(S) /\ Len(u) = n + 2
  BY <1>2, <1>3, <1>4
<1>6. \A i \in 1 .. n + 2 : u[i] = IF i <= 2 THEN t[i] ELSE s[i - 2]
  <2>1. Len(t) + Len(s) = n + 2
    BY <1>2, <1>4
  <2> QED
    BY <1>2, <1>3, <2>1
<1>7. u[1] = a /\ u[2] = b
  BY <1>2, <1>4, <1>6
<1>8. ASSUME NEW k \in 1 .. n PROVE u[k + 2] = s[k]
  <2>1. k + 2 \in 1 .. n + 2 /\ (k + 2 > 2) /\ (k + 2) - 2 = k
    BY <1>4
  <2> QED
    BY <1>6, <2>1
<1> QED
  BY <1>5, <1>7, <1>8

\* A directory's items: the two dots, then its children.
LEMMA DirectoryItems ==
  ASSUME TreeInv, NEW d \in DOMAIN children
  PROVE  /\ \E S : DirectoryEntries(d) \in Seq(S)
         /\ Len(DirectoryEntries(d)) = Len(children[d]) + 2
         /\ DirectoryEntries(d)[1] = Entry(SpecialName("."), RunOf(d).start, 0)
         /\ DirectoryEntries(d)[2] = Entry(SpecialName(".."), ParentCluster(d), 0)
         /\ \A k \in 1 .. Len(children[d]) : DirectoryEntries(d)[k + 2] = NodeEntries(d)[k]
<1> PICK s : s = NodeEntries(d)
  OBVIOUS
<1> PICK n : n = Len(children[d])
  OBVIOUS
<1> PICK dot : dot = Entry(SpecialName("."), RunOf(d).start, 0)
  OBVIOUS
<1> PICK up : up = Entry(SpecialName(".."), ParentCluster(d), 0)
  OBVIOUS
<1> PICK S : S = {s[k] : k \in 1 .. n} \cup {dot, up}
  OBVIOUS
<1>1. s \in Seq({s[k] : k \in 1 .. n}) /\ Len(s) = n /\ n \in Nat
  BY EntriesList
<1>2. s \in Seq(S)
  BY <1>1, SeqMonotonic
<1>3. /\ <<dot, up>> \o s \in Seq(S) /\ Len(<<dot, up>> \o s) = Len(s) + 2
      /\ (<<dot, up>> \o s)[1] = dot /\ (<<dot, up>> \o s)[2] = up
      /\ \A k \in 1 .. Len(s) : (<<dot, up>> \o s)[k + 2] = s[k]
  <2>1. dot \in S /\ up \in S
    OBVIOUS
  <2> QED
    BY ONLY <1>2, <2>1, TwoFirst
<1>4. DirectoryEntries(d) = <<dot, up>> \o s
  BY DEF DirectoryEntries
<1> QED
  BY <1>1, <1>3, <1>4

\* The bytes of a file are a list of its length.
LEMMA FileItems ==
  ASSUME NEW content, content.len \in Nat
  PROVE  (\E S : Contents(content) \in Seq(S)) /\ Len(Contents(content)) = content.len
<1> PICK f : f = Contents(content)
  OBVIOUS
<1>1. f = [k \in 1 .. content.len |-> f[k]]
  BY DEF Contents
<1>2. f \in Seq({f[k] : k \in 1 .. content.len}) /\ Len(f) = content.len
  BY <1>1, IsList
<1> QED
  BY <1>2

\* Rounding up: the clusters of a node take all of it.
LEMMA RoundUp ==
  ASSUME NEW a \in Nat, NEW b \in Nat \ {0}
  PROVE  a <= ((a + b - 1) \div b) * b /\ (a + b - 1) \div b \in Nat
<1>1. a + b - 1 \in Nat
  OBVIOUS
<1> PICK c : c = a + b - 1
  OBVIOUS
<1>2. c < (c \div b + 1) * b /\ c \div b \in Nat
  BY <1>1
<1> PICK q \in Nat : q = c \div b
  BY <1>2
<1>3. c < (q + 1) * b /\ (q + 1) * b = q * b + b
  BY <1>2
<1>4. q * b \in Nat
  OBVIOUS
<1> QED
  BY <1>3, <1>4

\* The clusters counted for a size hold that many bytes.
LEMMA Capacity ==
  ASSUME NEW size \in Nat
  PROVE  size <= ClusterCount(size) * ClusterSizeBytes
<1> PICK q : q = (size + ClusterSizeBytes - 1) \div ClusterSizeBytes
  OBVIOUS
<1>1. size <= q * ClusterSizeBytes /\ q \in Nat
  BY RoundUp, GeometryAssumption
<1>2. ClusterCount(size) = IF q > 1 THEN q ELSE 1
  BY DEF ClusterCount, DivideRoundUp
<1>3. CASE q > 1
  BY <1>1, <1>2, <1>3
<1>4. CASE ~ q > 1
  <2>1. q = 0 \/ q = 1
    BY <1>1, <1>4
  <2>2. q * ClusterSizeBytes <= 1 * ClusterSizeBytes
    BY <1>1, <2>1, GeometryAssumption, ProductMonotone
  <2>3. 1 * ClusterSizeBytes \in Nat /\ q * ClusterSizeBytes \in Nat
    BY <1>1, GeometryAssumption
  <2>4. size <= 1 * ClusterSizeBytes
    BY <1>1, <2>2, <2>3
  <2> QED
    BY <1>2, <1>4, <2>4
<1> QED
  BY <1>3, <1>4

\* A common factor is left out of a comparison.
LEMMA CancelFactor ==
  ASSUME NEW a \in Nat, NEW b \in Nat, NEW f \in Nat \ {0}, a * f <= b * f
  PROVE  a <= b
<1> SUFFICES ASSUME b + 1 <= a PROVE FALSE
  OBVIOUS
<1>1. (b + 1) * f <= a * f
  BY ProductMonotone
<1>2. (b + 1) * f = b * f + f /\ b * f \in Nat /\ a * f \in Nat
  OBVIOUS
<1> QED
  BY <1>1, <1>2

\* A cluster holds a whole number of entries.
LEMMA EntriesPerCluster ==
  /\ ClusterSizeBytes \div EntryBytes \in Nat
  /\ ClusterSizeBytes = (ClusterSizeBytes \div EntryBytes) * EntryBytes
<1>1. ASSUME NEW a \in Nat, NEW b \in Nat \ {0}, a % b = 0
      PROVE  a \div b \in Nat /\ a = (a \div b) * b
  BY <1>1, Z3
<1> QED
  BY <1>1, GeometryAssumption, EntryAssumption

\* What is written of a node fits into the clusters counted for it.
LEMMA NodeFits ==
  ASSUME TreeInv, NEW p \in TreeNodes
  PROVE  /\ PerCluster(p) \in Nat /\ \E S : Items(p) \in Seq(S)
         /\ Len(Items(p)) <= ClusterCount(NodeBytes(p)) * PerCluster(p)
<1> PICK size : size = NodeBytes(p)
  OBVIOUS
<1> PICK count : count = ClusterCount(size)
  OBVIOUS
<1>1. size \in Nat /\ count \in Nat /\ size <= count * ClusterSizeBytes
  BY BytesOfNode, CountPositive, Capacity
<1>2. CASE p \in DOMAIN children
  <2> PICK n, per : n = Len(children[p]) + 2 /\ per = ClusterSizeBytes \div EntryBytes
    OBVIOUS
  <2>1. (\E S : Items(p) \in Seq(S)) /\ Len(Items(p)) = n
    BY <1>2, DirectoryItems DEF Items
  <2>2. n \in Nat
    BY <1>2, EntriesList
  <2>3. per \in Nat /\ ClusterSizeBytes = per * EntryBytes /\ PerCluster(p) = per
    BY <1>2, EntriesPerCluster DEF PerCluster
  <2>4. size = n * EntryBytes
    BY <1>2 DEF NodeBytes
  <2>5. count * (per * EntryBytes) = (count * per) * EntryBytes /\ count * per \in Nat
    <3>1. count \in Nat /\ per \in Nat /\ EntryBytes \in Nat
      BY <1>1, <2>3, EntryAssumption
    <3> QED
      BY ONLY <3>1, Z3
  <2>6. n * EntryBytes <= (count * per) * EntryBytes
    BY <1>1, <2>3, <2>4, <2>5
  <2>7. n <= count * per
    BY <2>2, <2>5, <2>6, EntryAssumption, CancelFactor
  <2> QED
    BY <2>1, <2>3, <2>7
<1>3. CASE p \notin DOMAIN children
  <2>1. p \in DOMAIN data /\ data[p].len \in Nat
    BY <1>3 DEF TreeNodes, TreeInv
  <2>2. Items(p) = Contents(data[p]) /\ PerCluster(p) = ClusterSizeBytes /\ size = data[p].len
    BY <1>3 DEF Items, PerCluster, NodeBytes
  <2>3. (\E S : Contents(data[p]) \in Seq(S)) /\ Len(Contents(data[p])) = data[p].len
    BY <2>1, FileItems
  <2> QED
    BY <1>1, <2>2, <2>3, GeometryAssumption
<1> QED
  BY <1>2, <1>3

\* The part of a list that n clusters take.
UpTo(items, n, per) ==
  SubSeq(items, 1, IF n * per > Len(items) THEN Len(items) ELSE n * per)

\* One more cluster takes the next part of the list.
LEMMA JoinChunk ==
  ASSUME NEW S, NEW items \in Seq(S), NEW m \in Nat, NEW per \in Nat
  PROVE  UpTo(items, m, per) \o Chunk(items, m, per) = UpTo(items, m + 1, per)
<1> PICK len, a, b : len = Len(items) /\ a = m * per /\ b = (m + 1) * per
  OBVIOUS
<1>1. len \in Nat /\ a \in Nat /\ b \in Nat /\ a <= b
  <2>1. a \in Nat /\ b = a + per
    OBVIOUS
  <2> QED
    BY <2>1
<1>2. /\ UpTo(items, m, per) = SubSeq(items, 1, IF a > len THEN len ELSE a)
      /\ UpTo(items, m + 1, per) = SubSeq(items, 1, IF b > len THEN len ELSE b)
      /\ Chunk(items, m, per) = SubSeq(items, a + 1, IF b > len THEN len ELSE b)
  BY DEF UpTo, Chunk
<1>3. CASE a > len
  <2>1. b > len /\ len < a + 1
    BY <1>1, <1>3
  <2>2. SubSeq(items, a + 1, len) = <<>>
    BY <1>1, <2>1, SubSeqEmpty
  <2>3. SubSeq(items, 1, len) = items
    BY SubSeqFull
  <2>4. items \o <<>> = items
    BY ConcatEmptySeq
  <2> QED
    BY <1>2, <1>3, <2>1, <2>2, <2>3, <2>4
<1>4. CASE a <= len
  <2> PICK e : e = IF b > len THEN len ELSE b
    OBVIOUS
  <2>1. 1 \in 1 .. len + 1 /\ a \in 1 - 1 .. len /\ e \in a .. len /\ ~(a > len)
    BY <1>1, <1>4
  <2>2. SubSeq(items, 1, a) \o SubSeq(items, a + 1, e) = SubSeq(items, 1, e)
    BY <2>1, ConcatAdjacentSubSeq
  <2> QED
    BY <1>2, <2>1, <2>2
<1> QED
  BY <1>1, <1>3, <1>4

-----------------------------------------------------------------------------
(* Reading back: chains.                                                   *)

\* One cluster of a chain read, and what reading n of them gives.
ReadStep(before) ==
  IF before.at >= FirstEndMark \/ before.at < 2 THEN before
  ELSE [at |-> GetFat12Entry(fat, before.at),
        items |-> before.items \o (IF before.at \in DOMAIN disk
                                   THEN disk[before.at] ELSE <<>>)]
ReadBy(read, cluster) ==
  read = [n \in Nat |-> IF n = 0 THEN [at |-> cluster, items |-> <<>>]
                        ELSE ReadStep(read[n - 1])]

\* ReadChain is read by that recursion.
LEMMA ReadChainIs ==
  ASSUME NEW cluster
  PROVE  ReadChain(cluster) = (CHOOSE read : ReadBy(read, cluster))[DataClusters].items
BY DEF ReadChain, ReadBy, ReadStep

\* There is only one way to read a chain.
LEMMA ReadOnce ==
  ASSUME NEW cluster, NEW f, NEW g, ReadBy(f, cluster), ReadBy(g, cluster)
  PROVE  \A n \in Nat : f[n] = g[n]
<1> PICK T : T = {n \in Nat : f[n] # g[n]}
  OBVIOUS
<1> SUFFICES ASSUME T # {} PROVE FALSE
  OBVIOUS
<1>1. PICK n \in T : \A m \in T : n <= m
  <2>1. T \subseteq Nat
    OBVIOUS
  <2> QED
    BY <2>1, Smallest
<1>2. n \in Nat /\ f[n] # g[n]
  OBVIOUS
<1>3. n # 0
  BY <1>2 DEF ReadBy
<1>4. n - 1 \in Nat /\ n - 1 \notin T
  BY <1>1, <1>2, <1>3
<1>5. f[n] = ReadStep(f[n - 1]) /\ g[n] = ReadStep(g[n - 1])
  BY <1>2, <1>3 DEF ReadBy
<1> QED
  BY <1>2, <1>4, <1>5

\* A run that is one chain and holds a list reads back as the list.
LEMMA RunReadsBack ==
  ASSUME NEW start \in Nat, NEW count \in Nat, NEW per \in Nat, NEW S, NEW items \in Seq(S),
         start >= 2, count >= 1, start + count <= FirstEndMark, count <= DataClusters,
         DataClusters \in Nat, Len(items) <= count * per,
         \A k \in 0 .. count - 1 :
           /\ start + k \in DOMAIN disk /\ disk[start + k] = Chunk(items, k, per)
           /\ GetFat12Entry(fat, start + k) = IF k = count - 1 THEN EndOfChain ELSE start + k + 1
  PROVE  ReadChain(start) = items
<1> PICK W : W = [n \in Nat |-> [at |-> IF n < count THEN start + n ELSE EndOfChain,
                                 items |-> UpTo(items, n, per)]]
  OBVIOUS
<1>1. \A n \in Nat : /\ W[n].at = IF n < count THEN start + n ELSE EndOfChain
                     /\ W[n].items = UpTo(items, n, per)
  OBVIOUS
<1>2. ASSUME NEW n \in Nat, n >= count PROVE UpTo(items, n, per) = items
  <2> PICK a : a = n * per
    OBVIOUS
  <2>1. count * per <= a /\ count * per \in Nat /\ a \in Nat
    BY <1>2, ProductMonotone
  <2> PICK c, len : c = count * per /\ len = Len(items)
    OBVIOUS
  <2>2. c <= a /\ c \in Nat /\ len <= c /\ len \in Nat
    BY <2>1, Zenon, LenProperties
  <2>3. a > len \/ a = len
    BY ONLY <2>1, <2>2
  <2>4. UpTo(items, n, per) = SubSeq(items, 1, IF a > len THEN len ELSE a)
    BY Zenon DEF UpTo
  <2>5. UpTo(items, n, per) = SubSeq(items, 1, Len(items))
    BY <2>3, <2>4
  <2> QED
    BY <2>5, SubSeqFull
<1>3. W[0] = [at |-> start, items |-> <<>>]
  <2>1. 0 * per = 0 /\ Len(items) \in Nat
    OBVIOUS
  <2>2. UpTo(items, 0, per) = SubSeq(items, 1, 0)
    BY <2>1 DEF UpTo
  <2>3. SubSeq(items, 1, 0) = <<>>
    BY SubSeqEmpty
  <2> QED
    BY <2>2, <2>3
<1>4. ASSUME NEW m \in Nat PROVE W[m + 1] = ReadStep(W[m])
  <2>1. W[m + 1] = [at |-> IF m + 1 < count THEN start + (m + 1) ELSE EndOfChain,
                    items |-> UpTo(items, m + 1, per)]
    OBVIOUS
  <2>2. CASE m < count
    <3>1. W[m].at = start + m /\ W[m].items = UpTo(items, m, per)
      BY <1>1, <2>2
    <3>2. m \in 0 .. count - 1 /\ start + m < FirstEndMark /\ start + m >= 2
      BY <2>2 DEF FirstEndMark
    <3>3. /\ start + m \in DOMAIN disk /\ disk[start + m] = Chunk(items, m, per)
          /\ GetFat12Entry(fat, start + m) = IF m = count - 1 THEN EndOfChain ELSE start + m + 1
      BY <3>2
    <3> PICK c : c = start + m
      OBVIOUS
    <3>4. ReadStep(W[m]) = [at |-> GetFat12Entry(fat, c),
                            items |-> UpTo(items, m, per) \o Chunk(items, m, per)]
      <4>1. ~(c >= FirstEndMark) /\ ~(c < 2)
        BY <3>2 DEF FirstEndMark
      <4> QED
        BY <3>1, <3>3, <4>1 DEF ReadStep
    <3>5. UpTo(items, m, per) \o Chunk(items, m, per) = UpTo(items, m + 1, per)
      BY JoinChunk
    <3>6. GetFat12Entry(fat, c) = IF m + 1 < count THEN start + (m + 1) ELSE EndOfChain
      BY <2>2, <3>3
    <3> QED
      BY <2>1, <3>4, <3>5, <3>6
  <2>3. CASE ~(m < count)
    <3>1. W[m].at = EndOfChain
      BY <1>1, <2>3
    <3>2. ReadStep(W[m]) = W[m]
      BY <3>1 DEF ReadStep, EndOfChain, FirstEndMark
    <3>3. ~(m + 1 < count) /\ m >= count /\ m + 1 >= count
      BY <2>3
    <3>4. UpTo(items, m, per) = items /\ UpTo(items, m + 1, per) = items
      BY <1>2, <3>3
    <3> QED
      BY <2>1, <2>3, <3>2, <3>3, <3>4
  <2> QED
    BY <2>2, <2>3
<1>5. ReadBy(W, start)
  <2>1. ASSUME NEW n \in Nat
        PROVE  W[n] = IF n = 0 THEN [at |-> start, items |-> <<>>] ELSE ReadStep(W[n - 1])
    <3>1. CASE n = 0
      BY <1>3, <3>1
    <3>2. CASE n # 0
      <4>1. n - 1 \in Nat /\ (n - 1) + 1 = n
        BY <3>2
      <4>2. W[(n - 1) + 1] = ReadStep(W[n - 1])
        BY <1>4, <4>1
      <4> QED
        BY <3>2, <4>1, <4>2
    <3> QED
      BY <3>1, <3>2
  <2>2. W = [n \in Nat |-> W[n]]
    OBVIOUS
  <2> QED
    BY <2>1, <2>2 DEF ReadBy
<1> PICK f : f = CHOOSE read : ReadBy(read, start)
  OBVIOUS
<1>6. ReadBy(f, start)
  BY <1>5
<1>7. f[DataClusters] = W[DataClusters]
  BY <1>5, <1>6, ReadOnce
<1>8. W[DataClusters].items = items
  BY <1>1, <1>2
<1> QED
  BY <1>7, <1>8, ReadChainIs

\* The run of a node, with its chain, lies in front of the end marks.
LEMMA ChainOfRun ==
  ASSUME TableInv, RunsOnDisk, pc = "packed", NEW i \in 1 .. Len(clusters)
  PROVE  /\ clusters[i].start \in Nat /\ clusters[i].count \in Nat
         /\ clusters[i].start >= 2 /\ clusters[i].count >= 1
         /\ clusters[i].start + clusters[i].count <= FirstEndMark
         /\ clusters[i].count <= DataClusters /\ DataClusters \in Nat
         /\ \A k \in 0 .. clusters[i].count - 1 :
              /\ clusters[i].start + k \in Run(i)
              /\ GetFat12Entry(fat, clusters[i].start + k) =
                   IF k = clusters[i].count - 1 THEN EndOfChain ELSE clusters[i].start + k + 1
<1> PICK start, count : start = clusters[i].start /\ count = clusters[i].count
  OBVIOUS
<1>1. TableTypeOK /\ LayoutInv /\ RunsLinked /\ PackInv
  BY DEF TableInv
<1>2. /\ start \in Nat /\ count \in Nat /\ start >= 2 /\ count >= 1
      /\ start + count <= nextCluster /\ Run(i) = start .. start + count - 1
  BY <1>1, RunBounds
<1>3. nextCluster \in Nat /\ nextCluster >= 2 /\ ~OutOfSpace
  BY <1>1 DEF TableTypeOK, LayoutInv
<1>4. nextCluster < FirstEndMark /\ nextCluster - 2 <= DataClusters /\ DataClusters \in Nat
  <2> PICK space : space = TotalSectors - FirstDataSector
    OBVIOUS
  <2>1. nextCluster - 2 \in Nat /\ space \in Nat /\ SectorsPerCluster \in Nat \ {0}
    BY <1>3, GeometryAssumption
  <2>2. (nextCluster - 2) * SectorsPerCluster <= space
    <3>1. (nextCluster - 2) * SectorsPerCluster \in Nat
      BY <2>1
    <3> QED
      BY <1>3, <3>1, GeometryAssumption DEF OutOfSpace
  <2>3. nextCluster - 2 <= space \div SectorsPerCluster
    BY <2>1, <2>2, QuotientBound
  <2>4. space \div SectorsPerCluster \in Nat
    BY <2>1
  <2>5. nextCluster < FirstEndMark
    BY <1>3, Room
  <2> QED
    BY <2>3, <2>4, <2>5 DEF DataClusters
<1>5. start + count <= FirstEndMark /\ count <= DataClusters
  BY <1>2, <1>3, <1>4, SMTT(30) DEF FirstEndMark
<1>6. ASSUME NEW k \in 0 .. count - 1
      PROVE  /\ start + k \in Run(i)
             /\ GetFat12Entry(fat, start + k) =
                  IF k = count - 1 THEN EndOfChain ELSE start + k + 1
  <2> PICK c : c = start + k
    OBVIOUS
  <2>0. start \in Nat /\ count \in Nat /\ start + count <= nextCluster /\ nextCluster \in Nat
        /\ c = start + k /\ k \in 0 .. count - 1
    BY <1>2, <1>3
  <2>1. c \in start .. start + count - 1 /\ c \in 0 .. nextCluster - 1
    BY ONLY <2>0
  <2>2. fatEntries[c] = IF c + 1 \in Run(i) THEN c + 1 ELSE EndOfChain
    BY <1>1, <1>2, <2>1 DEF RunsLinked
  <2>3. GetFat12Entry(fat, c) = fatEntries[c]
    BY <1>1, <2>1 DEF PackInv
  <2>4. c + 1 \in start .. start + count - 1 <=> k # count - 1
    BY ONLY <2>0
  <2>5. c + 1 = start + k + 1
    BY ONLY <2>0
  <2> QED
    BY <1>2, <2>1, <2>2, <2>3, <2>4, <2>5
<1> QED
  BY <1>2, <1>4, <1>5, <1>6

\* Every node reads back as what was written of it.
LEMMA NodeReadsBack ==
  ASSUME Finished, NEW p \in TreeNodes \ {Root}
  PROVE  ReadChain(RunOf(p).start) = Items(p)
<1>1. PICK i \in 1 .. Len(nodes) : nodes[i] = p
  BY PlaceOfNode
<1>2. RunOf(p) = clusters[i]
  BY <1>1, RunOfNode
<1>3. /\ BuildInv /\ WalkInv /\ TableFacts /\ PlacedInv /\ DiskInv /\ phase = "done"
      /\ pc = "packed" /\ TreeInv /\ TableInv /\ RunsOnDisk
  BY DEF Finished, ImageInv, BuildInv, TableFacts, PlacedInv
<1>4. /\ Len(clusters) = Len(nodes) /\ Len(nodes) \in Nat
      /\ clusters[i].count = ClusterCount(NodeBytes(p))
  BY <1>1, <1>3, RunPerNode
<1>5. Holds(i)
  BY <1>1, <1>3 DEF DiskInv
<1> PICK start, count, per, items :
      /\ start = clusters[i].start /\ count = clusters[i].count
      /\ per = PerCluster(p) /\ items = Items(p)
  OBVIOUS
<1>6. /\ start \in Nat /\ count \in Nat /\ start >= 2 /\ count >= 1
      /\ start + count <= FirstEndMark /\ count <= DataClusters /\ DataClusters \in Nat
      /\ \A k \in 0 .. count - 1 :
           /\ start + k \in Run(i)
           /\ GetFat12Entry(fat, start + k) = IF k = count - 1 THEN EndOfChain ELSE start + k + 1
  BY <1>3, <1>4, ChainOfRun
<1>7. per \in Nat /\ (\E S : items \in Seq(S)) /\ Len(items) <= count * per
  BY <1>3, <1>4, NodeFits
<1>8. PICK S : items \in Seq(S)
  BY <1>7
<1>9. \A k \in 0 .. count - 1 : start + k \in DOMAIN disk /\ disk[start + k] = Chunk(items, k, per)
  <2> SUFFICES ASSUME NEW k \in 0 .. count - 1
               PROVE  start + k \in DOMAIN disk /\ disk[start + k] = Chunk(items, k, per)
    OBVIOUS
  <2>1. (start + k) - start = k /\ start + k \in Run(i)
    BY <1>6
  <2> QED
    BY <1>1, <1>5, <2>1 DEF Holds
<1>10. ReadChain(start) = items
  BY ONLY <1>6, <1>7, <1>8, <1>9, RunReadsBack
<1> QED
  BY <1>2, <1>10

-----------------------------------------------------------------------------
(* Reading back: directories and paths.                                    *)

\* The name a reader sees of an entry.
SeenName(entry) == FatNameToStr(entry.name)

\* A short name is padded with blanks and read as it was.
LEMMA NameKept ==
  ASSUME NEW name \in ShortNames
  PROVE  FatNameToStr(WriteShortName(name)) = name
<1>1. \E stem, ext : name = <<stem, ext>> /\ stem # ". "
  <2>1. ASSUME NEW raw \in DOMAIN NormalizeName, name = DirName(raw)
        PROVE  name = <<NormalizeName[raw], "">> /\ NormalizeName[raw] # ". "
    BY <2>1, NameAssumption DEF DirName
  <2>2. ASSUME NEW raw \in DOMAIN NormalizeFile, name = NormalizeFile[raw]
        PROVE  name = <<name[1], name[2]>> /\ name[1] # ". "
    BY <2>2, NameAssumption, Zenon
  <2> QED
    BY <2>1, <2>2, Zenon DEF ShortNames
<1> PICK stem, ext : name = <<stem, ext>> /\ stem # ". "
  BY <1>1
<1>2. name[1] = stem /\ name[2] = ext
  OBVIOUS
<1>3. WriteShortName(name) = [stem |-> stem, ext |-> ext, fill |-> "blank"]
  BY ONLY <1>2 DEF WriteShortName, NameField
<1>4. TrimTrailingBlanks(stem) = stem
  BY DEF TrimTrailingBlanks
<1>5. FatNameToStr(WriteShortName(name)) = <<stem, ext>>
  BY ONLY <1>3, <1>4 DEF FatNameToStr
<1> QED
  BY <1>5

\* Of the two special names a reader sees the second as it should be.
LEMMA SpecialNamesSeen ==
  /\ FatNameToStr(SpecialName(".")) = <<". ", "">>
  /\ FatNameToStr(SpecialName("..")) = <<"..", "">>
BY DEF FatNameToStr, SpecialName, NameField

\* The only entry of a name is the one that is found.
LEMMA FindOnly ==
  ASSUME NEW entries, NEW n \in Nat, Len(entries) = n, NEW k \in 1 .. n, NEW name,
         \A i \in 1 .. n : SeenName(entries[i]) = name <=> i = k
  PROVE  Find(entries, name) = entries[k]
<1>1. {i \in 1 .. Len(entries) : FatNameToStr(entries[i].name) = name} = {k}
  BY DEF SeenName
<1>2. Min({k}) = k
  BY DEF Min
<1>3. SelectInSeq(entries, LAMBDA e : FatNameToStr(e.name) = name) = k
  BY <1>1, <1>2 DEF SelectInSeq
<1>4. k # 0
  OBVIOUS
<1> QED
  BY <1>3, <1>4 DEF Find

\* What the entry of a node says, and what a reader finds in a directory.
EntryOf(p) ==
  Entry(WriteShortName(Last(p)), RunOf(p).start, IF p \in DOMAIN children THEN 0 ELSE data[p].len)
EntriesOf(d) == IF d = Root THEN root ELSE ReadChain(RunOf(d).start)

\* The fields of an entry.
LEMMA EntryFields ==
  ASSUME NEW e, NEW name, NEW cluster, NEW size, e = Entry(name, cluster, size)
  PROVE  e.name = name /\ e.cluster = cluster /\ e.size = size
BY DEF Entry

\* No node is called what a reader sees of the dots.
LEMMA NodeNames ==
  ASSUME TreeInv, NEW p \in TreeNodes \ {Root}
  PROVE  Last(p) # <<". ", "">> /\ Last(p) # <<"..", "">>
<1>1. CASE p \in DOMAIN children
  BY <1>1 DEF TreeInv, IsDirName
<1>2. CASE p \in DOMAIN data
  <2>1. Last(p)[2] # ""
    BY <1>2 DEF TreeInv
  <2>2. <<". ", "">>[2] = "" /\ <<"..", "">>[2] = ""
    OBVIOUS
  <2> QED
    BY <2>1, <2>2
<1> QED
  BY <1>1, <1>2 DEF TreeNodes

\* In the directory of a node a reader finds the entry of the node.
LEMMA FindChild ==
  ASSUME Finished, NEW p \in TreeNodes \ {Root}
  PROVE  /\ Front(p) \in DOMAIN children
         /\ Find(EntriesOf(Front(p)), Last(p)) = EntryOf(p)
<1>1. TreeInv /\ root = NodeEntries(Root)
  BY DEF Finished, ImageInv, BuildInv, DiskInv
<1> PICK d, name : d = Front(p) /\ name = Last(p)
  OBVIOUS
<1>2. p \in Paths /\ p # <<>>
  BY <1>1 DEF TreeInv, Root
<1>3. d \in DOMAIN children /\ name \in ToSet(children[d]) /\ p = Append(d, name)
  BY <1>1, <1>2, PartsAppend DEF TreeInv
<1>4. children[d] \in Seq(ShortNames) /\ IsInjective(children[d])
  BY <1>1, <1>3 DEF TreeInv
<1> PICK s, n : s = children[d] /\ n = Len(children[d])
  OBVIOUS
<1>5. n \in Nat /\ DOMAIN s = 1 .. n
  BY <1>4
<1>6. PICK k \in 1 .. n : s[k] = name
  BY <1>3, <1>5 DEF ToSet
<1>7. \A i \in 1 .. n : s[i] = name <=> i = k
  BY <1>4, <1>5, <1>6 DEF IsInjective
<1>8. ASSUME NEW i \in 1 .. n PROVE SeenName(NodeEntries(d)[i]) = s[i]
  <2>1. s[i] \in ShortNames
    BY <1>4, <1>5
  <2>2. NodeEntries(d)[i].name = WriteShortName(s[i])
    BY DEF NodeEntries, Entry
  <2> QED
    BY <2>1, <2>2, NameKept DEF SeenName
<1>9. NodeEntries(d)[k] = EntryOf(p)
  BY <1>3, <1>6 DEF NodeEntries, EntryOf
<1>10. Len(NodeEntries(d)) = n
  BY <1>1, <1>3, EntriesList
<1>11. CASE d = Root
  <2>1. EntriesOf(d) = NodeEntries(d)
    BY <1>1, <1>11 DEF EntriesOf
  <2>2. \A i \in 1 .. n : SeenName(NodeEntries(d)[i]) = name <=> i = k
    BY <1>7, <1>8
  <2>3. Find(NodeEntries(d), name) = NodeEntries(d)[k]
    BY <1>5, <1>10, <2>2, FindOnly
  <2> QED
    BY <1>3, <1>9, <2>1, <2>3
<1>12. CASE d # Root
  <2> PICK entries : entries = DirectoryEntries(d)
    OBVIOUS
  <2>1. EntriesOf(d) = entries
    <3>1. d \in TreeNodes \ {Root}
      BY <1>3, <1>12 DEF TreeNodes
    <3> QED
      BY <1>3, <1>12, <3>1, NodeReadsBack DEF EntriesOf, Items
  <2> PICK total : total = n + 2
    OBVIOUS
  <2>0. /\ Len(entries) = total
        /\ entries[1] = Entry(SpecialName("."), RunOf(d).start, 0)
        /\ entries[2] = Entry(SpecialName(".."), ParentCluster(d), 0)
        /\ \A i \in 1 .. n : entries[i + 2] = NodeEntries(d)[i]
    BY <1>1, <1>3, DirectoryItems
  <2>2. SeenName(entries[1]) = <<". ", "">> /\ SeenName(entries[2]) = <<"..", "">>
    <3> PICK c, parent, dot, up : /\ c = RunOf(d).start /\ parent = ParentCluster(d)
                                  /\ dot = SpecialName(".") /\ up = SpecialName("..")
      OBVIOUS
    <3>1. entries[1] = Entry(dot, c, 0) /\ entries[2] = Entry(up, parent, 0)
      BY <2>0
    <3>2. entries[1].name = dot
      BY ONLY <3>1, EntryFields
    <3>3. entries[2].name = up
      BY ONLY <3>1, EntryFields
    <3> QED
      BY <3>2, <3>3, SpecialNamesSeen DEF SeenName
  <2>3. SeenName(entries[1]) # name /\ SeenName(entries[2]) # name
    BY <1>1, <2>2, NodeNames
  <2>4. k + 2 \in 1 .. total /\ total \in Nat
    BY ONLY <1>5, k \in 1 .. n, total = n + 2
  <2>5. ASSUME NEW i \in 1 .. total PROVE SeenName(entries[i]) = name <=> i = k + 2
    <3>1. CASE i = 1 \/ i = 2
      <4>1. i # k + 2
        BY ONLY <1>5, k \in 1 .. n, <3>1
      <4> QED
        BY <2>3, <3>1, <4>1
    <3>2. CASE ~(i = 1 \/ i = 2)
      <4>1. i - 2 \in 1 .. n /\ (i - 2) + 2 = i /\ (i = k + 2 <=> i - 2 = k)
        BY ONLY <1>5, k \in 1 .. n, i \in 1 .. total, total = n + 2, <3>2
      <4>2. entries[i] = NodeEntries(d)[i - 2]
        BY <2>0, <4>1
      <4>3. SeenName(entries[i]) = s[i - 2]
        BY <1>8, <4>1, <4>2
      <4> QED
        BY <1>7, <4>1, <4>3
    <3> QED
      BY <3>1, <3>2
  <2>6. Find(entries, name) = entries[k + 2]
    <3> PICK j : j = k + 2
      OBVIOUS
    <3>1. total \in Nat /\ Len(entries) = total /\ j \in 1 .. total
          /\ \A i \in 1 .. total : SeenName(entries[i]) = name <=> i = j
      BY <2>0, <2>4, <2>5
    <3>2. Find(entries, name) = entries[j]
      BY ONLY <3>1, FindOnly
    <3> QED
      BY <3>2
  <2>7. entries[k + 2] = EntryOf(p)
    BY <1>9, <2>0
  <2> QED
    BY <1>3, <2>1, <2>6, <2>7
<1> QED
  BY <1>11, <1>12

\* The first entry of a directory and "..", which is the second.
LEMMA FindDots ==
  ASSUME Finished, NEW d \in DOMAIN children \ {Root}
  PROVE  /\ EntriesOf(d)[1].cluster = RunOf(d).start
         /\ Find(EntriesOf(d), <<"..", "">>).cluster = ParentCluster(d)
<1>1. TreeInv
  BY DEF Finished, ImageInv, BuildInv
<1> PICK entries, n : entries = DirectoryEntries(d) /\ n = Len(children[d])
  OBVIOUS
<1>2. EntriesOf(d) = entries
  <2>1. d \in TreeNodes \ {Root}
    BY DEF TreeNodes
  <2> QED
    BY <2>1, NodeReadsBack DEF EntriesOf, Items
<1>3. n \in Nat
  BY <1>1, EntriesList
<1>4. /\ Len(entries) = n + 2
      /\ entries[1] = Entry(SpecialName("."), RunOf(d).start, 0)
      /\ entries[2] = Entry(SpecialName(".."), ParentCluster(d), 0)
      /\ \A i \in 1 .. n : entries[i + 2] = NodeEntries(d)[i]
  BY <1>1, DirectoryItems
<1> PICK up, total : up = <<"..", "">> /\ total = n + 2
  OBVIOUS
<1>5. /\ SeenName(entries[1]) # up /\ SeenName(entries[2]) = up
      /\ entries[1].cluster = RunOf(d).start /\ entries[2].cluster = ParentCluster(d)
  <2> PICK c, parent, first, second :
         /\ c = RunOf(d).start /\ parent = ParentCluster(d)
         /\ first = SpecialName(".") /\ second = SpecialName("..")
    OBVIOUS
  <2>1. <<". ", "">> # up
    OBVIOUS
  <2>2. entries[1] = Entry(first, c, 0) /\ entries[2] = Entry(second, parent, 0)
    BY <1>4
  <2>3. entries[1].name = first /\ entries[1].cluster = c
    BY ONLY <2>2, EntryFields
  <2>4. entries[2].name = second /\ entries[2].cluster = parent
    BY ONLY <2>2, EntryFields
  <2> QED
    BY <2>1, <2>3, <2>4, SpecialNamesSeen DEF SeenName
<1>6. ASSUME NEW i \in 1 .. n PROVE SeenName(entries[i + 2]) # up
  <2> PICK name, p : name = children[d][i] /\ p = Append(d, name)
    OBVIOUS
  <2>1. children[d] \in Seq(ShortNames) /\ d \in Paths
    BY <1>1 DEF TreeInv, TreeNodes
  <2>2. name \in ShortNames /\ name \in ToSet(children[d])
    <3> PICK s : s = children[d]
      OBVIOUS
    <3>1. s \in Seq(ShortNames) /\ i \in 1 .. Len(s) /\ name = s[i]
      BY <2>1
    <3>2. name \in ToSet(s) /\ name \in ShortNames
      BY ONLY <3>1, ElementsOf
    <3> QED
      BY <3>2
  <2>3. p \in TreeNodes \ {Root} /\ Last(p) = name
    BY <1>1, <2>1, <2>2, AppendParts DEF TreeInv, Root
  <2>4. NodeEntries(d)[i].name = WriteShortName(name)
    BY DEF NodeEntries, Entry
  <2>5. entries[i + 2].name = WriteShortName(name)
    BY <1>4, <2>4, Zenon
  <2>6. name # up
    BY <1>1, <2>3, NodeNames
  <2> QED
    BY <2>2, <2>5, <2>6, NameKept DEF SeenName
<1>7. ASSUME NEW i \in 1 .. total PROVE SeenName(entries[i]) = up <=> i = 2
  <2>1. i = 1 \/ i = 2 \/ (i - 2 \in 1 .. n /\ (i - 2) + 2 = i /\ i # 2)
    BY ONLY <1>3, total = n + 2, i \in 1 .. total
  <2>2. CASE i = 1 \/ i = 2
    BY <1>5, <2>2
  <2>3. CASE i - 2 \in 1 .. n /\ (i - 2) + 2 = i /\ i # 2
    BY <1>6, <2>3
  <2> QED
    BY <2>1, <2>2, <2>3
<1>8. Find(entries, up) = entries[2]
  <2>1. total \in Nat /\ Len(entries) = total /\ 2 \in 1 .. total
    BY ONLY <1>3, <1>4, total = n + 2
  <2> QED
    BY ONLY <1>7, <2>1, FindOnly
<1> QED
  BY <1>2, <1>5, <1>8

\* The path to a node, segment by segment.
LEMMA PrefixParts ==
  ASSUME NEW p \in Paths, NEW k \in 1 .. Len(p)
  PROVE  /\ SubSeq(p, 1, k) \in Paths /\ SubSeq(p, 1, k) # <<>>
         /\ Front(SubSeq(p, 1, k)) = SubSeq(p, 1, k - 1) /\ Last(SubSeq(p, 1, k)) = p[k]
<1>1. p \in Seq(ShortNames) /\ Len(p) \in Nat /\ \A i \in 1 .. Len(p) : p[i] \in ShortNames
  BY DEF Paths
<1>2. k \in Nat /\ 1 <= k /\ k <= Len(p) /\ k - 1 \in Nat
  BY <1>1
<1>3. ASSUME NEW j \in Nat, j <= Len(p)
      PROVE  /\ SubSeq(p, 1, j) \in Seq(ShortNames) /\ Len(SubSeq(p, 1, j)) = j
             /\ \A i \in 1 .. j : SubSeq(p, 1, j)[i] = p[i]
  <2>1. \A i \in 1 .. j : p[i] \in ShortNames
    BY <1>1, <1>3
  <2>2. /\ SubSeq(p, 1, j) \in Seq(ShortNames)
        /\ Len(SubSeq(p, 1, j)) = IF 1 <= j THEN j - 1 + 1 ELSE 0
        /\ \A i \in 1 .. j - 1 + 1 : SubSeq(p, 1, j)[i] = p[1 + i - 1]
    BY <2>1, SubSeqProperties
  <2>3. \A i \in 1 .. j : i \in 1 .. j - 1 + 1 /\ 1 + i - 1 = i
    BY <1>3
  <2> QED
    BY <1>3, <2>2, <2>3
<1> PICK q, r : q = SubSeq(p, 1, k) /\ r = SubSeq(p, 1, k - 1)
  OBVIOUS
<1>4. q \in Seq(ShortNames) /\ Len(q) = k /\ \A i \in 1 .. k : q[i] = p[i]
  BY <1>2, <1>3
<1>5. r \in Seq(ShortNames) /\ Len(r) = k - 1 /\ \A i \in 1 .. k - 1 : r[i] = p[i]
  <2>1. k - 1 <= Len(p)
    BY <1>1, <1>2
  <2> QED
    BY <1>2, <1>3, <2>1
<1>6. q \in Paths /\ q # <<>>
  BY <1>2, <1>4 DEF Paths
<1>7. /\ Front(q) \in Seq(ShortNames) /\ Len(Front(q)) = k - 1
      /\ \A i \in 1 .. k - 1 : Front(q)[i] = q[i]
  BY <1>4, <1>6, PartsAppend DEF Paths
<1>8. \A i \in 1 .. k - 1 : i \in 1 .. k
  BY <1>2
<1>9. Front(q) = r
  BY <1>4, <1>5, <1>7, <1>8, SeqEqual
<1>10. Last(q) = p[k]
  BY <1>2, <1>4 DEF Last
<1> QED
  BY <1>6, <1>9, <1>10

\* Every part of the path to a node is a directory.
LEMMA PrefixNodes ==
  ASSUME TreeInv, NEW p \in TreeNodes \ {Root}
  PROVE  /\ Len(p) \in Nat /\ Len(p) >= 1
         /\ \A k \in 0 .. Len(p) - 1 : SubSeq(p, 1, k) \in DOMAIN children
         /\ \A k \in 1 .. Len(p) : SubSeq(p, 1, k) \in TreeNodes \ {Root}
         /\ SubSeq(p, 1, 0) = Root /\ SubSeq(p, 1, Len(p)) = p
<1>1. p \in Paths /\ p # <<>> /\ p \in Seq(ShortNames)
  BY DEF TreeInv, Root, Paths
<1> PICK n : n = Len(p)
  OBVIOUS
<1>2. n \in Nat /\ n >= 1
  BY <1>1, PartsAppend
<1>3. SubSeq(p, 1, 0) = Root /\ SubSeq(p, 1, n) = p
  BY <1>1, SubSeqEmpty, SubSeqFull DEF Root
<1> PICK T : T = {j \in 0 .. n - 1 : SubSeq(p, 1, (n - 1) - j) \notin DOMAIN children}
  OBVIOUS
<1>4. T = {}
  <2> SUFFICES ASSUME T # {} PROVE FALSE
    OBVIOUS
  <2>1. T \subseteq Nat
    BY <1>2
  <2>2. PICK j \in T : \A m \in T : j <= m
    BY <2>1, Smallest
  <2> PICK k : k = n - j
    OBVIOUS
  <2>3. j \in Nat /\ j <= n - 1 /\ k \in 1 .. n /\ k - 1 = (n - 1) - j
    BY <1>2, <2>2
  <2>4. SubSeq(p, 1, k - 1) \notin DOMAIN children
    BY <2>2, <2>3
  <2> PICK q : q = SubSeq(p, 1, k)
    OBVIOUS
  <2>5. q # <<>> /\ Front(q) = SubSeq(p, 1, k - 1)
    BY <1>1, <2>3, PrefixParts
  <2>6. q \in TreeNodes
    <3>1. CASE j = 0
      <4>1. q = p
        BY <1>2, <1>3, <3>1
      <4> QED
        BY <4>1
    <3>2. CASE j # 0
      <4>1. j - 1 \in 0 .. n - 1 /\ (n - 1) - (j - 1) = k /\ j - 1 \in Nat
        BY <1>2, <2>3, <3>2
      <4>2. j - 1 \notin T
        <5> SUFFICES ASSUME j - 1 \in T PROVE FALSE
          OBVIOUS
        <5>1. j <= j - 1
          BY <2>2
        <5> QED
          BY ONLY <2>3, <5>1
      <4>3. SubSeq(p, 1, k) \in DOMAIN children
        BY <4>1, <4>2
      <4> QED
        BY <4>3 DEF TreeNodes
    <3> QED
      BY <3>1, <3>2
  <2>7. Front(q) \in DOMAIN children
    BY <2>5, <2>6 DEF TreeInv, Root
  <2> QED
    BY <2>4, <2>5, <2>7
<1>5. ASSUME NEW k \in 0 .. n - 1 PROVE SubSeq(p, 1, k) \in DOMAIN children
  <2>1. (n - 1) - k \in 0 .. n - 1 /\ (n - 1) - ((n - 1) - k) = k
    BY <1>2
  <2> PICK j : j = (n - 1) - k
    OBVIOUS
  <2>2. j \in 0 .. n - 1 /\ (n - 1) - j = k
    BY <2>1
  <2>3. SubSeq(p, 1, (n - 1) - j) \in DOMAIN children
    BY <1>4, <2>2
  <2> QED
    BY <2>2, <2>3
<1>6. ASSUME NEW k \in 1 .. n PROVE SubSeq(p, 1, k) \in TreeNodes \ {Root}
  <2>1. SubSeq(p, 1, k) # Root
    BY <1>1, PrefixParts DEF Root
  <2>2. CASE k = n
    BY <1>3, <2>2
  <2>3. CASE k # n
    <3>1. k \in 0 .. n - 1
      BY <1>2, <2>3
    <3> QED
      BY <1>5, <2>1, <3>1 DEF TreeNodes
  <2> QED
    BY <2>2, <2>3
<1> QED
  BY <1>2, <1>3, <1>5, <1>6

\* How a reader goes down a path.
FollowedBy(entries, path) ==
  entries = [n \in 0 .. Len(path) - 1 |->
               IF n = 0 THEN root ELSE ReadChain(Find(entries[n - 1], path[n]).cluster)]

\* Lookup goes down by that recursion.
LEMMA LookupIs ==
  ASSUME NEW path
  PROVE  Lookup(path) =
           Find((CHOOSE entries : FollowedBy(entries, path))[Len(path) - 1], Last(path))
BY DEF Lookup, FollowedBy

\* There is only one way to go down a path.
LEMMA FollowOnce ==
  ASSUME NEW path, Len(path) \in Nat, NEW f, NEW g, FollowedBy(f, path), FollowedBy(g, path)
  PROVE  \A n \in 0 .. Len(path) - 1 : f[n] = g[n]
<1> PICK len : len = Len(path)
  OBVIOUS
<1> PICK T : T = {n \in 0 .. len - 1 : f[n] # g[n]}
  OBVIOUS
<1> SUFFICES ASSUME T # {} PROVE FALSE
  OBVIOUS
<1>1. PICK n \in T : \A m \in T : n <= m
  <2>1. T \subseteq Nat
    OBVIOUS
  <2> QED
    BY <2>1, Smallest
<1>2. n \in 0 .. len - 1 /\ f[n] # g[n]
  OBVIOUS
<1>3. n # 0
  BY <1>2 DEF FollowedBy
<1>4. n - 1 \in 0 .. len - 1 /\ n - 1 < n
  BY <1>2, <1>3
<1>5. n - 1 \notin T
  BY <1>1, <1>2, <1>4
<1>6. /\ f[n] = ReadChain(Find(f[n - 1], path[n]).cluster)
      /\ g[n] = ReadChain(Find(g[n - 1], path[n]).cluster)
  BY <1>2, <1>3 DEF FollowedBy
<1> QED
  BY <1>2, <1>4, <1>5, <1>6

\* A reader finds every node.
LEMMA LookupFinds ==
  ASSUME Finished, NEW p \in TreeNodes \ {Root}
  PROVE  Lookup(p) = EntryOf(p)
<1>1. TreeInv
  BY DEF Finished, ImageInv, BuildInv
<1> PICK n : n = Len(p)
  OBVIOUS
<1>2. /\ n \in Nat /\ n >= 1
      /\ \A k \in 1 .. n : SubSeq(p, 1, k) \in TreeNodes \ {Root}
      /\ SubSeq(p, 1, 0) = Root /\ SubSeq(p, 1, n) = p /\ p \in Paths
  BY <1>1, PrefixNodes DEF TreeInv
<1>3. ASSUME NEW k \in 1 .. n
      PROVE  Find(EntriesOf(SubSeq(p, 1, k - 1)), p[k]) = EntryOf(SubSeq(p, 1, k))
  <2> PICK q : q = SubSeq(p, 1, k)
    OBVIOUS
  <2>1. Front(q) = SubSeq(p, 1, k - 1) /\ Last(q) = p[k]
    BY <1>2, PrefixParts
  <2>2. q \in TreeNodes \ {Root}
    BY <1>2
  <2>3. Find(EntriesOf(Front(q)), Last(q)) = EntryOf(q)
    BY <2>2, FindChild
  <2> QED
    BY <2>1, <2>3
<1> PICK W : W = [k \in 0 .. n - 1 |-> EntriesOf(SubSeq(p, 1, k))]
  OBVIOUS
<1>4. ASSUME NEW k \in 0 .. n - 1
      PROVE  W[k] = IF k = 0 THEN root ELSE ReadChain(Find(W[k - 1], p[k]).cluster)
  <2>1. CASE k = 0
    BY <1>2, <2>1 DEF EntriesOf
  <2>2. CASE k # 0
    <3>1. k \in 1 .. n /\ k - 1 \in 0 .. n - 1
      BY <1>2, <2>2
    <3> PICK q : q = SubSeq(p, 1, k)
      OBVIOUS
    <3>2. Find(W[k - 1], p[k]) = EntryOf(q)
      BY <1>3, <3>1
    <3>3. EntryOf(q).cluster = RunOf(q).start
      BY DEF EntryOf, Entry
    <3>4. W[k] = EntriesOf(q) /\ q # Root
      BY <1>2, <3>1
    <3> QED
      BY <2>2, <3>2, <3>3, <3>4 DEF EntriesOf
  <2> QED
    BY <2>1, <2>2
<1>5. FollowedBy(W, p)
  <2>1. W = [k \in 0 .. n - 1 |-> W[k]]
    OBVIOUS
  <2> QED
    BY <1>4, <2>1 DEF FollowedBy
<1> PICK f : f = CHOOSE entries : FollowedBy(entries, p)
  OBVIOUS
<1>6. FollowedBy(f, p)
  BY <1>5
<1>7. n - 1 \in 0 .. n - 1 /\ n \in 1 .. n
  BY <1>2
<1>8. f[n - 1] = EntriesOf(SubSeq(p, 1, n - 1))
  BY <1>2, <1>5, <1>6, <1>7, FollowOnce
<1>9. Find(f[n - 1], p[n]) = EntryOf(p)
  BY <1>2, <1>3, <1>7, <1>8
<1> QED
  BY <1>9, LookupIs DEF Last

-----------------------------------------------------------------------------
(* The image as a whole.                                                   *)

\* The files asked for are found by their short paths, with all their bytes.
LEMMA FilesFound == Finished => FilesReadBack
<1> SUFFICES ASSUME Finished, NEW i \in 1 .. Len(requested), requested[i].path # <<>>,
                    \A j \in i + 1 .. Len(requested) :
                      ShortPath(requested[j]) # ShortPath(requested[i])
             PROVE  /\ ReadFile(ShortPath(requested[i])) = Contents(requested[i])
                    /\ Lookup(ShortPath(requested[i])).size = requested[i].len
  BY DEF FilesReadBack
<1> PICK file, p : file = requested[i] /\ p = ShortPath(requested[i])
  OBVIOUS
<1>1. TreeInv /\ RequestInv /\ FilesInv /\ phase = "done"
  BY DEF Finished, ImageInv, BuildInv
<1>2. added = Len(requested)
  BY <1>1 DEF RequestInv
<1>3. p \in DOMAIN data /\ data[p] = Content(file)
  BY <1>1, <1>2 DEF FilesInv
<1>4. p \in TreeNodes \ {Root} /\ p \notin DOMAIN children /\ data[p].len \in Nat
  BY <1>1, <1>3, KindsApart DEF TreeInv, TreeNodes
<1>5. data[p].len = file.len /\ Contents(data[p]) = Contents(file)
  BY <1>3 DEF Content, Contents
<1> PICK entry, bytes : entry = EntryOf(p) /\ bytes = Contents(file)
  OBVIOUS
<1>6. Lookup(p) = entry
  BY <1>4, LookupFinds
<1>7. entry.cluster = RunOf(p).start /\ entry.size = file.len
  BY <1>4, <1>5 DEF EntryOf, Entry
<1>8. ReadChain(RunOf(p).start) = bytes
  BY <1>4, <1>5, NodeReadsBack DEF Items
<1>9. (\E S : bytes \in Seq(S)) /\ Len(bytes) = file.len
  <2>1. file.len \in Nat
    BY <1>4, <1>5
  <2> QED
    BY <2>1, FileItems
<1>10. SubSeq(bytes, 1, Len(bytes)) = bytes
  BY <1>9, SubSeqFull
<1>11. ReadFile(p) = SubSeq(bytes, 1, IF entry.size < Len(bytes) THEN entry.size ELSE Len(bytes))
  BY <1>6, <1>7, <1>8 DEF ReadFile
<1>12. ReadFile(p) = bytes
  BY <1>7, <1>9, <1>10, <1>11
<1> QED
  BY <1>6, <1>7, <1>12

\* The first entry of every directory leads to it, and ".." to the one that holds it.
LEMMA DotsFound == Finished => DotsLeadBack
<1> SUFFICES ASSUME Finished, NEW dir \in DOMAIN children \ {Root}
             PROVE  /\ ReadChain(Lookup(dir).cluster)[1].cluster = Lookup(dir).cluster
                    /\ Find(ReadChain(Lookup(dir).cluster), <<"..", "">>).cluster =
                         IF Len(dir) = 1 THEN 0 ELSE Lookup(Front(dir)).cluster
  BY DEF DotsLeadBack
<1>1. TreeInv /\ dir \in TreeNodes \ {Root}
  BY DEF Finished, ImageInv, BuildInv, TreeNodes
<1>2. ASSUME NEW p \in TreeNodes \ {Root} PROVE Lookup(p).cluster = RunOf(p).start
  <2>1. Lookup(p) = EntryOf(p)
    BY LookupFinds
  <2> QED
    BY <2>1 DEF EntryOf, Entry
<1>3. ReadChain(Lookup(dir).cluster) = EntriesOf(dir)
  BY <1>1, <1>2 DEF EntriesOf
<1>4. /\ EntriesOf(dir)[1].cluster = RunOf(dir).start
      /\ Find(EntriesOf(dir), <<"..", "">>).cluster = ParentCluster(dir)
  BY FindDots
<1> PICK up : up = Front(dir)
  OBVIOUS
<1>5. /\ up \in Paths /\ Len(up) = Len(dir) - 1 /\ Len(dir) \in Nat /\ up \in DOMAIN children
  BY <1>1, PartsAppend DEF TreeInv, Root
<1>6. up = Root <=> Len(dir) = 1
  <2>1. up = <<>> <=> Len(up) = 0
    <3>1. up \in Seq(ShortNames)
      BY <1>5 DEF Paths
    <3> QED
      BY ONLY <3>1, EmptySeq
  <2> QED
    BY <1>5, <2>1 DEF Root
<1>7. CASE up = Root
  <2>1. ParentCluster(dir) = 0
    BY <1>7 DEF ParentCluster
  <2> QED
    BY <1>1, <1>2, <1>3, <1>4, <1>6, <1>7, <2>1
<1>8. CASE up # Root
  <2>1. ParentCluster(dir) = RunOf(up).start
    BY <1>8 DEF ParentCluster
  <2>2. Lookup(up).cluster = RunOf(up).start
    BY <1>2, <1>5, <1>8 DEF TreeNodes
  <2> QED
    BY <1>1, <1>2, <1>3, <1>4, <1>6, <1>8, <2>1, <2>2
<1> QED
  BY <1>7, <1>8

\* Whatever names are asked for and however long the files are, a reader of the
\* image BuildEfiSystemPartition has made finds every file with all its bytes by
\* its short path, and by ".." the way back up to the root.  That "." is seen is not
\* claimed, for it is not: its name ends in a blank and zeros.
THEOREM ReadersFindAll == Spec => []ImageReadsBack
<1>1. ImageInv => ImageReadsBack
  <2> SUFFICES ASSUME ImageInv PROVE ImageReadsBack
    OBVIOUS
  <2>1. CASE phase = "done"
    BY <2>1, FilesFound, DotsFound DEF Finished, ImageReadsBack
  <2>2. CASE phase # "done"
    BY <2>2 DEF ImageReadsBack, FilesReadBack, DotsLeadBack
  <2> QED
    BY <2>1, <2>2
<1> QED
  BY <1>1, ImageInvariance, PTL

\* What FatTable promises holds of the whole builder: the runs are the nodes' own,
\* on the disk and linked, and the packed table reads back without an overflow.
THEOREM ImageTableSound ==
  Spec => [](RunsSound /\ RunsLinked /\ TableHasRoom /\ PackedEntriesKept)
BY ImageMakesTable, RunsAreSound, RunsAreLinked, TableNeverOverflows, PackedTableReadsBack, PTL

=============================================================================
