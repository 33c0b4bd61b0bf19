-------------------------- MODULE LegacyBootProofs --------------------------
(***************************************************************************)
(* Proofs about LegacyBoot for every geometry of the floppy, every size of *)
(* stage 2 and of the image: no read the builder asks for leaves its track *)
(* or the disk, and the sectors of the image are loaded in order.          *)
(***************************************************************************)
EXTENDS LegacyBoot, TLAPS

-----------------------------------------------------------------------------
(* Geometry.                                                               *)

PerCylinder == SectorsPerTrack * HeadsPerCylinder
Cylinders == FloppySectors \div PerCylinder
Lbas == 0 .. FloppySectors - 1

LEMMA Geometry ==
  /\ PerCylinder \in Nat \ {0} /\ SectorsPerTrack <= PerCylinder
  /\ Cylinders \in Nat \ {0} /\ FloppySectors = PerCylinder * Cylinders
<1>1. PerCylinder \in Nat \ {0} /\ SectorsPerTrack <= PerCylinder
  BY DriveAssumption, Z3 DEF PerCylinder
<1>2. FloppySectors \in Nat \ {0} /\ FloppySectors % PerCylinder = 0
  BY DriveAssumption DEF PerCylinder
<1>3. /\ FloppySectors = PerCylinder * (FloppySectors \div PerCylinder) + (FloppySectors % PerCylinder)
      /\ FloppySectors \div PerCylinder \in Nat
  BY <1>1, <1>2, Z3
<1>4. FloppySectors = PerCylinder * Cylinders /\ Cylinders \in Nat
  BY <1>1, <1>2, <1>3, Z3 DEF Cylinders
<1>5. Cylinders # 0
  BY <1>1, <1>2, <1>4, Z3
<1> QED
  BY <1>1, <1>4, <1>5

\* The parts of a quotient.
LEMMA Division ==
  ASSUME NEW a \in Nat, NEW d \in Nat \ {0}
  PROVE  /\ a \div d \in Nat /\ a % d \in 0 .. d - 1
         /\ a = d * (a \div d) + (a % d)
  BY Z3

LEMMA QuotientBelow ==
  ASSUME NEW a \in Nat, NEW d \in Nat \ {0}, NEW n \in Nat, a < d * n
  PROVE  a \div d < n
  BY Z3

\* LbaToChs gives an address the drive has, and the address is that of the sector.
LEMMA ChsIsSector ==
  ASSUME NEW lba \in Lbas
  PROVE  LET chs == LbaToChs(lba)
         IN  /\ Addressable(chs, 1)
             /\ (chs.c * HeadsPerCylinder + chs.h) * SectorsPerTrack + chs.s - 1 = lba
<1> DEFINE c == lba \div PerCylinder
           r == lba % PerCylinder
           h == r \div SectorsPerTrack
           s == r % SectorsPerTrack
<1>1. lba \in Nat /\ lba < PerCylinder * Cylinders
  BY Geometry, DriveAssumption DEF Lbas
<1>2. c \in Nat /\ r \in 0 .. PerCylinder - 1 /\ lba = PerCylinder * c + r
  BY <1>1, Geometry, Division
<1>3. c < Cylinders
  BY <1>1, Geometry, QuotientBelow
<1>4. LbaToChs(lba) = [c |-> c, h |-> h, s |-> s + 1]
  BY DEF LbaToChs, PerCylinder
<1> HIDE DEF c, r
<1>5. r \in Nat /\ r < SectorsPerTrack * HeadsPerCylinder
  BY <1>2, Geometry DEF PerCylinder
<1>6. h \in Nat /\ s \in 0 .. SectorsPerTrack - 1 /\ r = SectorsPerTrack * h + s
  BY <1>5, DriveAssumption, Division
<1>7. h < HeadsPerCylinder
  BY <1>5, DriveAssumption, QuotientBelow
<1> HIDE DEF h, s
<1>8. Addressable(LbaToChs(lba), 1)
  <2>1. c \in 0 .. FloppySectors \div (SectorsPerTrack * HeadsPerCylinder) - 1
    BY <1>2, <1>3, Geometry DEF Cylinders, PerCylinder
  <2>2. h \in 0 .. HeadsPerCylinder - 1 /\ s + 1 >= 1 /\ s + 1 + 1 - 1 <= SectorsPerTrack
    BY <1>6, <1>7, DriveAssumption
  <2> QED
    BY <1>4, <2>1, <2>2 DEF Addressable
<1>9. (c * HeadsPerCylinder + h) * SectorsPerTrack + (s + 1) - 1 = lba
  <2>1. lba = SectorsPerTrack * HeadsPerCylinder * c + r
    BY <1>2 DEF PerCylinder
  <2>2. s \in Nat
    BY <1>6, DriveAssumption
  <2> QED
    BY <1>2, <1>5, <1>6, <2>1, <2>2, DriveAssumption, Z3
<1> QED
  BY <1>4, <1>8, <1>9

-----------------------------------------------------------------------------
(* Sizes.                                                                  *)

\* A whole number of parts holds the value, and one part less does not.
LEMMA RoundedUp ==
  ASSUME NEW value \in Nat \ {0}, NEW divisor \in Nat \ {0}
  PROVE  /\ DivideRoundUp(value, divisor) \in Nat \ {0}
         /\ value <= divisor * DivideRoundUp(value, divisor)
         /\ divisor * DivideRoundUp(value, divisor) < value + divisor
<1> DEFINE q == (value + divisor - 1) \div divisor
           r == (value + divisor - 1) % divisor
<1>1. value + divisor - 1 \in Nat
  OBVIOUS
<1>2. q \in Nat /\ r \in 0 .. divisor - 1 /\ value + divisor - 1 = divisor * q + r
  BY <1>1, Division
<1> HIDE DEF q, r
<1> DEFINE p == divisor * q
<1>3. p \in Nat
  BY <1>2, Z3
<1>4. q = 0 => p = 0
  BY <1>2
<1> HIDE DEF p
<1>5. value + divisor - 1 = p + r
  BY <1>2 DEF p
<1>6. value <= p /\ p < value + divisor
  BY <1>2, <1>3, <1>5
<1>7. q # 0
  BY <1>4, <1>6
<1> QED
  BY <1>2, <1>6, <1>7 DEF DivideRoundUp, q, p

\* A byte of stage 2 lies in one of its sectors.
LEMMA ByteInSectors ==
  ASSUME NEW value \in Nat \ {0}, NEW k \in Nat, k < value
  PROVE  k \div SectorSize \in Nat /\ k \div SectorSize + 1 <= DivideRoundUp(value, SectorSize)
<1> DEFINE n == DivideRoundUp(value, SectorSize)
<1>1. n \in Nat \ {0} /\ value <= SectorSize * n /\ SectorSize \in Nat \ {0}
  BY RoundedUp, DriveAssumption
<1> HIDE DEF n
<1>2. SectorSize * n \in Nat
  BY <1>1, Z3
<1>3. k < SectorSize * n
  BY <1>1, <1>2
<1>4. k \div SectorSize < n /\ k \div SectorSize \in Nat
  BY <1>1, <1>3, QuotientBelow, Division
<1> QED
  BY <1>1, <1>4 DEF n

-----------------------------------------------------------------------------
(* The invariant.                                                          *)

\* Where the machine runs.
OnMachine == {"stage1", "stage2", "read_loop", "show", "halt", "disk_error"}

\* The floppy that BuildDiskImage makes.
Laid(lba) ==
  IF lba = 0 THEN <<"stage1", 1>>
  ELSE IF lba <= count THEN <<"stage2", lba>>
  ELSE IF lba <= count + ImageSectors THEN <<"image", lba - count>>
  ELSE <<"free", 0>>

\* The first sectors of the image are in its segment, one behind the other.
LoadedUpTo(n) ==
  \A i \in 1 .. n : /\ (i - 1) * SectorSize \in DOMAIN buffer
                    /\ buffer[(i - 1) * SectorSize] = <<"image", i>>

SizeInv ==
  /\ target \in Targets /\ code \in Nat \ {0}
  /\ pc \in {"patch", "assemble"} \cup OnMachine =>
       count = Stage2Sectors(ImageSectors) /\ count <= MaxStage2Sectors
  /\ pc \in {"assemble"} \cup OnMachine => table = BuildSectorTable(1 + count)
  /\ pc \in OnMachine => /\ 1 + count + ImageSectors <= FloppySectors
                         /\ disk = [lba \in Lbas |-> Laid(lba)]

MachineInv ==
  /\ pc \in {"stage2", "read_loop"} => memory = [i \in 1 .. count |-> <<"stage2", i>>]
  /\ pc = "read_loop" => /\ si \in 1 .. ImageSectors
                         /\ cx = ImageSectors - si + 1
                         /\ bx = (si - 1) * SectorSize
                         /\ LoadedUpTo(si - 1)
  /\ pc \in {"show", "halt"} => LoadedUpTo(ImageSectors)
  /\ pc = "disk_error" => faulty

LegacyInv == SizeInv /\ MachineInv

LEMMA Sizes ==
  ASSUME SizeInv
  PROVE  /\ ImageSectors \in Nat \ {0} /\ SectorSize * ImageSectors < OffsetRange
         /\ OffsetRange \in Nat
         /\ Stage2Sectors(ImageSectors) \in Nat \ {0}
<1>1. /\ PackedBytes(target) \in Nat \ {0} /\ PackedBytes(target) <= OffsetRange - SectorSize
      /\ OffsetRange \in Nat /\ SectorSize \in Nat \ {0}
  BY TargetAssumption, DriveAssumption DEF SizeInv
<1>2. /\ ImageSectors \in Nat \ {0}
      /\ SectorSize * ImageSectors < PackedBytes(target) + SectorSize
  BY <1>1, RoundedUp DEF ImageSectors
<1> DEFINE n == ImageSectors
<1> HIDE DEF n
<1>3. n \in Nat \ {0} /\ SectorSize * n < PackedBytes(target) + SectorSize
  BY <1>2 DEF n
<1>4. SectorSize * n \in Nat
  BY <1>1, <1>3, Z3
<1>5. SectorSize * n < OffsetRange
  BY <1>1, <1>3, <1>4
<1>6. code + 3 * n \in Nat \ {0}
  BY <1>3 DEF SizeInv
<1>7. Stage2Sectors(n) \in Nat \ {0}
  BY <1>1, <1>6, RoundedUp DEF Stage2Sectors
<1> QED
  BY <1>1, <1>3, <1>5, <1>7 DEF n

LEMMA SizesKept == SizeInv /\ [Next]_vars => SizeInv'
<1> SUFFICES ASSUME SizeInv, [Next]_vars
             PROVE  SizeInv'
  OBVIOUS
<1>1. target' = target /\ code' = code /\ ImageSectors' = ImageSectors
  BY DEF Next, Builder, Boot, Load, Measure, Patch, BuildDiskImage, Stage1, Stage2, ReadSector,
         Show, vars, built, ImageSectors
<1>2. \A n : Stage2Sectors(n)' = Stage2Sectors(n)
  BY <1>1 DEF Stage2Sectors
<1>3. CASE Measure \/ Patch
  <2>1. \A lba : Len(BuildSectorTable(lba)) = ImageSectors
    BY Sizes DEF BuildSectorTable
  <2>2. count' = Stage2Sectors(ImageSectors)
    BY <1>1, <1>2, <1>3, <2>1 DEF Measure, Patch, BuildSectorTable
  <2>3. pc' = "thrown" \/ ~ TooLarge(count')
    BY <1>3 DEF Measure, Patch
  <2>4. Stage2Sectors(ImageSectors) \in Nat
    BY Sizes
  <2>5. pc' = "thrown" \/ count' <= MaxStage2Sectors
    BY <2>2, <2>3, <2>4, StageAssumption DEF TooLarge
  <2>6. CASE Measure
    <3>1. pc' \in {"thrown", "patch"}
      BY <2>6 DEF Measure
    <3> QED
      BY <1>1, <1>2, <2>2, <2>5, <3>1 DEF SizeInv, OnMachine
  <2>7. CASE Patch
    <3>1. pc' \in {"thrown", "assemble"} /\ pc = "patch"
      BY <2>7 DEF Patch
    <3>2. count' = count
      BY <2>2, <3>1 DEF SizeInv
    <3>3. table' = BuildSectorTable(1 + count)
      BY <1>1, <2>7 DEF Patch, ImageStartLba, BuildSectorTable
    <3>4. table' = BuildSectorTable(1 + count)'
      BY <1>1, <3>2, <3>3 DEF BuildSectorTable
    <3> QED
      BY <1>1, <1>2, <2>2, <2>5, <3>1, <3>4 DEF SizeInv, OnMachine
  <2> QED
    BY <1>3, <2>6, <2>7
<1>4. CASE BuildDiskImage
  <2>1. count' = count /\ table' = table /\ pc = "assemble" /\ pc' \in {"thrown", "stage1"}
    BY <1>4 DEF BuildDiskImage
  <2>2. (BuildSectorTable(1 + count))' = BuildSectorTable(1 + count)
    BY <1>1, <2>1 DEF BuildSectorTable
  <2>3. \A lba : Laid(lba)' = Laid(lba)
    BY <1>1, <2>1 DEF Laid
  <2>4. ImageSectors \in Nat /\ count \in Nat /\ FloppySectors \in Nat
    BY <2>1, Sizes, DriveAssumption DEF SizeInv
  <2>5. pc' = "stage1" => /\ 1 + count + ImageSectors <= FloppySectors
                          /\ disk' = [lba \in Lbas |-> Laid(lba)]
    BY <1>4, <2>4 DEF BuildDiskImage, Laid, Lbas
  <2> QED
    BY <1>1, <1>2, <2>1, <2>2, <2>3, <2>5 DEF SizeInv, OnMachine
<1>5. CASE Load \/ Boot \/ UNCHANGED vars
  <2>1. UNCHANGED <<count, table, disk>>
    BY <1>5 DEF Load, Boot, Stage1, Stage2, ReadSector, Show, vars, built
  <2>2. /\ pc' \in OnMachine => pc \in OnMachine
        /\ pc' \notin OnMachine => pc' = pc \/ pc' \in {"measure", "thrown"}
    <3>1. CASE Load
      BY <3>1 DEF Load, OnMachine
    <3>2. CASE Stage1 \/ Stage2 \/ Show
      BY <3>2 DEF Stage1, Stage2, Show, OnMachine
    <3>3. CASE ReadSector
      <4>1. pc = "read_loop" /\ pc' \in {"show", "read_loop", "disk_error"}
        BY <3>3 DEF ReadSector
      <4> QED
        BY <4>1 DEF OnMachine
    <3>4. CASE UNCHANGED vars
      BY <3>4 DEF vars
    <3> QED
      BY <1>5, <3>1, <3>2, <3>3, <3>4 DEF Boot
  <2>3. (BuildSectorTable(1 + count))' = BuildSectorTable(1 + count)
    BY <1>1, <2>1 DEF BuildSectorTable
  <2>4. \A lba : Laid(lba)' = Laid(lba)
    BY <1>1, <2>1 DEF Laid
  <2> QED
    BY <1>1, <1>2, <2>1, <2>2, <2>3, <2>4 DEF SizeInv
<1> QED
  BY <1>3, <1>4, <1>5 DEF Next, Builder

\* Stage 1's one read is on the first track, and it brings stage 2.
LEMMA Stage2IsRead ==
  ASSUME SizeInv, pc \in OnMachine
  PROVE  LET from == [c |-> 0, h |-> 0, s |-> 2]
         IN  /\ Addressable(from, count)
             /\ \A i \in 1 .. count : Sector(from, i - 1) = <<"stage2", i>>
<1> DEFINE from == [c |-> 0, h |-> 0, s |-> 2]
<1>1. /\ count \in Nat \ {0} /\ count <= MaxStage2Sectors /\ ImageSectors \in Nat \ {0}
      /\ 1 + count + ImageSectors <= FloppySectors /\ disk = [lba \in Lbas |-> Laid(lba)]
  BY Sizes DEF SizeInv
<1>2. 0 \in 0 .. FloppySectors \div (SectorsPerTrack * HeadsPerCylinder) - 1
  BY Geometry DEF Cylinders, PerCylinder
<1>3. Addressable(from, count)
  BY <1>1, <1>2, StageAssumption, DriveAssumption DEF Addressable
<1>4. ASSUME NEW i \in 1 .. count
      PROVE  Sector(from, i - 1) = <<"stage2", i>>
  <2>1. (0 * HeadsPerCylinder + 0) * SectorsPerTrack + 2 - 1 + (i - 1) = i
    BY <1>1, DriveAssumption
  <2>2. i \in Lbas /\ i # 0 /\ i <= count
    BY <1>1, <1>4, DriveAssumption DEF Lbas
  <2>3. Laid(i) = <<"stage2", i>>
    BY <2>2 DEF Laid
  <2> QED
    BY <1>1, <2>1, <2>2, <2>3 DEF Sector
<1> QED
  BY <1>3, <1>4

\* Stage 2 reads each entry of its table from its own sectors, and the entry is
\* that of the next sector of the image.
LEMMA EntryIsImage ==
  ASSUME LegacyInv, pc = "read_loop", NEW chs \in TableEntries(si)
  PROVE  Addressable(chs, 1) /\ Sector(chs, 0) = <<"image", si>>
<1>1. /\ count \in Nat \ {0} /\ ImageSectors \in Nat \ {0}
      /\ count = Stage2Sectors(ImageSectors)
      /\ 1 + count + ImageSectors <= FloppySectors /\ disk = [lba \in Lbas |-> Laid(lba)]
      /\ table = BuildSectorTable(1 + count)
      /\ code \in Nat \ {0}
  BY Sizes DEF LegacyInv, SizeInv, OnMachine
<1>2. si \in 1 .. ImageSectors /\ memory = [i \in 1 .. count |-> <<"stage2", i>>]
  BY DEF LegacyInv, MachineInv
<1> DEFINE n == ImageSectors
<1> HIDE DEF n
<1>3. n \in Nat \ {0} /\ si \in 1 .. n /\ count = DivideRoundUp(code + 3 * n, SectorSize)
  BY <1>1, <1>2 DEF n, Stage2Sectors
<1>4. EntrySectors(si) \subseteq 1 .. count
  <2>1. /\ code + 3 * n \in Nat \ {0} /\ code + 3 * (si - 1) \in Nat /\ code + 3 * si - 1 \in Nat
        /\ code + 3 * (si - 1) < code + 3 * n /\ code + 3 * si - 1 < code + 3 * n
    BY <1>1, <1>3
  <2>2. /\ (code + 3 * (si - 1)) \div SectorSize \in Nat
        /\ (code + 3 * si - 1) \div SectorSize \in Nat
        /\ (code + 3 * si - 1) \div SectorSize + 1 <= count
    BY <1>3, <2>1, ByteInSectors
  <2> QED
    BY <1>1, <2>2 DEF EntrySectors
<1>5. table[si] = LbaToChs(count + si) /\ Len(table) = ImageSectors
  <2>1. 1 + count + si - 1 = count + si
    BY <1>1, <1>3
  <2> QED
    BY <1>1, <1>2, <2>1 DEF BuildSectorTable
<1>6. chs = LbaToChs(count + si)
  BY <1>1, <1>2, <1>4, <1>5 DEF TableEntries
<1>7. count + si \in Lbas /\ Laid(count + si) = <<"image", si>>
  <2>1. /\ count + si \in Nat /\ count + si < FloppySectors /\ count + si # 0
        /\ ~ (count + si <= count) /\ count + si <= count + ImageSectors
        /\ (count + si) - count = si
    BY <1>1, <1>2, DriveAssumption
  <2> QED
    <3>1. count + si \in Lbas
      BY <2>1, DriveAssumption DEF Lbas
    <3>2. Laid(count + si) = <<"image", (count + si) - count>>
      <4> DEFINE lba == count + si
      <4>1. lba # 0 /\ ~ (lba <= count) /\ lba <= count + ImageSectors
        BY <2>1
      <4> HIDE DEF lba
      <4>2. Laid(lba) = <<"image", lba - count>>
        BY <4>1, Zenon DEF Laid
      <4> QED
        BY <4>2 DEF lba
    <3> QED
      BY <2>1, <3>1, <3>2
<1>8. /\ Addressable(chs, 1)
      /\ (chs.c * HeadsPerCylinder + chs.h) * SectorsPerTrack + chs.s - 1 = count + si
  BY <1>6, <1>7, ChsIsSector
<1>9. Sector(chs, 0) = disk[count + si + 0]
  BY <1>8 DEF Sector
<1>10. count + si + 0 = count + si
  BY <1>1, <1>2
<1> QED
  BY <1>1, <1>7, <1>8, <1>9, <1>10

LEMMA MachineKept == LegacyInv /\ [Next]_vars => MachineInv'
<1> SUFFICES ASSUME LegacyInv, [Next]_vars
             PROVE  MachineInv'
  OBVIOUS
<1>1. target' = target /\ ImageSectors' = ImageSectors
  BY DEF Next, Builder, Boot, Load, Measure, Patch, BuildDiskImage, Stage1, Stage2, ReadSector,
         Show, vars, built, ImageSectors
<1>2. SizeInv /\ MachineInv /\ ImageSectors \in Nat \ {0} /\ SectorSize \in Nat \ {0}
  BY Sizes, DriveAssumption DEF LegacyInv
<1>3. CASE Builder
  <2>1. pc' \in {"measure", "thrown", "patch", "assemble", "stage1"}
    BY <1>3 DEF Builder, Load, Measure, Patch, BuildDiskImage
  <2> QED
    BY <2>1 DEF MachineInv
<1>4. CASE Stage1
  <2> DEFINE from == [c |-> 0, h |-> 0, s |-> 2]
  <2>1. pc = "stage1" /\ count' = count
    BY <1>4 DEF Stage1, built
  <2>2. Addressable(from, count) /\ \A i \in 1 .. count : Sector(from, i - 1) = <<"stage2", i>>
    BY <1>2, <2>1, Stage2IsRead DEF OnMachine
  <2>3. \/ pc' = "stage2" /\ memory' = [i \in 1 .. count |-> Sector(from, i - 1)]
        \/ pc' = "disk_error" /\ faulty' = Addressable(from, count)
    BY <1>4 DEF Stage1
  <2>4. CASE pc' = "stage2" /\ memory' = [i \in 1 .. count |-> Sector(from, i - 1)]
    <3>1. memory' = [i \in 1 .. count |-> <<"stage2", i>>]
      BY <2>2, <2>4
    <3> QED
      BY <2>1, <2>4, <3>1 DEF MachineInv
  <2>5. CASE pc' = "disk_error" /\ faulty' = Addressable(from, count)
    BY <2>2, <2>5 DEF MachineInv
  <2> QED
    BY <2>3, <2>4, <2>5
<1>5. CASE Stage2
  <2>1. /\ pc = "stage2" /\ pc' = "read_loop" /\ memory' = memory /\ count' = count
        /\ si' = 1 /\ bx' = 0 /\ cx' = ImageSectors
    BY <1>5 DEF Stage2, built
  <2>2. si' \in 1 .. ImageSectors /\ cx' = ImageSectors - si' + 1 /\ bx' = (si' - 1) * SectorSize
    BY <1>2, <2>1
  <2>3. LoadedUpTo(si - 1)'
    BY <2>1 DEF LoadedUpTo
  <2> QED
    BY <1>1, <1>2, <2>1, <2>2, <2>3 DEF MachineInv
<1>6. CASE ReadSector
  <2>1. /\ pc = "read_loop" /\ memory' = memory /\ count' = count
        /\ si \in 1 .. ImageSectors /\ cx = ImageSectors - si + 1
        /\ bx = (si - 1) * SectorSize /\ LoadedUpTo(si - 1)
    BY <1>2, <1>6 DEF ReadSector, built, MachineInv
  <2>2. PICK chs \in TableEntries(si) :
          \/ /\ buffer' = [o \in DOMAIN buffer \cup {bx} |->
                             IF o = bx THEN Sector(chs, 0) ELSE buffer[o]]
             /\ si' = si + 1 /\ bx' = (bx + SectorSize) % OffsetRange
             /\ cx' = AfterRead
             /\ pc' = IF cx' = 0 THEN "show" ELSE "read_loop"
          \/ pc' = "disk_error" /\ faulty' = Addressable(chs, 1)
    BY <1>6 DEF ReadSector
  <2>3. Addressable(chs, 1) /\ Sector(chs, 0) = <<"image", si>>
    BY <2>1, EntryIsImage
  <2>4. CASE pc' = "disk_error" /\ faulty' = Addressable(chs, 1)
    BY <2>3, <2>4 DEF MachineInv
  <2>5. CASE /\ buffer' = [o \in DOMAIN buffer \cup {bx} |->
                             IF o = bx THEN Sector(chs, 0) ELSE buffer[o]]
             /\ si' = si + 1 /\ bx' = (bx + SectorSize) % OffsetRange
             /\ cx' = AfterRead
             /\ pc' = IF cx' = 0 THEN "show" ELSE "read_loop"
    <3> DEFINE n == ImageSectors
    <3>1. n \in Nat /\ n < 65536 /\ SectorSize * n < OffsetRange /\ OffsetRange \in Nat
      <4>1. 1 + count + n <= FloppySectors /\ count \in Nat
        BY <1>2, <2>1, Sizes DEF SizeInv, OnMachine
      <4> QED
        BY <1>2, <4>1, Sizes, StageAssumption, DriveAssumption
    <3> HIDE DEF n
    <3>2. cx' = n - si
      BY <2>1, <2>5, <3>1 DEF AfterRead, n
    <3>3. bx' = si * SectorSize
      <4>1. si * SectorSize \in Nat /\ si * SectorSize <= SectorSize * n
        BY <1>2, <2>1, <3>1, Z3 DEF n
      <4>2. bx + SectorSize = si * SectorSize
        BY <1>2, <2>1, Z3
      <4>3. SectorSize * n \in Nat
        BY <1>2, <3>1, Z3
      <4> DEFINE b == si * SectorSize
      <4> HIDE DEF b
      <4>4. b \in Nat /\ b < OffsetRange /\ OffsetRange \in Nat
        BY <3>1, <4>1, <4>3 DEF b
      <4>5. b % OffsetRange = b
        BY <4>4, Z3
      <4> QED
        BY <2>5, <4>2, <4>5 DEF b
    <3>4. ASSUME NEW i \in 1 .. si
          PROVE  /\ (i - 1) * SectorSize \in DOMAIN buffer'
                 /\ buffer'[(i - 1) * SectorSize] = <<"image", i>>
      <4>1. DOMAIN buffer' = DOMAIN buffer \cup {bx}
        BY <2>5
      <4>2. CASE i = si
        BY <2>1, <2>3, <2>5, <4>1, <4>2
      <4>3. CASE i # si
        <5>1. i \in 1 .. si - 1
          BY <2>1, <4>3
        <5>2. (i - 1) * SectorSize # (si - 1) * SectorSize
          <6>1. i \in Nat /\ i >= 1 /\ si \in Nat /\ i < si
            BY <2>1, <3>1, <4>3 DEF n
          <6> QED
            BY <1>2, <6>1, Z3
        <5>3. /\ (i - 1) * SectorSize \in DOMAIN buffer
              /\ buffer[(i - 1) * SectorSize] = <<"image", i>>
          BY <2>1, <5>1 DEF LoadedUpTo
        <5> QED
          BY <2>1, <2>5, <4>1, <5>2, <5>3
      <4> QED
        BY <4>2, <4>3
    <3>5. CASE cx' = 0
      <4>1. pc' = "show" /\ si = n
        BY <2>1, <2>5, <3>1, <3>2, <3>5 DEF n
      <4>2. LoadedUpTo(ImageSectors)'
        BY <1>1, <3>4, <4>1 DEF LoadedUpTo, n
      <4> QED
        BY <4>1, <4>2 DEF MachineInv
    <3>6. CASE cx' # 0
      <4>1. pc' = "read_loop" /\ si' \in 1 .. n /\ cx' = n - si' + 1 /\ si' - 1 = si
        BY <2>1, <2>5, <3>1, <3>2, <3>6 DEF n
      <4>2. LoadedUpTo(si - 1)'
        BY <3>4, <4>1 DEF LoadedUpTo
      <4>3. bx' = (si' - 1) * SectorSize
        BY <3>3, <4>1
      <4>4. memory' = [i \in 1 .. count' |-> <<"stage2", i>>]
        BY <1>2, <2>1 DEF MachineInv
      <4> QED
        BY <1>1, <4>1, <4>2, <4>3, <4>4 DEF MachineInv, n
    <3> QED
      BY <3>5, <3>6
  <2> QED
    BY <2>2, <2>4, <2>5
<1>7. CASE Show
  <2>1. pc = "show" /\ pc' = "halt" /\ buffer' = buffer
    BY <1>7 DEF Show
  <2> QED
    BY <1>1, <1>2, <2>1 DEF MachineInv, LoadedUpTo
<1>8. CASE UNCHANGED vars
  BY <1>1, <1>2, <1>8 DEF vars, built, machine, MachineInv, LoadedUpTo
<1> QED
  BY <1>3, <1>4, <1>5, <1>6, <1>7, <1>8 DEF Next, Boot

LEMMA LegacyInvariant == Spec => []LegacyInv
<1>1. Init => LegacyInv
  BY StageAssumption DEF Init, LegacyInv, SizeInv, MachineInv, OnMachine
<1>2. LegacyInv /\ [Next]_vars => LegacyInv'
  BY SizesKept, MachineKept DEF LegacyInv
<1> QED
  BY <1>1, <1>2, PTL DEF Spec

\* For every geometry, every length of stage 2 and every size of the screen: stage 1
\* and stage 2 report a disk error only if the drive failed on an address it has.
THEOREM ErrorsAreFaults == Spec => []ErrorMeansFault
<1>1. LegacyInv => ErrorMeansFault
  BY DEF LegacyInv, MachineInv, ErrorMeansFault
<1> QED
  BY <1>1, LegacyInvariant, PTL

\* When stage 2 comes to the palette, read_loop has put all sectors of the image
\* into its segment, in their order.
ImageLoaded == pc \in {"show", "halt"} => LoadedUpTo(ImageSectors)

\* The addresses that the second pass puts into stage 2 are those at which
\* BuildDiskImage puts the image, though they are computed before stage 2 has its
\* final bytes, and the offset never wraps around on the way.
THEOREM ImageIsLoaded == Spec => []ImageLoaded
<1>1. LegacyInv => ImageLoaded
  BY DEF LegacyInv, MachineInv, ImageLoaded
<1> QED
  BY <1>1, LegacyInvariant, PTL
=============================================================================
