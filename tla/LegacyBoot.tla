----------------------------- MODULE LegacyBoot -----------------------------
(***************************************************************************)
(* The legacy floppy of Program.cs, from Main's two passes over stage 2 to *)
(* the picture on the screen.                                              *)
(*                                                                         *)
(* The builder loads and packs the picture (LegacyPicture), decides where  *)
(* the image starts from the size of stage 2 and puts a table of the       *)
(* image's sectors into stage 2.  On the machine stage 1 reads stage 2     *)
(* with one call of the BIOS, stage 2 reads the image sector by sector     *)
(* through that table, loads the palette and copies the pixels.  Stage 2   *)
(* is its code and its table of three bytes an entry; what a sector holds  *)
(* is <<part, index>>.                                                     *)
(***************************************************************************)
EXTENDS LegacyPicture

CONSTANTS
  SectorSize, SectorsPerTrack, HeadsPerCylinder,
  FloppySectors,       \* FloppySize / SectorSize
  MaxCylinder,         \* byte.MaxValue
  MaxStage2Sectors,    \* 17
  OffsetRange,         \* the 16 bit offset BX counts modulo 65536
  CodeSizes,           \* the possible lengths of stage 2 without its table
  Sources,             \* bitmap files, each with the picture it is to show
  Targets              \* the possible sizes of the screen; 320 by 200

ASSUME DriveAssumption ==
  /\ SectorSize \in Nat \ {0} /\ SectorsPerTrack \in Nat \ {0}
  /\ HeadsPerCylinder \in Nat \ {0}
  /\ FloppySectors \in Nat \ {0}
  /\ FloppySectors % (SectorsPerTrack * HeadsPerCylinder) = 0

\* Stage 2 is not empty, and a stage 2 within its limit is on the first track behind
\* stage 1; the sectors of the image are counted in a register of 16 bits.
ASSUME StageAssumption ==
  /\ CodeSizes \subseteq Nat \ {0}
  /\ MaxStage2Sectors \in Nat /\ MaxStage2Sectors < SectorsPerTrack
  /\ FloppySectors < 65536

\* The image is less than one segment, and its pixels are an even number: stage 2
\* copies words.
ASSUME TargetAssumption ==
  OffsetRange \in Nat /\ \A target \in Targets :
    /\ target.Width > 0 /\ target.Height > 0 /\ (target.Width * target.Height) % 2 = 0
    /\ PackedBytes(target) \in 1 .. OffsetRange - SectorSize

VARIABLES
  pc,          \* what the builder or the machine does next
  source,      \* the bitmap file and the picture it is to show
  target,      \* the size of the screen
  code,        \* the length of stage 2's code
  count,       \* stage2SectorCount
  table,       \* imageSectorTable
  disk,        \* lba -> what the sector holds
  memory,      \* what stage 1 loaded at Stage2LoadOffset, sector by sector
  buffer,      \* offset in the image segment -> sector
  si, bx, cx,  \* stage 2's registers: the next table entry, offset, count
  faulty,      \* whether the drive failed on an address it has
  screen       \* place on the screen -> colour of the VGA

built == <<source, target, code, count, table, disk>>
machine == <<memory, buffer, si, bx, cx, faulty, screen>>
vars == <<pc, built, machine>>

DivideRoundUp(value, divisor) == (value + divisor - 1) \div divisor

ImageSectors == DivideRoundUp(PackedBytes(target), SectorSize)

-----------------------------------------------------------------------------
\* The builder.

LbaToChs(lba) ==
  LET perCylinder == SectorsPerTrack * HeadsPerCylinder
      inCylinder == lba % perCylinder
  IN  [c |-> lba \div perCylinder,
       h |-> inCylinder \div SectorsPerTrack,
       s |-> (inCylinder % SectorsPerTrack) + 1]

BuildSectorTable(startLba) == [i \in 1 .. ImageSectors |-> LbaToChs(startLba + i - 1)]

\* The sectors of a stage 2 with a table of that many entries.
Stage2Sectors(entries) == DivideRoundUp(code + 3 * entries, SectorSize)

\* Mutant: the limit of stage 1 is not checked.
TooLargeNever(sectors) == FALSE

TooLarge(sectors) == sectors > MaxStage2Sectors

Init ==
  /\ pc = "load" /\ source \in Sources /\ target \in Targets /\ code \in CodeSizes
  /\ count = 0 /\ table = <<>> /\ disk = <<>>
  /\ memory = <<>> /\ buffer = <<>>
  /\ si = 0 /\ bx = 0 /\ cx = 0 /\ faulty = FALSE /\ screen = <<>>

\* Load, ResizeNearest and PackMode13Asset: what they make is a function of the
\* file, PackedByte; only Load may throw.
Load ==
  /\ pc = "load"
  /\ pc' = IF Loads(source.file) THEN "measure" ELSE "thrown"
  /\ UNCHANGED <<built, machine>>

\* LbaToChs throws for a cylinder that is no byte.
CylinderOverflow(entries) == \E i \in DOMAIN entries : entries[i].c > MaxCylinder

\* The first pass: stage 2 with a table for a placeholder.
Measure ==
  /\ pc = "measure"
  /\ table' = BuildSectorTable(0)
  /\ count' = Stage2Sectors(Len(table'))
  /\ pc' = IF CylinderOverflow(table') \/ TooLarge(count') THEN "thrown" ELSE "patch"
  /\ UNCHANGED <<source, target, code, disk, machine>>

\* Mutant: the image is expected right behind stage 1.
ImageStartLbaEarly == count

\* Where the image starts, by the size of the first pass.
ImageStartLba == 1 + count

\* The second pass, with the table of the image's place.
Patch ==
  /\ pc = "patch"
  /\ table' = BuildSectorTable(ImageStartLba)
  /\ count' = Stage2Sectors(Len(table'))
  /\ pc' = IF CylinderOverflow(table') \/ TooLarge(count') THEN "thrown" ELSE "assemble"
  /\ UNCHANGED <<source, target, code, disk, machine>>

\* BuildDiskImage: stage 1, the padded stage 2, the padded image.
BuildDiskImage ==
  /\ pc = "assemble"
  /\ IF 1 + count + ImageSectors > FloppySectors
     THEN pc' = "thrown" /\ UNCHANGED disk
     ELSE /\ pc' = "stage1"
          /\ disk' = [lba \in 0 .. FloppySectors - 1 |->
                        IF lba = 0 THEN <<"stage1", 1>>
                        ELSE IF lba <= count THEN <<"stage2", lba>>
                        ELSE IF lba <= count + ImageSectors THEN <<"image", lba - count>>
                        ELSE <<"free", 0>>]
  /\ UNCHANGED <<source, target, code, count, table, machine>>

Builder == Load \/ Measure \/ Patch \/ BuildDiskImage

-----------------------------------------------------------------------------
\* The BIOS: a read may fail, and one that leaves the disk or the track does.

Addressable(chs, sectors) ==
  /\ chs.c \in 0 .. FloppySectors \div (SectorsPerTrack * HeadsPerCylinder) - 1
  /\ chs.h \in 0 .. HeadsPerCylinder - 1
  /\ chs.s >= 1 /\ chs.s + sectors - 1 <= SectorsPerTrack

Sector(chs, i) ==
  disk[(chs.c * HeadsPerCylinder + chs.h) * SectorsPerTrack + chs.s - 1 + i]

\* Stage 1: one read of stage 2 from the second sector of the disk.
Stage1 ==
  /\ pc = "stage1"
  /\ LET from == [c |-> 0, h |-> 0, s |-> 2]
     IN  \/ /\ Addressable(from, count)
            /\ memory' = [i \in 1 .. count |-> Sector(from, i - 1)]
            /\ pc' = "stage2" /\ UNCHANGED faulty
         \/ /\ pc' = "disk_error" /\ faulty' = Addressable(from, count)
            /\ UNCHANGED memory
  /\ UNCHANGED <<built, buffer, si, bx, cx, screen>>

\* Stage 2 up to its loop.
Stage2 ==
  /\ pc = "stage2"
  /\ pc' = "read_loop"
  /\ si' = 1 /\ bx' = 0 /\ cx' = ImageSectors
  /\ UNCHANGED <<built, memory, buffer, faulty, screen>>

\* The sectors of stage 2 that hold the bytes of an entry of its table.
EntrySectors(i) ==
  (code + 3 * (i - 1)) \div SectorSize + 1 .. (code + 3 * i - 1) \div SectorSize + 1

\* The address in a table entry; anything if stage 2 is not in memory there.
TableEntries(i) ==
  IF i <= Len(table) /\ \A k \in EntrySectors(i) : k \in DOMAIN memory /\ memory[k] = <<"stage2", k>>
  THEN {table[i]} ELSE {LbaToChs(lba) : lba \in 0 .. FloppySectors - 1}

\* LOOP: CX after an iteration, modulo 65536.
AfterRead == (cx - 1) % 65536

\* One iteration of read_loop.
ReadSector ==
  /\ pc = "read_loop"
  /\ \E chs \in TableEntries(si) :
       \/ /\ Addressable(chs, 1)
          /\ buffer' = [o \in DOMAIN buffer \cup {bx} |->
                          IF o = bx THEN Sector(chs, 0) ELSE buffer[o]]
          /\ si' = si + 1 /\ bx' = (bx + SectorSize) % OffsetRange
          /\ cx' = AfterRead
          /\ pc' = IF cx' = 0 THEN "show" ELSE "read_loop"
          /\ UNCHANGED faulty
       \/ /\ pc' = "disk_error" /\ faulty' = Addressable(chs, 1)
          /\ UNCHANGED <<buffer, si, bx, cx>>
  /\ UNCHANGED <<built, memory, screen>>

\* A byte of the image segment.
BufferByte(o) ==
  LET sector == buffer[o - (o % SectorSize)]
  IN  IF o - (o % SectorSize) \in DOMAIN buffer /\ sector[1] = "image"
      THEN PackedByte(source.file, target, (sector[2] - 1) * SectorSize + (o % SectorSize))
      ELSE 0

\* Where stage 2 finds the pixels, 0x0300.
PixelBase == PaletteBytes

\* palette_loop loads the palette into the VGA, the copy fills the screen with
\* the indices, and the VGA shows the colours of the palette.
Show ==
  /\ pc = "show"
  /\ pc' = "halt"
  /\ screen' = [place \in Places(target.Width, target.Height) |->
                  LET index == BufferByte(PixelBase + place[2] * target.Width + place[1])
                  IN  [i \in Channels |-> BufferByte(3 * index + i - 1)]]
  /\ UNCHANGED <<built, memory, buffer, si, bx, cx, faulty>>

Boot == Stage1 \/ Stage2 \/ ReadSector \/ Show

Next == Builder \/ Boot

Spec == Init /\ [][Next]_vars

-----------------------------------------------------------------------------
\* The place of the picture's pixel that holds the upper left corner of a place on
\* the screen.
Under(p, picture) ==
  CHOOSE q \in Places(picture.Width, picture.Height) :
    /\ q[1] * target.Width <= p[1] * picture.Width
    /\ p[1] * picture.Width < (q[1] + 1) * target.Width
    /\ q[2] * target.Height <= p[2] * picture.Height
    /\ p[2] * picture.Height < (q[2] + 1) * target.Height

\* The machine shows the picture: at every place of the screen each channel, of 63,
\* is within one step of its bits of the picture's, of 255, whatever the file's
\* depth, the order and the filling of its rows, and wherever the image lies on
\* the disk.
PictureIsImage ==
  pc = "halt" =>
    LET picture == source.picture
    IN  \A p \in Places(target.Width, target.Height) : \A i \in Channels :
          2^ChannelBits[i] * Abs(255 * screen[p][i] - 63 * picture.Pixels[Under(p, picture)][i])
            <= 63 * 255

\* Stage 1 and stage 2 stop with a message only if the drive failed: a read the
\* builder asks for never leaves its track or the disk.
ErrorMeansFault == pc = "disk_error" => faulty

=============================================================================
