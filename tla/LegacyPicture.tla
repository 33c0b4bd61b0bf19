--------------------------- MODULE LegacyPicture ---------------------------
(***************************************************************************)
(* The way of the splash picture into the legacy image, Program.cs:        *)
(* BmpLoader.Load reads it from a bitmap file, ResizeNearest brings it to  *)
(* the size of the screen, PackMode13Asset makes a palette and one index a *)
(* pixel of it.  SampleBitmapWriter makes the file if there is none.       *)
(*                                                                         *)
(* A picture is its size and a colour <<red, green, blue>> at every place  *)
(* <<x, y>>, counted from 0.  A file is its bytes, by their offset: the    *)
(* loader finds the fields of the two headers, the palette and the pixels  *)
(* in them.  Alpha is not part of the legacy image.                        *)
(***************************************************************************)
EXTENDS PixelFormat, Bytes, SequencesExt

CONSTANT ChannelBits   \* the bits of an index for red, green, blue: 3, 3, 2

ASSUME ChannelBitsAssumption == ChannelBits \in [Channels -> 1 .. 8]

Places(width, height) == (0 .. width - 1) \X (0 .. height - 1)

-----------------------------------------------------------------------------
(* Bitmap files.                                                           *)

HeaderBytes == 54

\* The file whose bytes are those of a sequence.
AsFile(seq) == [o \in 0 .. Len(seq) - 1 |-> seq[o + 1]]

\* WriteInt32LittleEndian and WriteUInt16LittleEndian.
LittleEndian(value, count) == [i \in 1 .. count |-> (value \div 256^(i - 1)) % 256]

\* Both headers, for the rows of that many bytes; then the rows from the bottom up,
\* each filled up to a multiple of four bytes.
Write24BitBmp(picture) ==
  LET rowStride == ((picture.Width * 3 + 3) \div 4) * 4
      size == rowStride * picture.Height
      row(y) == [i \in 1 .. rowStride |->
                   IF i > picture.Width * 3 THEN 0
                   ELSE picture.Pixels[<<(i - 1) \div 3, y>>][3 - ((i - 1) % 3)]]
  IN  AsFile(<<66, 77>> \o LittleEndian(HeaderBytes + size, 4) \o LittleEndian(0, 4)
             \o LittleEndian(HeaderBytes, 4) \o LittleEndian(40, 4)
             \o LittleEndian(picture.Width, 4) \o LittleEndian(picture.Height, 4)
             \o LittleEndian(1, 2) \o LittleEndian(24, 2) \o LittleEndian(0, 4)
             \o LittleEndian(size, 4) \o [i \in 1 .. 16 |-> 0]
             \o FlattenSeq([i \in 1 .. picture.Height |-> row(picture.Height - i)]))

UInt16(file, o) == file[o] + 256 * file[o + 1]
Int32(file, o) == UInt16(file, o) + 65536 * (file[o + 2] + 256 * SignedByte(file[o + 3]))

DataOffset(file) == Int32(file, 10)
DibSize(file) == Int32(file, 14)
FileWidth(file) == Int32(file, 18)
RawHeight(file) == Int32(file, 22)
BitsPerPixel(file) == UInt16(file, 28)
Compression(file) == Int32(file, 30)

Abs(n) == IF n < 0 THEN -n ELSE n
FilePlaces(file) == Places(FileWidth(file), Abs(RawHeight(file)))

RowStride(file) == ((FileWidth(file) * BitsPerPixel(file) + 31) \div 32) * 4

\* Where the loader looks for the pixel at a place; the height is negative in a
\* file whose rows go from the top down.  Nothing keeps the pixels out of the headers.
PixelOffset(file, place) ==
  LET height == RawHeight(file)
      sourceY == IF height < 0 THEN place[2] ELSE height - 1 - place[2]
  IN  DataOffset(file) + sourceY * RowStride(file)
        + place[1] * (BitsPerPixel(file) \div 8)

Masked(file) == BitsPerPixel(file) = 32 /\ Compression(file) = 3

\* ReadUInt32, as the set of the bits.
Word(file, o) == {b \in 0 .. 31 : Bit(file[o + b \div 8], b % 8) = 1}

\* Three bytes, blue first, in the palette and in pixels.
ColorAt(file, o) == <<file[o + 2], file[o + 1], file[o]>>

PaletteCount(file) == IF Int32(file, 46) <= 0 THEN 256 ELSE Int32(file, 46)
PaletteOffset(file, i) == 14 + DibSize(file) + 4 * i

PixelAt(file, place) ==
  LET o == PixelOffset(file, place)
  IN  CASE BitsPerPixel(file) = 8 -> ColorAt(file, PaletteOffset(file, file[o]))
        [] Masked(file) -> [i \in Channels |->
                              Field(Word(file, o), Word(file, HeaderBytes + 4 * (i - 1)))]
        [] OTHER -> ColorAt(file, o)

Has(file, from, count) == from .. from + count - 1 \subseteq DOMAIN file

\* Whether Load accepts the file: every other one, also one that is too short for
\* what its headers say, ends in an exception that Main reports.
Loads(file) ==
  /\ Has(file, 0, HeaderBytes) /\ file[0] = 66 /\ file[1] = 77
  /\ DibSize(file) >= 40
  /\ FileWidth(file) > 0 /\ RawHeight(file) # 0
  /\ UInt16(file, 26) = 1
  /\ Compression(file) = 0 \/ Masked(file)
  /\ BitsPerPixel(file) \in {8, 24, 32}
  /\ BitsPerPixel(file) = 8 =>
       \A i \in 0 .. PaletteCount(file) - 1 : Has(file, PaletteOffset(file, i), 3)
  /\ Masked(file) => Has(file, HeaderBytes, 16)
  /\ \A place \in FilePlaces(file) :
       LET o == PixelOffset(file, place)
       IN  /\ Has(file, o, BitsPerPixel(file) \div 8)
           /\ BitsPerPixel(file) = 8 => file[o] < PaletteCount(file)

-----------------------------------------------------------------------------
(* Resizing and packing.                                                   *)

\* ResizeNearest: the place in the source of a place in the target.
SourcePlace(file, target, place) ==
  <<(place[1] * FileWidth(file)) \div target.Width,
    (place[2] * Abs(RawHeight(file))) \div target.Height>>

\* The bits of an index before those of a channel, counted from the right.
ChannelShift(i) == MapThenSumSet(LAMBDA j : ChannelBits[j], i + 1 .. 3)

\* QuantizeTo332: the upper bits of every channel.
Quantize(color) ==
  MapThenSumSet(LAMBDA i : (color[i] \div 2^(8 - ChannelBits[i])) * 2^ChannelShift(i),
                Channels)

PaletteBytes == 3 * 2^ChannelShift(0)

\* BuildVga332Palette: the channels of an index, scaled to the 6 bits of the VGA.
PaletteByte(k) ==
  LET i == (k % 3) + 1
      value == ((k \div 3) \div 2^ChannelShift(i)) % 2^ChannelBits[i]
  IN  (value * 63) \div (2^ChannelBits[i] - 1)

\* The length of what PackMode13Asset makes.
PackedBytes(target) == PaletteBytes + target.Width * target.Height

\* Its bytes, filled up with zeros by PadToSector: the palette, then the pixels.
PackedByte(file, target, k) ==
  LET i == k - PaletteBytes
      place == <<i % target.Width, i \div target.Width>>
  IN  IF k < PaletteBytes THEN PaletteByte(k)
      ELSE IF k < PackedBytes(target)
      THEN Quantize(PixelAt(file, SourcePlace(file, target, place)))
      ELSE 0

=============================================================================
