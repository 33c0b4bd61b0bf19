---------------------------- MODULE MCLegacyBoot ----------------------------
(***************************************************************************)
(* A floppy of two cylinders with two tracks of four sectors.  The images  *)
(* end inside a track, with a track, in the next cylinder and behind the   *)
(* disk; stage 2 has one to four sectors.  The picture has rows that need  *)
(* filling up; it is stored in every depth and row order the loader knows, *)
(* with its first bytes in the header, and in files it has to refuse.      *)
(***************************************************************************)
EXTENDS LegacyBoot

MCCodeSizes == {1, 4, 13, 16, 30, 42}
MCChannelBits == <<1, 2, 1>>
Size(width, height) == [Width |-> width, Height |-> height]
MCTargets == {Size(8, 2), Size(9, 2), Size(8, 4), Size(17, 2), Size(14, 8),
              Size(18, 8), Size(20, 8), Size(22, 8)}

Picture == [Width |-> 5, Height |-> 3,
            Pixels |-> [p \in Places(5, 3) |-> <<60 * p[1], 120 * p[2], 250 - 50 * p[1]>>]]

Sample == Write24BitBmp(Picture)

\* A file with other bytes at some offsets.
With(file, changes) ==
  [o \in DOMAIN file |-> IF o \in DOMAIN changes THEN changes[o] ELSE file[o]]

\* The sample's headers with some changes, a prefix and the rows behind it, each the
\* sequence of its bytes.
WithData(changes, prefix, rows) ==
  With(AsFile([i \in 1 .. HeaderBytes |-> Sample[i - 1]] \o prefix \o FlattenSeq(rows)),
       changes @@ (10 :> HeaderBytes + Len(prefix)))

\* The bytes of a pixel in three depths; the palette has the pixels in their order.
Bytes24(p) == <<Picture.Pixels[p][3], Picture.Pixels[p][2], Picture.Pixels[p][1]>>
Bytes32(p) == Bytes24(p) \o <<255>>
BytesRgb(p) == Picture.Pixels[p] \o <<0>>
Index(p) == <<p[2] * 5 + p[1]>>

Row(bytesOf(_), y, filling) == FlattenSeq([x \in 1 .. 5 |-> bytesOf(<<x - 1, y>>)]) \o filling
Up(bytesOf(_), filling) == [i \in 1 .. 3 |-> Row(bytesOf, 3 - i, filling)]
Down(bytesOf(_), filling) == [i \in 1 .. 3 |-> Row(bytesOf, i - 1, filling)]

Palette(n) == FlattenSeq([i \in 1 .. n |-> Bytes32(<<(i - 1) % 5, (i - 1) \div 5>>)])
Masks == <<255, 0, 0, 0,  0, 255, 0, 0,  0, 0, 255, 0,  0, 0, 0, 0>>

\* Fields of the headers, by their bytes that are not as in the sample.
Depth(n) == 28 :> n
BitFields == 30 :> 3
Colors(n) == 46 :> n
MinusThree == [o \in 22 .. 25 |-> IF o = 22 THEN 253 ELSE 255]

TopDown == WithData(MinusThree, <<>>, Down(Bytes24, <<0>>))
Deep == WithData(Depth(32), <<>>, Up(Bytes32, <<>>))
Fields == WithData(Depth(32) @@ BitFields, Masks, Up(BytesRgb, <<>>))
Indexed(n) == WithData(Depth(8) @@ Colors(n), Palette(n), Up(Index, <<0, 0, 0>>))

\* A file that lost its last bytes: the first of them only filled up the row.
Cut(n) == [o \in 0 .. Cardinality(DOMAIN Sample) - n - 1 |-> Sample[o]]

\* A picture whose first four bytes are zeros, like the last four of the headers, and
\* the file in which they are the same bytes.
BlackCorner ==
  [Picture EXCEPT !.Pixels[<<0, 2>>] = <<0, 0, 0>>, !.Pixels[<<1, 2>>][3] = 0]
Overlapping ==
  LET file == Write24BitBmp(BlackCorner)
  IN  [o \in 0 .. Cardinality(DOMAIN file) - 5 |->
         IF o = 10 THEN HeaderBytes - 4
         ELSE IF o < HeaderBytes THEN file[o] ELSE file[o + 4]]

\* A data offset below zero.
Before == With(Sample, 13 :> 255)

MCSources ==
  {[picture |-> Picture, file |-> file] :
     file \in {Sample, TopDown, Deep, Fields, Indexed(15), Indexed(14),
               With(Sample, Depth(16)), Cut(1), Cut(2), Before}}
  \cup {[picture |-> BlackCorner, file |-> Overlapping]}
=============================================================================
