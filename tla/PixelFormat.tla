----------------------------- MODULE PixelFormat -----------------------------
(***************************************************************************)
(* How BootApp.c puts colours into pixels and takes them out again, for    *)
(* the pixel formats a graphics mode may have, and how it blends.          *)
(*                                                                         *)
(* A word of 32 bits is the set of its set bits, so a mask is a set of bit *)
(* positions and a pixel is one too.  A colour is <<red, green, blue>>.    *)
(***************************************************************************)
EXTENDS Integers, FiniteSetsExt

Channels == 1 .. 3

\* The masks of the three channels: the fixed ones of the two 8 bit formats, and
\* those of the mode for BIT_MASK.  Any other format has no channel.
MasksOf(mode) ==
  CASE mode.PixelFormat = "RGB8" -> <<0 .. 7, 8 .. 15, 16 .. 23>>
    [] mode.PixelFormat = "BGR8" -> <<16 .. 23, 8 .. 15, 0 .. 7>>
    [] mode.PixelFormat = "BIT_MASK" -> mode.Masks
    [] OTHER -> <<{}, {}, {}>>

\* The lowest set bit: what MaskShift's search finds (BootScreens has the search).
MaskShift(mask) == CHOOSE s \in mask : \A b \in mask : s <= b

\* The length of the first run of set bits, all of the mask if it has no gap.
MaskWidth(mask, shift) ==
  CHOOSE w \in 1 .. 32 : shift + w \notin mask /\ shift .. shift + w - 1 \subseteq mask

\* A channel in a field of another size, rounded.
Scaled(channel, maxValue) == (channel * maxValue + 127) \div 255

\* A channel's bits in the pixel, scaled to the mask's width and rounded.
ScaleChannel(channel, mask) ==
  IF mask = {}
  THEN {}
  ELSE LET shift == MaskShift(mask)
           width == MaskWidth(mask, shift)
           scaled == Scaled(channel, 2^width - 1)
       IN  {b \in shift .. shift + width - 1 : (scaled \div 2^(b - shift)) % 2 = 1}

\* Back to 8 bits; a cast keeps the low byte.
ExpandChannel(value, width) ==
  LET maxValue == 2^width - 1
  IN  ((value * 255 + maxValue \div 2) \div maxValue) % 256

ComposePixel(color, mode) ==
  UNION {ScaleChannel(color[i], MasksOf(mode)[i]) : i \in Channels}

\* DecomposePixel looks for the first bit of every channel's mask, ComposePixel only
\* for those that are not empty.
Decomposes(mode) ==
  mode.PixelFormat = "BIT_MASK" => \A i \in Channels : mode.Masks[i] # {}

\* The value of a field of a pixel in 8 bits; a field without bits is 0.
Field(pixel, mask) ==
  IF mask = {}
  THEN 0
  ELSE LET shift == MaskShift(mask)
       IN  ExpandChannel(MapThenSumSet(LAMBDA b : 2^(b - shift), pixel \cap mask),
                         MaskWidth(mask, shift))

DecomposePixel(pixel, mode) ==
  [i \in Channels |-> Field(pixel, MasksOf(mode)[i])]

\* Mutant: the parts do not add up to one.
MixOver(above, below, alpha) == (above * alpha + below * (256 - alpha) + 127) \div 255

\* Two channels mixed, with rounding.
Mix(above, below, alpha) == (above * alpha + below * (255 - alpha) + 127) \div 255

AlphaBlendPixel(mode, destination, color, alpha) ==
  LET below == DecomposePixel(destination, mode)
  IN  IF alpha = 255 THEN ComposePixel(color, mode)
      ELSE IF alpha = 0 THEN destination
      ELSE ComposePixel([i \in Channels |-> Mix(color[i], below[i], alpha)], mode)

=============================================================================
