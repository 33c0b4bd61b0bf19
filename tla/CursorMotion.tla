---------------------------- MODULE CursorMotion ----------------------------
(***************************************************************************)
(* The arithmetic of UpdateCursorFromPs2Mouse in BootApp.c: from the mouse *)
(* counts of one call to the new position of the cursor.                   *)
(*                                                                         *)
(* Positions are pixels.  Between the counts and the pixels lies a fixed   *)
(* point accumulator with FIXED_PIXEL_ONE units per pixel.  C divides      *)
(* towards zero, which TLA+ does not, hence TruncDiv.  All intermediate    *)
(* values fit INT32 (the counts of a call are at most 32 * 128, the scaled *)
(* delta at most 8192, the product with the gain at most 2^25), so plain   *)
(* integers stand for them.                                                *)
(***************************************************************************)
EXTENDS Integers

CONSTANTS
  ScreenWidth, ScreenHeight,   \* FRAMEBUFFER_INFO
  CursorWidth, CursorHeight    \* CURSOR_WIDTH, CURSOR_HEIGHT

ASSUME ScreenAssumption ==
  /\ ScreenWidth \in Nat \ {0} /\ ScreenHeight \in Nat \ {0}
  /\ CursorWidth \in Nat \ {0} /\ CursorHeight \in Nat \ {0}

FIXED_PIXEL_ONE == 256

\* The counts of one call that are used, and the accumulator's limit, in pixels.
MaxCounts == 64
MaxPixels == 64

\* C's integer division, b > 0.
TruncDiv(a, b) == IF a >= 0 THEN a \div b ELSE -((-a) \div b)

ClampI32(value, min, max) ==
  IF value < min THEN min ELSE IF value > max THEN max ELSE value

Abs(n) == IF n < 0 THEN -n ELSE n

\* The gain in 1/1024: one, growing with the speed, at most three.
Gain1024(delta) ==
  LET gain == 1024 + (Abs(delta) * 192) \div FIXED_PIXEL_ONE
  IN  IF gain > 3072 THEN 3072 ELSE gain

ApplyMouseAcceleration(delta) == TruncDiv(delta * Gain1024(delta), 1024)

\* Mutant: an off-by-one in the limit of the position.
ClampCoordinateOneMore(value, limit) ==
  IF limit = 0 \/ value < 0 THEN 0
  ELSE IF value > limit THEN limit
  ELSE value

\* A coordinate forced into 0 .. limit - 1.
ClampCoordinate(value, limit) ==
  IF limit = 0 \/ value < 0 THEN 0
  ELSE IF value > limit - 1 THEN limit - 1
  ELSE value

\* The position of the cursor's left or top edge: the whole sprite stays on a
\* screen that is larger than it; on a smaller one it stays at 0.
ClampCursor(value, screen, sprite) ==
  LET limit == IF screen > sprite THEN screen - sprite ELSE 0
  IN  ClampCoordinate(value, limit + 1)

ClampCursorX(value) == ClampCursor(value, ScreenWidth, CursorWidth)
ClampCursorY(value) == ClampCursor(value, ScreenHeight, CursorHeight)

\* LastDelta: the counts of a call, limited, in half pixels, accelerated.
CountsToDelta(counts) ==
  ApplyMouseAcceleration(ClampI32(counts, -MaxCounts, MaxCounts)
                         * (FIXED_PIXEL_ONE \div 2))

\* Mutant: the mouse's y axis is taken for the screen's.
CountsToDeltaYUpright(counts) == CountsToDelta(counts)

\* The screen's y axis points down, the mouse's up.
CountsToDeltaY(counts) == CountsToDelta(-counts)

\* The accumulator with a delta added, before whole pixels are taken out.
Accumulate(accum, delta) ==
  ClampI32(accum + delta, -(FIXED_PIXEL_ONE * MaxPixels),
           FIXED_PIXEL_ONE * MaxPixels)

\* The whole pixels in an accumulator.
WholePixels(accum) == TruncDiv(accum, FIXED_PIXEL_ONE)

\* What is left of an accumulator once its whole pixels are taken out.
Remainder(accum) == accum - WholePixels(accum) * FIXED_PIXEL_ONE

=============================================================================
