----------------------------- MODULE Compositor -----------------------------
(***************************************************************************)
(* The picture side of RunKernelMouseLoop in BootApp.c: the setup scene is *)
(* kept in a shadow surface, and every round of the loop puts the scene    *)
(* back where the cursor was, refreshes the buttons whose hover state      *)
(* changed, and draws the cursor at its new position, through a compose    *)
(* surface when there is one.                                              *)
(*                                                                         *)
(* The three surfaces are memory: cells addressed as the code does, row    *)
(* times PixelsPerScanLine plus column.  The shadow may be missing (its    *)
(* allocation failed, see BootHandoff), and then its pointer is that of    *)
(* the framebuffer itself; the compose surface may be missing, and then    *)
(* its pointer is null.  A pixel is a number: the background, the panel,   *)
(* a button plain or hovered (with its label), or a pixel of the cursor.   *)
(***************************************************************************)
EXTENDS CursorMotion, FiniteSets

CONSTANTS
  PixelsPerScanLine,
  OpaqueMask,        \* the opaque pixels of the sprite, indices into it
  Panel, InstallButton, TryButton,  \* UI_BOX records of SETUP_UI_STATE
  ShadowChoices, ComposeChoices     \* whether the surfaces may be there

Box == [X : Nat, Y : Nat, Width : Nat, Height : Nat, Radius : Nat]

\* What the code takes for granted of the surfaces; KernelLoop assumes it.  The
\* buttons are one above the other (ButtonsOnPanel of SetupLayout).
SurfaceAssumption ==
  /\ PixelsPerScanLine \in Nat /\ PixelsPerScanLine >= ScreenWidth
  /\ OpaqueMask \subseteq 0 .. CursorWidth * CursorHeight - 1
  /\ {Panel, InstallButton, TryButton} \subseteq Box
  /\ InstallButton.Y + InstallButton.Height <= TryButton.Y
  /\ ShadowChoices \subseteq BOOLEAN /\ ComposeChoices \subseteq BOOLEAN

Cells == 0 .. PixelsPerScanLine * ScreenHeight - 1
Row(cell) == cell \div PixelsPerScanLine
Column(cell) == cell % PixelsPerScanLine

\* Pixel values; what a surface holds before it is first drawn is not the scene.
Background == 0
PanelColor == 1
ButtonColor(button, hovered) == 2 * button + (IF hovered THEN 1 ELSE 0)
CursorPixel(index) == 10 + index
Undrawn == 9

VARIABLES
  mem,                    \* the surfaces: fb, shadow, compose
  cursor,                 \* SOFTWARE_CURSOR
  HoveredButton,          \* SETUP_UI_STATE.HoveredButton
  shadowPtr, composePtr   \* the Framebuffer pointers of the two FRAMEBUFFER_INFOs

vars == <<mem, cursor, HoveredButton, shadowPtr, composePtr>>

Min2(a, b) == IF a < b THEN a ELSE b

-----------------------------------------------------------------------------
(* Drawing.                                                                *)

InBox(x, y, X, Y, width, height) ==
  x >= X /\ y >= Y /\ x < X + width /\ y < Y + height

PointInRoundedBox(x, y, box) ==
  LET localX == x - box.X
      localY == y - box.Y
      r == box.Radius
      dx == IF localX < r THEN r - 1 - localX ELSE localX - (box.Width - r)
      dy == IF localY < r THEN r - 1 - localY ELSE localY - (box.Height - r)
  IN  /\ InBox(x, y, box.X, box.Y, box.Width, box.Height)
      /\ \/ r <= 0
         \/ localX >= r /\ localX < box.Width - r
         \/ localY >= r /\ localY < box.Height - r
         \/ dx * dx + dy * dy < r * r

\* DrawRoundedBox, clipped to the screen.
DrawRoundedBox(surface, box, color) ==
  [c \in Cells |->
     IF Column(c) < ScreenWidth /\ PointInRoundedBox(Column(c), Row(c), box)
     THEN color ELSE surface[c]]

DrawSetupButton(surface, button, hovered) ==
  DrawRoundedBox(surface, IF button = 1 THEN InstallButton ELSE TryButton,
                 ButtonColor(button, hovered = button))

\* DrawSetupScreen: everything is painted, padding cells too.
DrawSetupScreen(surface, hovered) ==
  DrawSetupButton(
    DrawSetupButton(
      DrawRoundedBox([c \in Cells |-> Background], Panel, PanelColor),
      1, hovered),
    2, hovered)

\* Mutant: only the button now hovered is redrawn.
RefreshSetupButtonsCurrent(surface, previous, current) ==
  IF current = 0 THEN surface ELSE DrawSetupButton(surface, current, current)

\* RefreshSetupButtons: the buttons that gained or lost the hover.
RefreshSetupButtons(surface, previous, current) ==
  LET changed(button) == previous # current /\ button \in {previous, current}
      first == IF changed(1) THEN DrawSetupButton(surface, 1, current) ELSE surface
  IN  IF changed(2) THEN DrawSetupButton(first, 2, current) ELSE first

\* BlitSurfaceRect: nothing for a null surface or a corner off the screen, else
\* the part of the rectangle on the screen.
BlitSurfaceRect(m, dst, src, X, Y, width, height) ==
  IF dst = "NULL" \/ src = "NULL" \/ X >= ScreenWidth \/ Y >= ScreenHeight
  THEN m
  ELSE [m EXCEPT ![dst] =
          [c \in Cells |->
             IF InBox(Column(c), Row(c), X, Y, Min2(width, ScreenWidth - X),
                      Min2(height, ScreenHeight - Y))
             THEN m[src][c] ELSE m[dst][c]]]

-----------------------------------------------------------------------------
(* The cursor.                                                             *)

\* The sprite index of a cell, for a cell in the cursor's saved rectangle.
SpriteIndex(c, cell) ==
  (Row(cell) - c.Y) * CursorWidth + (Column(cell) - c.X)

InSaved(c, cell) ==
  InBox(Column(cell), Row(cell), c.X, c.Y, c.SavedWidth, c.SavedHeight)

\* SaveCursorBackground: the part of the sprite on the screen, and the pixels
\* of the surface under it; entries outside keep their old value.
SaveCursorBackground(surface, c) ==
  LET width == Min2(CursorWidth, ScreenWidth - c.X)
      height == Min2(CursorHeight, ScreenHeight - c.Y)
  IN  [c EXCEPT !.SavedWidth = width,
                !.SavedHeight = height,
                !.SavedPixels =
                  [i \in 0 .. CursorWidth * CursorHeight - 1 |->
                     IF i % CursorWidth < width /\ i \div CursorWidth < height
                     THEN surface[(c.Y + i \div CursorWidth) * PixelsPerScanLine
                                  + c.X + (i % CursorWidth)]
                     ELSE c.SavedPixels[i]]]

DrawCursor(surface, c) ==
  [cell \in Cells |->
     IF InSaved(c, cell) /\ SpriteIndex(c, cell) \in OpaqueMask
     THEN CursorPixel(SpriteIndex(c, cell)) ELSE surface[cell]]

\* The saved background copied into the compose surface.
PutSaved(surface, c) ==
  [cell \in Cells |-> IF InSaved(c, cell) THEN c.SavedPixels[SpriteIndex(c, cell)]
                                          ELSE surface[cell]]

\* Background, cursor, then one copy to the screen.
ComposeCursor(m, c) ==
  BlitSurfaceRect([m EXCEPT !["compose"] = DrawCursor(PutSaved(@, c), c)],
                  "fb", "compose", c.X, c.Y, c.SavedWidth, c.SavedHeight)

\* BlitCursorComposite, applied to memory and cursor.
BlitCursorComposite(m, c) ==
  LET saved == SaveCursorBackground(m[shadowPtr], c)
  IN  [mem |-> IF composePtr \notin {"NULL", "fb", shadowPtr}
               THEN ComposeCursor(m, saved)
               ELSE [m EXCEPT !["fb"] = DrawCursor(@, saved)],
       cursor |-> [saved EXCEPT !.Visible = TRUE]]

HitTestSetupUi(x, y) ==
  LET centerX == x + CursorWidth \div 2
      centerY == y + CursorHeight \div 2
  IN  IF PointInRoundedBox(centerX, centerY, InstallButton) THEN 1
      ELSE IF PointInRoundedBox(centerX, centerY, TryButton) THEN 2
      ELSE 0

-----------------------------------------------------------------------------
(* RunKernelMouseLoop.                                                     *)

FirstX == ClampCursorX(ScreenWidth \div 2)
FirstY == ClampCursorY(ScreenHeight \div 2)

\* The state when the loop is entered: the scene is drawn into the shadow and
\* copied to the screen, and the cursor is shown.
Init ==
  /\ \E has \in ShadowChoices : shadowPtr = IF has THEN "shadow" ELSE "fb"
  /\ \E has \in ComposeChoices : composePtr = IF has THEN "compose" ELSE "NULL"
  /\ HoveredButton = 0
  /\ LET blank == [c \in Cells |-> Undrawn]
         drawn == [s \in {"fb", "shadow", "compose"} |->
                     IF s \in {"fb", shadowPtr} THEN DrawSetupScreen(blank, 0)
                                                ELSE blank]
         first == BlitCursorComposite(
                    drawn,
                    [X |-> FirstX, Y |-> FirstY, SavedWidth |-> 0,
                     SavedHeight |-> 0, Visible |-> FALSE,
                     SavedPixels |-> [i \in 0 .. CursorWidth * CursorHeight - 1
                                        |-> Undrawn]])
     IN  mem = first.mem /\ cursor = first.cursor

\* The positions UpdateCursorFromPs2Mouse may leave the cursor at.
PositionsX == {ClampCursorX(x) : x \in 0 .. ScreenWidth}
PositionsY == {ClampCursorY(y) : y \in 0 .. ScreenHeight}

\* The scene is put back at the cursor's old position, with the size that was
\* saved there.
EraseCursor(m) ==
  IF cursor.Visible
  THEN BlitSurfaceRect(m, "fb", shadowPtr, cursor.X, cursor.Y,
                       cursor.SavedWidth, cursor.SavedHeight)
  ELSE m

\* The refreshed buttons are copied to the screen if the shadow is not the
\* screen.
ShowButtons(m, previous, current) ==
  LET touched(button) == shadowPtr # "fb" /\ button \in {previous, current}
      show(n, button) == BlitSurfaceRect(n, "fb", shadowPtr, button.X, button.Y,
                                         button.Width, button.Height)
      first == IF touched(1) THEN show(m, InstallButton) ELSE m
  IN  IF touched(2) THEN show(first, TryButton) ELSE first

\* One round of the loop in which UpdateCursorFromPs2Mouse returned 1 and left
\* the cursor at x, y.  (When it returns 0 the round only pauses.)
Round(x, y) ==
  LET erased == EraseCursor(mem)
      hovered == HitTestSetupUi(x, y)
      refreshed ==
        IF hovered = HoveredButton
        THEN erased
        ELSE ShowButtons([erased EXCEPT ![shadowPtr] =
                            RefreshSetupButtons(@, HoveredButton, hovered)],
                         HoveredButton, hovered)
      shown == BlitCursorComposite(refreshed,
                                   [cursor EXCEPT !.X = x, !.Y = y,
                                                  !.Visible = FALSE])
  IN  /\ mem' = shown.mem
      /\ cursor' = shown.cursor
      /\ HoveredButton' = hovered
      /\ UNCHANGED <<shadowPtr, composePtr>>

Next == \E x \in PositionsX, y \in PositionsY : Round(x, y)

Spec == Init /\ [][Next]_vars

-----------------------------------------------------------------------------
(* Properties.                                                             *)

\* The cells of the screen; the rest of a scan line is padding.
Visible == {c \in Cells : Column(c) < ScreenWidth}
OnScreen(surface) == [c \in Visible |-> surface[c]]

\* The scene for a hovered button, drawn from nothing.
SceneOf(hovered) ==
  OnScreen(DrawSetupScreen([c \in Cells |-> Undrawn], hovered))

\* A screen with the sprite over it.
OverlayAt(screen, position) ==
  [c \in Visible |->
     LET i == SpriteIndex([X |-> position[1], Y |-> position[2]], c)
     IN  IF /\ InBox(Column(c), Row(c), position[1], position[2],
                     CursorWidth, CursorHeight)
            /\ i \in OpaqueMask
         THEN CursorPixel(i) ELSE screen[c]]

\* The partially refreshed shadow is always the complete scene for the hovered
\* button, and no cursor pixel ever gets into it.
ShadowIsScene ==
  shadowPtr = "shadow" => OnScreen(mem["shadow"]) = SceneOf(HoveredButton)

\* The button under a cursor at a position.
HitAt(position) == HitTestSetupUi(position[1], position[2])

=============================================================================
