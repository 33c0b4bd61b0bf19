----------------------------- MODULE SetupLayout -----------------------------
(***************************************************************************)
(* InitializeSetupUiState of BootApp.c: where the panel and the two        *)
(* buttons are on a screen of any size, in unsigned arithmetic.  A screen  *)
(* that is too small makes differences wrap around, and the code has no    *)
(* check for it; the model says from which size on it needs none.          *)
(***************************************************************************)
EXTENDS Integers

CONSTANTS
  WordRange,           \* 2^32 in the code: unsigned values are modulo this
  Widths, Heights      \* the screens there may be

ASSUME ScreenAssumption ==
  /\ WordRange \in Nat
  /\ Widths \subseteq 1 .. WordRange - 1 /\ Heights \subseteq 1 .. WordRange - 1

VARIABLES pc, ScreenWidth, ScreenHeight, Panel, InstallButton, TryButton

vars == <<pc, ScreenWidth, ScreenHeight, Panel, InstallButton, TryButton>>

Minus(a, b) == (a - b) % WordRange
Plus(a, b) == (a + b) % WordRange

AtLeast(limit, value) == IF value < limit THEN limit ELSE value

Box(x, y, width, height) == [X |-> x, Y |-> y, Width |-> width, Height |-> height]

PanelOf(w, h) ==
  LET marginX == AtLeast(48, w \div 16)
      marginY == AtLeast(44, h \div 14)
  IN  Box(marginX, marginY, Minus(w, 2 * marginX), Minus(h, 2 * marginY))

ButtonHeight == 64
ButtonGap == 34

\* Mutant: room is left for one button only.
InstallButtonOfOne(panel) ==
  LET width == AtLeast(240, panel.Width \div 4)
  IN  Box(Minus(Minus(Plus(panel.X, panel.Width), width), 72),
          Minus(Minus(Plus(panel.Y, panel.Height), ButtonHeight), 34), width, ButtonHeight)

InstallButtonOf(panel) ==
  LET width == AtLeast(240, panel.Width \div 4)
  IN  Box(Minus(Minus(Plus(panel.X, panel.Width), width), 72),
          Minus(Minus(Minus(Plus(panel.Y, panel.Height), 2 * ButtonHeight), ButtonGap), 120),
          width, ButtonHeight)

TryButtonOf(button) == [button EXCEPT !.Y = Plus(Plus(button.Y, ButtonHeight), ButtonGap)]

Nowhere == Box(0, 0, 0, 0)

Init ==
  /\ pc = "boot" /\ ScreenWidth \in Widths /\ ScreenHeight \in Heights
  /\ Panel = Nowhere /\ InstallButton = Nowhere /\ TryButton = Nowhere

InitializeSetupUiState ==
  /\ pc = "boot"
  /\ pc' = "setup"
  /\ Panel' = PanelOf(ScreenWidth, ScreenHeight)
  /\ InstallButton' = InstallButtonOf(Panel')
  /\ TryButton' = TryButtonOf(InstallButton')
  /\ UNCHANGED <<ScreenWidth, ScreenHeight>>

Next == InitializeSetupUiState

Spec == Init /\ [][Next]_vars

-----------------------------------------------------------------------------
\* The smallest screen the constants of the layout have room on: the buttons with
\* their margins beside and below, and the panel's own.
MinWidth == 2 * 48 + 240 + 72
MinHeight == 2 * 44 + 2 * ButtonHeight + ButtonGap + 120

Within(box, outer) ==
  /\ outer.X <= box.X /\ box.X + box.Width <= outer.X + outer.Width
  /\ outer.Y <= box.Y /\ box.Y + box.Height <= outer.Y + outer.Height

\* On a screen of at least 408 by 370 nothing wraps around: the panel is on the
\* screen, both buttons are on the panel, and no point is on both.
ButtonsOnPanel ==
  pc = "setup" /\ ScreenWidth >= MinWidth /\ ScreenHeight >= MinHeight =>
    /\ Within(Panel, Box(0, 0, ScreenWidth, ScreenHeight))
    /\ Within(InstallButton, Panel) /\ Within(TryButton, Panel)
    /\ InstallButton.Y + InstallButton.Height <= TryButton.Y
=============================================================================
