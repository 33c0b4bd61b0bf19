--------------------------- MODULE CursorDisplay ---------------------------
(***************************************************************************)
(* What the kernel loop promises to show: the scene for the button under   *)
(* the cursor, with the cursor drawn over it at its position, and nothing  *)
(* of any earlier cursor.  Where there is no surface to keep the scene in, *)
(* it promises the cursor alone.  Compositor implements this with a shadow *)
(* and a compose surface and partial copies.                               *)
(***************************************************************************)
CONSTANTS
  Positions,      \* where the cursor may be
  Start,          \* where it is first
  Scene(_),       \* the screen without cursor for a hovered button
  Hit(_),         \* the button under the cursor
  Overlay(_, _)   \* a screen with the cursor drawn at a position

VARIABLES
  backed,         \* whether there is a surface to keep the scene in
  position, hovered, display

\* The first frame has no button hovered, wherever the cursor is.
Init ==
  /\ backed \in BOOLEAN
  /\ position = Start
  /\ hovered = 0
  /\ display = Overlay(Scene(0), Start)

\* A screen has the cursor at a position if drawing it there changes nothing.
Move(p) ==
  /\ position' = p
  /\ hovered' = Hit(p)
  /\ backed => display' = Overlay(Scene(Hit(p)), p)
  /\ display' = Overlay(display', p)
  /\ UNCHANGED backed

Next == \E p \in Positions : Move(p)

Spec == Init /\ [][Next]_<<backed, position, hovered, display>>

=============================================================================
