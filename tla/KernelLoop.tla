----------------------------- MODULE KernelLoop -----------------------------
(***************************************************************************)
(* RunKernelMouseLoop of BootApp.c as a whole: the packet decoder of       *)
(* MousePackets and the surfaces of Compositor, while mouse and keyboard   *)
(* send.  The loop calls UpdateCursorFromPs2Mouse; when that returns 1 the *)
(* round repaints the screen for the position the call left, otherwise it  *)
(* only pauses.                                                            *)
(*                                                                         *)
(* The code has one SOFTWARE_CURSOR; here its motion fields are cursor of  *)
(* MousePackets and its pixels and the position they were drawn at are     *)
(* sprite.                                                                 *)
(***************************************************************************)
EXTENDS MousePackets

CONSTANTS
  PixelsPerScanLine, OpaqueMask, Panel, InstallButton, TryButton,
  ShadowChoices, ComposeChoices

VARIABLES mem, sprite, HoveredButton, shadowPtr, composePtr

C == INSTANCE Compositor WITH cursor <- sprite

ASSUME SurfacesAssumption == C!SurfaceAssumption

surfaces == <<mem, sprite, HoveredButton, shadowPtr, composePtr>>
kernelVars == <<vars, surfaces>>

\* Mutant: a call that leaves bytes behind reports nothing yet.
UpdateReturnsIfDrained == call.packetCount > 0 /\ out = <<>>

\* The result of the call that is about to end.
UpdateReturns == call.packetCount > 0

\* The call ends; the round repaints if it counted a packet.
EndRound ==
  /\ EndUpdate
  /\ IF UpdateReturns THEN C!Round(cursor'.X, cursor'.Y) ELSE UNCHANGED surfaces

\* The steps of the call before its end.
InCallStep ==
  /\ BeginUpdate \/ ReadForeign \/ SkipByte \/ StoreByte \/ CompletePacket
  /\ UNCHANGED surfaces

KernelDriver == InCallStep \/ EndRound

DeviceStep == Devices /\ UNCHANGED surfaces

KernelInit == Init /\ C!Init

KernelNext == KernelDriver \/ DeviceStep

KernelSpec == KernelInit /\ [][KernelNext]_kernelVars

-----------------------------------------------------------------------------
\* The whole loop implements CursorDisplay with the position of the decoder:
\* between calls the screen is the scene for the button under the mouse with one
\* cursor over it, drawn where the packets decoded so far have moved it, however
\* they were spread over calls.
Display == INSTANCE CursorDisplay WITH
  Positions <- C!PositionsX \X C!PositionsY,
  Start <- <<C!FirstX, C!FirstY>>,
  Scene <- C!SceneOf,
  Hit <- C!HitAt,
  Overlay <- C!OverlayAt,
  backed <- shadowPtr = "shadow",
  position <- <<cursor.X, cursor.Y>>,
  hovered <- HoveredButton,
  display <- C!OnScreen(mem["fb"])

ScreenFollowsMouse == Display!Spec

\* The partially refreshed shadow is always the complete scene for the hovered
\* button, and no cursor pixel ever gets into it.
ShadowIsScene == C!ShadowIsScene

=============================================================================
