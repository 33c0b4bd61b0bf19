---------------------------- MODULE MCKernelLoop ----------------------------
(***************************************************************************)
(* Instance of KernelLoop for TLC: scan lines one pixel longer than the    *)
(* screen, a sprite of 2 by 3 with transparent pixels, and two buttons     *)
(* that the sprite covers in part; either surface may be missing.  The     *)
(* packets: one pixel to the right; a press with a move of some pixels     *)
(* down and left; up.  A call may end in the middle of a packet and may    *)
(* count two.                                                              *)
(***************************************************************************)
EXTENDS KernelLoop

MCPackets == {<<8, 2, 0>>, <<57, 251, 253>>, <<8, 0, 3>>}
MCScancodes == {57}

MCOpaqueMask == {0, 2, 3, 4}
MCPanel == [X |-> 1, Y |-> 0, Width |-> 3, Height |-> 4, Radius |-> 1]
MCInstallButton == [X |-> 2, Y |-> 1, Width |-> 2, Height |-> 1, Radius |-> 0]
MCTryButton == [X |-> 2, Y |-> 2, Width |-> 2, Height |-> 1, Radius |-> 0]
=============================================================================
