--------------------------- MODULE MCMousePackets ---------------------------
(***************************************************************************)
(* Instance of MousePackets for TLC.  The packets: a fast move to the      *)
(* right; a press with a short move to the left and down, whose movement   *)
(* bytes look like packet heads; a move that overflowed.  A call reads     *)
(* four bytes, so that it may end inside a packet, and counts two packets. *)
(***************************************************************************)
EXTENDS MousePackets

MCPackets == {<<8, 100, 0>>, <<57, 251, 253>>, <<200, 5, 5>>}
MCScancodes == {57}
=============================================================================
