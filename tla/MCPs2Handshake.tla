--------------------------- MODULE MCPs2Handshake ---------------------------
(***************************************************************************)
(* Instance of Ps2Handshake for TLC.  The configurations: 0x47 (usual) and *)
(* 0x65 (mouse clock off).  The key codes: 0x39 sets bits 4 and 5 of a     *)
(* configuration it is mistaken for, 0xFA equals an acknowledgement.       *)
(***************************************************************************)
EXTENDS Ps2Handshake

MCConfigs == {71, 101}
MCScancodes == {57, 250}
MCMotions == {0, 250}
=============================================================================
