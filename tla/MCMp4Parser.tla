---------------------------- MODULE MCMp4Parser ----------------------------
(***************************************************************************)
(* Instance of Mp4Parser for TLC: room for a track with its header, media  *)
(* and handler and for a second track, sizes below, at and above a header, *)
(* 64 bit sizes of zero, that wrap around, and that are no long.           *)
(***************************************************************************)
EXTENDS Mp4Parser

MCLengths == {8, 32, 60}
MCSizes == {0, 1, 4, 8, 16, 20, 24}
MCLargeSizes == {0, 16, 990, 1500}
=============================================================================
