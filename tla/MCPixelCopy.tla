---------------------------- MODULE MCPixelCopy ----------------------------
(***************************************************************************)
(* Instance of PixelCopy for TLC: the unrolling of the code, counts from   *)
(* none to two bulks, some pairs and a tail, every alignment of both       *)
(* addresses, disjoint ranges on either side and a copy onto itself.       *)
(***************************************************************************)
EXTENDS PixelCopy

MaxCount == 35

MCWords == 0 .. 2 * MaxCount + 5
MCContents == [w \in MCWords |-> w]   \* every pixel is different

MCCalls ==
  {c \in [op : {"fill", "copy"}, to : {2, 3, 38, 39}, from : {2, 3, 38, 39},
          count : 0 .. MaxCount, color : {-1}] :
     c.to = c.from \/ c.to + c.count <= c.from \/ c.from + c.count <= c.to}
=============================================================================
