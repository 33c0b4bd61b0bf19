----------------------------- MODULE MCFatImage -----------------------------
(***************************************************************************)
(* Instance of FatImage for TLC.  Two raw names share a short name, a name *)
(* without letters and digits becomes X, and a directory and a file are    *)
(* both called A.  Sizes lie at and around the size of a cluster.          *)
(***************************************************************************)
EXTENDS FatImage

MCNormalizeName ==
  [n \in {"EFI", "BOOT", "DRAGON", "A", "a-"} |-> IF n = "a-" THEN "A" ELSE n]

MCNormalizeFile ==
  [n \in {"BOOTX64.EFI", "MANIFEST.TXT", "A", "A_.X", "B.DLL"} |->
     CASE n = "BOOTX64.EFI" -> <<"BOOTX64", "EFI">>
       [] n = "MANIFEST.TXT" -> <<"MANIFEST", "TXT">>
       [] n \in {"A", "A_.X"} -> <<"A", "X">>
       [] n = "B.DLL" -> <<"B", "DLL">>]

MCPaths ==
  {<<"DRAGON", "MANIFEST.TXT">>, <<"A">>, <<"A_.X">>, <<"DRAGON", "A", "B.DLL">>,
   <<"DRAGON", "a-", "B.DLL">>, <<"EFI", "BOOT", "A">>, <<>>}

MCSizes == {0, 4, 5}
MCLoaderSizes == {1, 9}

\* Up to two files of all kinds, and three of the sizes that fill the disk.
MCRuntimeFileLists ==
  {<<>>}
  \cup {<<[path |-> p, id |-> "f", len |-> n]>> : p \in MCPaths, n \in MCSizes}
  \cup {<<[path |-> p, id |-> "f", len |-> n], [path |-> q, id |-> "g", len |-> m]>> :
          p \in MCPaths, q \in MCPaths, n \in MCSizes, m \in {0, 5}}
  \cup {<<[path |-> p, id |-> "f", len |-> 5], [path |-> q, id |-> "g", len |-> 4],
          [path |-> r, id |-> "h", len |-> 9]>> :
          p \in MCPaths, q \in MCPaths, r \in MCPaths}

\* What WriteSpecialDirectoryEntry writes, as the FAT driver reads it: the first entry
\* of a directory is none of its dot entries, the second is.
ASSUME DotIsNotSeen ==
  /\ FatNameToStr(SpecialName(".")) = <<". ", "">>
  /\ FatNameToStr(SpecialName("..")) = <<"..", "">>
=============================================================================
