---------------------------- MODULE MCBootHandoff ----------------------------
(***************************************************************************)
(* Instance of BootHandoff for TLC: a PCI table of two entries, a slack of *)
(* one descriptor and a firmware that may change the map three times, so   *)
(* that the table overflows, the retry loop goes round more than once and  *)
(* the map both stays within the slack and outgrows it.                    *)
(***************************************************************************)
EXTENDS BootHandoff

MCGopModes ==
  {[found |-> FALSE, bltOnly |-> FALSE, pixels |-> 0, bytes |-> 0],
   [found |-> TRUE, bltOnly |-> TRUE, pixels |-> 4, bytes |-> 16],
   [found |-> TRUE, bltOnly |-> FALSE, pixels |-> 4, bytes |-> 15],
   [found |-> TRUE, bltOnly |-> FALSE, pixels |-> 4, bytes |-> 16]}

MCHandleLists ==
  {<<>>,
   <<"gpu", "audio", "absent", "gpu", "audio">>,
   <<"other", "audio", "unreadable">>}
=============================================================================
