---------------------------- MODULE MCToolProcess ----------------------------
\* All programs of up to five lines over pipes of two.
EXTENDS ToolProcess

MCPrograms == UNION {[1 .. n -> {"out", "err"}] : n \in 0 .. 5}
=============================================================================
