------------------------------ MODULE PixelCopy ------------------------------
(***************************************************************************)
(* FillPixels32 and CopyPixels32 of BootApp.c, which every surface and     *)
(* cursor goes through: pairs of pixels, BulkPairs at a time and then one  *)
(* by one, where the addresses are multiples of eight bytes, and single    *)
(* pixels for the rest or for all.                                         *)
(*                                                                         *)
(* Memory is pixels by address in pixels, so an address is a multiple of   *)
(* eight bytes iff it is even.  A call copies between two surfaces, or of  *)
(* a surface onto itself when there is no shadow.                          *)
(***************************************************************************)
EXTENDS Integers

CONSTANTS
  BulkPairs,           \* 8, the unrolling of the first loop
  Words,               \* the addresses there are in memory
  Contents,            \* memory when the call is made
  Calls                \* the possible calls, see CallAssumption

ASSUME BulkAssumption == BulkPairs \in Nat \ {0}

\* The callers' ranges lie in memory, and are one range or do not overlap.
ASSUME CallAssumption ==
  /\ Words \subseteq Nat
  /\ \A c \in Calls :
       /\ c.to \in Nat /\ c.from \in Nat /\ c.count \in Nat
       /\ \A k \in 0 .. c.count - 1 : c.to + k \in Words /\ c.from + k \in Words
       /\ c.to = c.from \/ c.to + c.count <= c.from \/ c.from + c.count <= c.to

ASSUME ContentsAssumption == Contents = [w \in Words |-> Contents[w]]

VARIABLES
  call,        \* Destination, Source, Count and Color
  pc,
  pair,        \* PairIndex
  index,       \* Index
  memory

vars == <<call, pc, pair, index, memory>>

Aligned == call.to % 2 = 0 /\ (call.op = "copy" => call.from % 2 = 0)

PairCount == call.count \div 2

\* Mutant: a bulk that does not fit is started.
BulkPairCountUp == ((PairCount + BulkPairs - 1) \div BulkPairs) * BulkPairs

BulkPairCount == (PairCount \div BulkPairs) * BulkPairs

\* The pixel that goes to Destination[k].
Value(k) == IF call.op = "fill" THEN call.color ELSE memory[call.from + k]

\* Memory with Destination[k] stored for the k from lo to hi.
Stored(lo, hi) ==
  [w \in Words |-> IF w \in call.to + lo .. call.to + hi THEN Value(w - call.to) ELSE memory[w]]

Init ==
  /\ call \in Calls /\ pc = "enter" /\ pair = 0 /\ index = 0
  /\ memory = Contents

Enter ==
  /\ pc = "enter"
  /\ pc' = IF Aligned THEN "pairs" ELSE "tail"
  /\ UNCHANGED <<call, pair, index, memory>>

\* One iteration of the unrolled loop.
BulkStep ==
  /\ pc = "pairs" /\ pair < BulkPairCount
  /\ memory' = Stored(2 * pair, 2 * (pair + BulkPairs) - 1)
  /\ pair' = pair + BulkPairs
  /\ UNCHANGED <<call, pc, index>>

PairStep ==
  /\ pc = "pairs" /\ pair >= BulkPairCount /\ pair < PairCount
  /\ memory' = Stored(2 * pair, 2 * pair + 1)
  /\ pair' = pair + 1
  /\ UNCHANGED <<call, pc, index>>

PairsDone ==
  /\ pc = "pairs" /\ pair >= BulkPairCount /\ pair >= PairCount
  /\ index' = 2 * PairCount /\ pc' = "tail"
  /\ UNCHANGED <<call, pair, memory>>

TailStep ==
  /\ pc = "tail" /\ index < call.count
  /\ memory' = Stored(index, index)
  /\ index' = index + 1
  /\ UNCHANGED <<call, pc, pair>>

Return ==
  /\ pc = "tail" /\ index >= call.count
  /\ pc' = "returned"
  /\ UNCHANGED <<call, pair, index, memory>>

Next == Enter \/ BulkStep \/ PairStep \/ PairsDone \/ TailStep \/ Return

Spec == Init /\ [][Next]_vars

-----------------------------------------------------------------------------
\* The pixel w when the first n pixels of the call are stored.
After(n, w) ==
  IF w \in call.to .. call.to + n - 1
  THEN IF call.op = "fill" THEN call.color ELSE Contents[call.from + (w - call.to)]
  ELSE Contents[w]

\* FillPixels32 and CopyPixels32 return with exactly the range they were asked
\* for stored and nothing beside it, at every alignment and for every count.
CopyIsExact == pc = "returned" => \A w \in Words : memory[w] = After(call.count, w)
=============================================================================
