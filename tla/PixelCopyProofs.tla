-------------------------- MODULE PixelCopyProofs --------------------------
(***************************************************************************)
(* CopyIsExact for every unrolling, count and alignment, and for every two *)
(* ranges that are the same or do not overlap.                             *)
(***************************************************************************)
EXTENDS PixelCopy, TLAPS

\* How many pixels are stored.
Done == IF pc \in {"tail", "returned"} THEN index ELSE 2 * pair

\* What holds of the counters: pairs are counted in whole bulks as long as there
\* is one left, so that a bulk never reaches behind the pairs.
CounterInv ==
  /\ call \in Calls /\ index \in Nat /\ pair \in Nat
  /\ pc \in {"enter", "pairs", "tail", "returned"}
  /\ pc = "enter" => pair = 0 /\ index = 0
  /\ pc \in {"enter", "pairs"} => pair <= PairCount
  /\ pc \in {"enter", "pairs"} /\ pair < BulkPairCount =>
       \E q \in Nat : pair = q * BulkPairs
  /\ pc = "tail" => index <= call.count
  /\ pc = "returned" => index = call.count

\* The pixels stored so far, and nothing else, have changed.
PrefixInv == memory = [w \in Words |-> After(Done, w)]

IInv == CounterInv /\ PrefixInv

-----------------------------------------------------------------------------
\* Storing the next pixels of a range extends the stored prefix: the sources of
\* the pixels to come have not been written, since ranges that overlap are equal.
LEMMA StoreExtends ==
  ASSUME call \in Calls, NEW n \in Nat, NEW m \in Nat, n <= m, m <= call.count,
         memory = [w \in Words |-> After(n, w)]
  PROVE  Stored(n, m - 1) = [w \in Words |-> After(m, w)]
  <1> DEFINE to == call.to
             from == call.from
             count == call.count
  <1>1. to \in Nat /\ from \in Nat /\ count \in Nat /\ Words \subseteq Nat
    BY CallAssumption
  <1>2. \A k \in 0 .. count - 1 : to + k \in Words /\ from + k \in Words
    BY CallAssumption
  <1>3. to = from \/ to + count <= from \/ from + count <= to
    BY CallAssumption
  <1>4. ASSUME NEW w \in Words
        PROVE  (IF w \in to + n .. to + (m - 1) THEN Value(w - to) ELSE memory[w]) = After(m, w)
    <2>1. CASE w \in to + n .. to + (m - 1)
      <3>1. w - to \in 0 .. count - 1 /\ from + (w - to) \in Words
        BY <1>1, <1>2, <2>1
      <3>2. from + (w - to) \notin to .. to + n - 1
        BY <1>1, <1>3, <2>1, <3>1
      <3>3. memory[from + (w - to)] = Contents[from + (w - to)]
        BY <3>1, <3>2 DEF After
      <3>4. w \in to .. to + m - 1
        BY <1>1, <2>1
      <3> QED
        BY <2>1, <3>3, <3>4 DEF Value, After
    <2>2. CASE w \notin to + n .. to + (m - 1)
      <3>1. w \in to .. to + m - 1 <=> w \in to .. to + n - 1
        BY <1>1, <2>2
      <3> QED
        BY <2>2, <3>1 DEF After
    <2> QED
      BY <2>1, <2>2
  <1> QED
    BY <1>4 DEF Stored

\* A bulk that is started lies within the pairs.
LEMMA BulkFits ==
  ASSUME NEW b \in Nat \ {0}, NEW q \in Nat, NEW n \in Nat, q * b < (n \div b) * b
  PROVE  q * b + b <= n /\ q * b + b = (q + 1) * b
  <1>1. n \div b \in Nat /\ (n \div b) * b <= n
    OBVIOUS
  <1>2. q < n \div b
    <2> SUFFICES ASSUME n \div b <= q PROVE FALSE
      BY <1>1
    <2>1. PICK e \in Nat : q = n \div b + e
      <3>1. q - n \div b \in Nat
        BY <1>1
      <3> QED
        BY <1>1, <3>1
    <2>2. q * b = (n \div b) * b + e * b /\ e * b >= 0
      BY <1>1, <2>1
    <2> QED
      BY <1>1, <2>2
  <1>3. PICK r \in Nat : n \div b = (q + 1) + r
    <2>1. n \div b - (q + 1) \in Nat /\ n \div b = (q + 1) + (n \div b - (q + 1))
      BY <1>1, <1>2
    <2> QED
      BY <2>1
  <1>4. (n \div b) * b = (q + 1) * b + r * b /\ r * b >= 0 /\ (q + 1) * b = q * b + b
    BY <1>1, <1>3
  <1> QED
    BY <1>1, <1>4

\* The counters at the first step.
LEMMA InitInv == Init => IInv
  <1> SUFFICES ASSUME Init PROVE IInv
    OBVIOUS
  <1>1. call.to \in Nat /\ call.count \in Nat
    BY CallAssumption DEF Init
  <1>2. CounterInv
    <2>1. PairCount \in Nat
      BY <1>1 DEF PairCount
    <2>2. 0 = 0 * BulkPairs
      BY BulkAssumption
    <2> QED
      BY <2>1, <2>2 DEF CounterInv, Init
  <1>3. PrefixInv
    <2>1. \A w : After(0, w) = Contents[w]
      BY <1>1 DEF After
    <2>2. Contents = [w \in Words |-> Contents[w]]
      BY ContentsAssumption
    <2>3. Done = 0
      BY DEF Done, Init
    <2> QED
      BY <2>1, <2>2, <2>3 DEF PrefixInv, Init
  <1> QED
    BY <1>2, <1>3 DEF IInv

\* Every step keeps the counters in range and extends the stored prefix.
LEMMA StepInv == IInv /\ [Next]_vars => IInv'
  <1> SUFFICES ASSUME IInv, [Next]_vars PROVE IInv'
    OBVIOUS
  <1> USE DEF IInv
  <1>1. call.to \in Nat /\ call.count \in Nat /\ BulkPairs \in Nat \ {0}
    BY CallAssumption, BulkAssumption DEF CounterInv
  <1>2. PairCount \in Nat /\ 2 * PairCount <= call.count
    BY <1>1 DEF PairCount
  <1>3. CASE Enter
    <2>1. CounterInv'
      BY <1>1, <1>3 DEF CounterInv, Enter, PairCount, BulkPairCount
    <2>2. (pc' = "tail" => pair = 0) /\ Done' = Done
      BY <1>3 DEF Enter, CounterInv, Done
    <2> QED
      BY <1>3, <2>1, <2>2 DEF PrefixInv, After, Enter
  <1>4. CASE BulkStep
    <2>1. PICK q \in Nat : pair = q * BulkPairs
      BY <1>4 DEF BulkStep, CounterInv
    <2>2. pair + BulkPairs <= PairCount /\ pair + BulkPairs = (q + 1) * BulkPairs
      BY <1>1, <1>2, <1>4, <2>1, BulkFits DEF BulkStep, BulkPairCount
    <2>3. CounterInv'
      <3>1. q + 1 \in Nat /\ pair' = (q + 1) * BulkPairs /\ pc' = "pairs"
        BY <1>4, <2>2 DEF BulkStep
      <3>2. pair' \in Nat /\ pair' <= PairCount'
        BY <1>1, <1>4, <2>2 DEF BulkStep, CounterInv, PairCount
      <3>3. call' \in Calls /\ index' \in Nat
        BY <1>4 DEF BulkStep, CounterInv
      <3>4. \E p \in Nat : pair' = p * BulkPairs
        BY <3>1
      <3> QED
        BY <3>1, <3>2, <3>3, <3>4 DEF CounterInv
    <2>4. /\ pair \in Nat /\ Done = 2 * pair /\ Done' = 2 * (pair + BulkPairs)
          /\ 2 * pair <= 2 * (pair + BulkPairs) /\ 2 * (pair + BulkPairs) <= call.count
      BY <1>1, <1>2, <1>4, <2>2 DEF BulkStep, CounterInv, Done
    <2>5. memory' = [w \in Words |-> After(Done', w)]
      BY <1>1, <1>4, <2>4, StoreExtends DEF BulkStep, CounterInv, PrefixInv
    <2> QED
      BY <1>4, <2>3, <2>5 DEF BulkStep, PrefixInv, After
  <1>5. CASE PairStep
    <2>1. CounterInv'
      BY <1>1, <1>2, <1>5 DEF PairStep, CounterInv, PairCount, BulkPairCount
    <2>2. /\ pair \in Nat /\ Done = 2 * pair /\ Done' = 2 * pair + 2
          /\ 2 * pair + 2 <= call.count /\ 2 * pair + 1 = Done' - 1
      BY <1>1, <1>2, <1>5 DEF PairStep, CounterInv, Done
    <2>3. memory' = [w \in Words |-> After(Done', w)]
      BY <1>1, <1>5, <2>2, StoreExtends DEF PairStep, CounterInv, PrefixInv
    <2> QED
      BY <1>5, <2>1, <2>3 DEF PairStep, PrefixInv, After
  <1>6. CASE PairsDone
    <2>1. pair = PairCount
      BY <1>2, <1>6 DEF PairsDone, CounterInv
    <2>2. CounterInv'
      BY <1>1, <1>2, <1>6 DEF PairsDone, CounterInv
    <2>3. Done' = Done
      BY <1>6, <2>1 DEF PairsDone, Done
    <2> QED
      BY <1>6, <2>2, <2>3 DEF PairsDone, PrefixInv, After
  <1>7. CASE TailStep
    <2>1. CounterInv'
      BY <1>1, <1>7 DEF TailStep, CounterInv
    <2>2. /\ index \in Nat /\ Done = index /\ Done' = index + 1
          /\ index + 1 <= call.count /\ index = Done' - 1
      BY <1>1, <1>7 DEF TailStep, CounterInv, Done
    <2>3. memory' = [w \in Words |-> After(Done', w)]
      <3>1. /\ call \in Calls /\ index + 1 \in Nat /\ index <= index + 1
            /\ memory = [w \in Words |-> After(index, w)]
        BY <2>2 DEF CounterInv, PrefixInv
      <3>2. Stored(index, (index + 1) - 1) = [w \in Words |-> After(index + 1, w)]
        BY <2>2, <3>1, StoreExtends
      <3>3. (index + 1) - 1 = index
        BY <2>2
      <3> QED
        BY <1>7, <2>2, <3>2, <3>3 DEF TailStep
    <2> QED
      BY <1>7, <2>1, <2>3 DEF TailStep, PrefixInv, After
  <1>8. CASE Return
    <2>1. CounterInv'
      BY <1>1, <1>8 DEF Return, CounterInv
    <2>2. Done' = Done
      BY <1>8 DEF Return, Done
    <2> QED
      BY <1>8, <2>1, <2>2 DEF Return, PrefixInv, After
  <1>9. CASE UNCHANGED vars
    BY <1>9 DEF vars, CounterInv, PrefixInv, Done, After, PairCount, BulkPairCount
  <1> QED
    BY <1>3, <1>4, <1>5, <1>6, <1>7, <1>8, <1>9 DEF Next

\* FillPixels32 and CopyPixels32 store exactly their range, whatever the
\* unrolling, the count and the alignment of the two addresses.
THEOREM CopyExact == Spec => []CopyIsExact
  <1>1. IInv => CopyIsExact
    <2> SUFFICES ASSUME IInv, pc = "returned", NEW w \in Words
                 PROVE  memory[w] = After(call.count, w)
      BY DEF CopyIsExact
    <2>1. Done = call.count
      BY DEF IInv, CounterInv, Done
    <2> QED
      BY <2>1 DEF IInv, PrefixInv
  <1> QED
    BY <1>1, InitInv, StepInv, PTL DEF Spec
=============================================================================
