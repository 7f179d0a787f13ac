------------------------------- MODULE Restore -------------------------------
(***************************************************************************)
(* What a restore finds: batchRestore probes the counters of a keyset in   *)
(* waves of batches and stops after enough empty batches in a row.  The    *)
(* counters the mint has signed are given as a set; the mint's answer lists*)
(* the outputs it knows in any order (restore maps them by B_).            *)
(***************************************************************************)
EXTENDS Integers, FiniteSets, FiniteSetsExt

CONSTANTS PoolSize   \* BATCH_POOL_SIZE

ASSUME PoolSizeAssumption == PoolSize \in Nat \ {0}

\* restore: the counters of one batch with a signature, matched by the output.
RestoreBatch(signed, start, count) == signed \cap (start..(start + count - 1))

\* Variant: only whole batches count towards the gap.
RequiredWholeBatches(gapLimit, batchSize) == gapLimit \div batchSize

\* Math.ceil(gapLimit / batchSize).
RequiredEmptyBatches(gapLimit, batchSize) == (gapLimit + batchSize - 1) \div batchSize

\* The starts of a wave.
WaveStarts(counter, batchSize, bound) ==
  {counter + i * batchSize : i \in 0..(PoolSize - 1)} \cap 0..bound

\* One wave: every batch of it is processed in counter order, and an empty one adds to
\* the gap that a found one resets.
Wave(signed, counter, batchSize, bound, empty) ==
  LET starts == WaveStarts(counter, batchSize, bound)
      Count(s) == IF batchSize < bound - s + 1 THEN batchSize ELSE bound - s + 1
      hits == {s \in starts : RestoreBatch(signed, s, Count(s)) # {}}
  IN [found |-> UNION {RestoreBatch(signed, s, Count(s)) : s \in starts},
      empty |-> IF hits = {} THEN empty + Cardinality(starts)
                ELSE Cardinality({s \in starts : s > Max(hits)})]

\* batchRestore from counter 0: the counters found.
BatchRestore(signed, gapLimit, batchSize, bound) ==
  LET required == RequiredEmptyBatches(gapLimit, batchSize)
      width == batchSize * PoolSize
      last == IF signed = {} THEN 0 ELSE Max(signed)
      scan[w \in 0..(last \div width + 1)] ==
        IF w = 0 THEN [found |-> {}, empty |-> 0, go |-> required > 0]
        ELSE LET s == scan[w - 1]
                 wave == Wave(signed, (w - 1) * width, batchSize, bound, s.empty)
             IN IF ~s.go \/ (w - 1) * width > bound THEN [s EXCEPT !.go = FALSE]
                ELSE [found |-> s.found \cup wave.found, empty |-> wave.empty,
                      go |-> wave.empty < required]
  IN scan[last \div width + 1].found

\* lastCounterWithSignature.
LastCounterWithSignature(found) == IF found = {} THEN -1 ELSE Max(found)
-----------------------------------------------------------------------------
\* The gap rule as documented: everything up to the bound is found unless gapLimit
\* counters in a row without a signature come before it.
WithinGap(signed, c, gapLimit, bound) ==
  /\ c \in signed /\ c <= bound
  /\ \A s \in 0..c : (s..(s + gapLimit - 1) \subseteq 0..c) =>
       (s..(s + gapLimit - 1)) \cap signed # {}
=============================================================================
