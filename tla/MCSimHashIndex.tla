--------------------------- MODULE MCSimHashIndex ---------------------------
EXTENDS SimHashIndex, TLC

\* Four bits in two blocks.
MCBlockOf == [bit \in 1..4 |-> IF bit <= 2 THEN "low" ELSE "high"]

\* {} and {3} are near and share the low block only, {} and {1, 2} share the
\* high block but are too far apart, {3} and {1, 2} share no block.
MCHashes == {{}, {3}, {1, 2}}

\* A pair at distance two with a differing bit in each block.
MCSpread == {{}, {1, 3}}

Interchangeable == Permutations(Processes)
=============================================================================
