--------------------------- MODULE MCCacheEngine ---------------------------
(* Small instances of the engine for TLC.                                  *)
EXTENDS CacheEngine, TLC

CONSTANTS k1, k2, k3, g1, t1, t2, v1, v2

\* v2 is the large value: it does not fit beside another entry.
MCValueBytes == [v \in Values |-> IF v = v2 THEN 2 ELSE 1]

\* Keys and threads are interchangeable.
Interchangeable == Permutations(Keys) \cup Permutations(Threads)

MCTagSets == {{}, {g1}}
=============================================================================
