-------------------------- MODULE MCEventIngestion --------------------------
EXTENDS EventIngestion

\* The change a arrives by both ways; bad may push its id out of the seen ones
\* in between.
SmallLog == <<"a", "bad">>
SmallHook == <<"a", "wide">>

SmallKeysOf == [bad |-> {"k1"}, a |-> {"k1"}, wide |-> {"k1", "k3"}]

\* k2 is derived from k1; the two keys of wide and their dependents are too many.
SmallEdges == {<<"k1", "k2">>, <<"k3", "k4">>}
=============================================================================
