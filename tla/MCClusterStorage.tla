-------------------------- MODULE MCClusterStorage --------------------------
(* Small instances of the cluster coordinator for TLC.                     *)
EXTENDS ClusterStorage

\* Walking on from any key, the nodes come in their sorted order; walking on
\* from a key that meets them the other way round.
SortedDistance == [k \in Keys |-> [n \in Nodes |-> n]]

ReversedDistance == [k \in Keys |-> [n \in Nodes |-> 9 - n]]

\* Node 3 first, then the joining nodes 4 and 5, then 1 and 2.
KeptFirstDistance ==
    [k \in Keys |-> [n \in Nodes |-> IF n >= 3 THEN n ELSE 5 + n]]

\* Transactions of one key, of several.
SingleKeys == {{k} : k \in Keys}

AnyKeys == SUBSET Keys \ {{}}
=============================================================================
