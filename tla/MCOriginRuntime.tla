--------------------------- MODULE MCOriginRuntime ---------------------------
(* A small instance of an origin's resilience policy for TLC.               *)
EXTENDS OriginRuntime

\* Two attempts in the process, one of them at the origin; one waits at each.
SmallMaximum == [b \in Budgets |-> IF b = "global" THEN 2 ELSE 1]

SmallQueue == [b \in Budgets |-> 1]
=============================================================================
