---------------------------- MODULE LoaderPermit ----------------------------
(***************************************************************************)
(* What get_or_load and coordinate promise about loaders: each key has one *)
(* permit; a caller takes it when nobody holds it and gives it back.       *)
(***************************************************************************)
CONSTANTS Threads, Keys

VARIABLE holder   \* key -> the set of callers that may run its loader

Init == holder = [k \in Keys |-> {}]

Take(t, k) == /\ holder[k] = {}
              /\ \A x \in Keys : t \notin holder[x]
              /\ holder' = [holder EXCEPT ![k] = {t}]

Give(t, k) == /\ holder[k] = {t}
              /\ holder' = [holder EXCEPT ![k] = {}]

Next == \E t \in Threads, k \in Keys : Take(t, k) \/ Give(t, k)

Spec == /\ Init /\ [][Next]_holder
        /\ \A t \in Threads, k \in Keys : WF_holder(Give(t, k))
=============================================================================
