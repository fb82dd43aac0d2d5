---------------------------- MODULE SingleFlight ----------------------------
(***************************************************************************)
(* get_or_load and coordinate of src/megacache/engine.py and               *)
(* src/megacache/cluster.py: one caller per key runs the loader, the       *)
(* others wait on its flight's event.  The lock is held only to look at    *)
(* the cache and the flight table and to close a flight; the loader and    *)
(* the write of its value run between those two critical sections.         *)
(*                                                                         *)
(* coordinate is the same protocol on a table of its own without a cache.  *)
(* A member of FlightKeys is a key together with the table it is looked    *)
(* up in: get_or_load's are the CachedKeys, the others coordinate's.       *)
(***************************************************************************)
CONSTANTS
    Callers, FlightKeys,
    Flights,      \* bound: the flight objects ever created
    NoFlight,
    CachedKeys    \* the keys of get_or_load, which looks into the cache

ASSUME NoFlightIsNone == NoFlight \notin Flights

ASSUME CachedKeysAreKeys == CachedKeys \subseteq FlightKeys

VARIABLES
    cached,    \* the keys a lookup would find
    table,     \* key -> its open flight
    outcome,   \* flight -> unused, pending, value or error
    released,  \* the flights whose event is set
    pc,        \* thread -> idle, loading, storing, closing or waiting
    asked,     \* thread -> the key it asked for
    joined     \* thread -> the flight it leads or follows

flightVars == <<cached, table, outcome, released, pc, asked, joined>>

Leading == {"loading", "storing", "closing"}

FlightInit ==
    /\ cached = {}
    /\ table = [k \in FlightKeys |-> NoFlight]
    /\ outcome = [f \in Flights |-> "unused"]
    /\ released = {}
    /\ pc = [t \in Callers |-> "idle"]
    /\ asked \in [Callers -> FlightKeys]
    /\ joined = [t \in Callers |-> NoFlight]

Misses(k) == k \notin CachedKeys \cap cached

\* The first critical section: the cache answers.
Hit(t, k) ==
    /\ pc[t] = "idle" /\ ~Misses(k)
    /\ asked' = [asked EXCEPT ![t] = k]
    /\ UNCHANGED <<cached, table, outcome, released, pc, joined>>

\* The first critical section: no flight is open, so this caller leads one.
Lead(t, k, f) ==
    /\ pc[t] = "idle" /\ Misses(k)
    /\ table[k] = NoFlight /\ outcome[f] = "unused"
    /\ table' = [table EXCEPT ![k] = f]
    /\ outcome' = [outcome EXCEPT ![f] = "pending"]
    /\ pc' = [pc EXCEPT ![t] = "loading"]
    /\ asked' = [asked EXCEPT ![t] = k]
    /\ joined' = [joined EXCEPT ![t] = f]
    /\ UNCHANGED <<cached, released>>

\* The first critical section: another caller's flight is open.
Follow(t, k) ==
    /\ pc[t] = "idle" /\ Misses(k)
    /\ table[k] # NoFlight
    /\ pc' = [pc EXCEPT ![t] = "waiting"]
    /\ asked' = [asked EXCEPT ![t] = k]
    /\ joined' = [joined EXCEPT ![t] = table[k]]
    /\ UNCHANGED <<cached, table, outcome, released>>

\* Mutant: the flight is popped when the loader returns, before the write.
LoadReturnsPopping(t) ==
    /\ pc[t] = "loading"
    /\ pc' = [pc EXCEPT ![t] = IF asked[t] \in CachedKeys THEN "storing" ELSE "closing"]
    /\ outcome' = IF asked[t] \in CachedKeys THEN outcome
                  ELSE [outcome EXCEPT ![joined[t]] = "value"]
    /\ table' = [table EXCEPT ![asked[t]] = NoFlight]
    /\ UNCHANGED <<cached, released, asked, joined>>

\* The loader returns; coordinate's result is the value itself.
LoadReturns(t) ==
    /\ pc[t] = "loading"
    /\ pc' = [pc EXCEPT ![t] = IF asked[t] \in CachedKeys THEN "storing" ELSE "closing"]
    /\ outcome' = IF asked[t] \in CachedKeys THEN outcome
                  ELSE [outcome EXCEPT ![joined[t]] = "value"]
    /\ UNCHANGED <<cached, table, released, asked, joined>>

\* Mutant: no finally, a raising loader leaves its flight open.
FailsOpen(t) ==
    /\ pc[t] \in {"loading", "storing"}
    /\ pc' = [pc EXCEPT ![t] = "idle"]
    /\ outcome' = [outcome EXCEPT ![joined[t]] = "error"]
    /\ UNCHANGED <<cached, table, released, asked, joined>>

\* The loader, or the put of its value, raises: the error becomes the outcome.
Fails(t) ==
    /\ pc[t] \in {"loading", "storing"}
    /\ pc' = [pc EXCEPT ![t] = "closing"]
    /\ outcome' = [outcome EXCEPT ![joined[t]] = "error"]
    /\ UNCHANGED <<cached, table, released, asked, joined>>

\* put stores the value; a cost eviction may drop it in the same call.
Stores(t) ==
    /\ pc[t] = "storing"
    /\ pc' = [pc EXCEPT ![t] = "closing"]
    /\ outcome' = [outcome EXCEPT ![joined[t]] = "value"]
    /\ cached' \in {cached \cup {asked[t]}, cached \ {asked[t]}}
    /\ UNCHANGED <<table, released, asked, joined>>

\* Mutant: the flight is popped and its event never set.
CloseUnset(t) ==
    /\ pc[t] = "closing"
    /\ table' = [table EXCEPT ![asked[t]] = NoFlight]
    /\ pc' = [pc EXCEPT ![t] = "idle"]
    /\ UNCHANGED <<cached, outcome, released, asked, joined>>

\* The second critical section, in a finally: pop the flight, set its event.
Close(t) ==
    /\ pc[t] = "closing"
    /\ table' = [table EXCEPT ![asked[t]] = NoFlight]
    /\ released' = released \cup {joined[t]}
    /\ pc' = [pc EXCEPT ![t] = "idle"]
    /\ UNCHANGED <<cached, outcome, asked, joined>>

\* A follower returns the flight's result or raises its error.
Wake(t) ==
    /\ pc[t] = "waiting" /\ joined[t] \in released
    /\ pc' = [pc EXCEPT ![t] = "idle"]
    /\ UNCHANGED <<cached, table, outcome, released, asked, joined>>

\* Anything else done to the key meanwhile: written, deleted, expired, evicted.
Elsewhere(k) ==
    /\ cached' \in {cached \cup {k}, cached \ {k}}
    /\ UNCHANGED <<table, outcome, released, pc, asked, joined>>

Leader(t) == LoadReturns(t) \/ Fails(t) \/ Stores(t) \/ Close(t)

Call(t) == \E k \in FlightKeys : Hit(t, k) \/ Follow(t, k)
                           \/ \E f \in Flights : Lead(t, k, f)

FlightNext == \/ \E t \in Callers : Call(t) \/ Leader(t) \/ Wake(t)
        \/ \E k \in FlightKeys : Elsewhere(k)

\* Loaders end, one way or the other; a woken or leading thread is scheduled.
Fairness == \A t \in Callers : WF_flightVars(Leader(t)) /\ WF_flightVars(Wake(t))

FlightSpec == FlightInit /\ [][FlightNext]_flightVars /\ Fairness

----------------------------------------------------------------------------
(* Properties *)

\* Every variable has its type.
FlightTypeOK ==
    /\ cached \subseteq FlightKeys
    /\ table \in [FlightKeys -> Flights \cup {NoFlight}]
    /\ outcome \in [Flights -> {"unused", "pending", "value", "error"}]
    /\ released \subseteq Flights
    /\ pc \in [Callers -> Leading \cup {"idle", "waiting"}]
    /\ asked \in [Callers -> FlightKeys]
    /\ joined \in [Callers -> Flights \cup {NoFlight}]

\* "Load one missing key once while concurrent callers wait": no two callers
\* run the loader of one key, or write its value, at the same time.
OneLoader ==
    \A t, u \in Callers :
        pc[t] \in Leading /\ pc[u] \in Leading /\ asked[t] = asked[u] => t = u

\* A flight's result is there before its event is set: a follower that wakes
\* never finds both result and error unset (the assertion after event.wait).
OutcomeBeforeEvent == \A f \in released : outcome[f] \in {"value", "error"}

\* Nobody waits on a flight that no leader will ever close: every follower's
\* flight is released, or open in the table with a leader at work on it.
NoOrphanWaiter ==
    \A t \in Callers : pc[t] = "waiting" =>
        \/ joined[t] \in released
        \/ /\ table[asked[t]] = joined[t]
           /\ \E u \in Callers : pc[u] \in Leading /\ joined[u] = joined[t]

\* Every follower returns, also when the loader or the put raises.
WaitersReturn == \A t \in Callers : pc[t] = "waiting" ~> pc[t] = "idle"

\* Who runs the loader of each key, as LoaderPermit sees it.
Loaders == [k \in FlightKeys |-> {t \in Callers : pc[t] \in Leading /\ asked[t] = k}]

Permit == INSTANCE LoaderPermit WITH Threads <- Callers, Keys <- FlightKeys, holder <- Loaders

\* The protocol implements one permit per key, taken when free, kept by its
\* holder until given back, and always given back.
PermitSpec == Permit!Spec
=============================================================================
