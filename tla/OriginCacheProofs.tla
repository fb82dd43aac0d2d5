-------------------------- MODULE OriginCacheProofs --------------------------
(***************************************************************************)
(* Proofs about OriginCache for any number of callers, workers and paths:  *)
(* the registries of flights and refresh jobs are exact, no refresh stores *)
(* what a later delete or put has outdated, and a pause that has returned  *)
(* is quiet.                                                               *)
(***************************************************************************)
EXTENDS OriginCache, FiniteSetTheorems, TLAPS

ThreadType ==
    [step : Steps, path : Paths \cup {None}, force : BOOLEAN, admitted : BOOLEAN,
     result : {"none"} \cup Outcomes, lost : BOOLEAN, outdated : BOOLEAN]

\* The steps of a fetch, whoever makes it.
Fetching == Leading \cup {"joining", "waiting", "woken", "answering"}

\* Where callers and workers may be, what has a path, and which workers are
\* counted as active in the background.
Placed(t) ==
    /\ thread[t].step \in Fetching \cup (IF t \in Callers THEN {"idle"}
                  ELSE {"polling", "gate", "admitted", "finishing", "exited"})
    /\ thread[t].path = None <=> thread[t].step \in {"idle", "polling", "exited"}
    /\ thread[t].step = "storing" => thread[t].result \in {"value", "negative"}
    /\ t \in Workers /\ thread[t].step \in Fetching \cup {"admitted"} => thread[t].admitted
    /\ thread[t].step \in {"polling", "gate", "exited"} => ~thread[t].admitted

ThreadsOK == thread \in [Threads -> ThreadType] /\ \A t \in Threads : Placed(t)

Followers == {t \in Threads : thread[t].step \in {"waiting", "woken"}}

\* A path's flight is that of its one leader, and followers wait on a flight.
FlightsOK ==
    /\ flight \in [Paths -> Threads \cup {None}]
    /\ followers \in 0..GlobalMaxFollowers
    /\ \A p \in Paths, t \in Threads :
          flight[p] = t <=> thread[t].path = p /\ thread[t].step \in Leading
    /\ \A t \in Threads : At(t, "waiting") => flight[thread[t].path] # None
    /\ followers = Cardinality(Followers)

JobHolders(p) == {w \in Workers : thread[w].path = p}

\* Jobs are with one worker or in the queue, which the sentinels share.
JobsOK ==
    /\ queue \subseteq Paths /\ scheduled \subseteq Paths
    /\ sentinels \in 0..Cardinality(Workers)
    /\ IsFiniteSet(queue) /\ Cardinality(queue) + sentinels <= RefreshQueueSize
    /\ sentinels > 0 => closed
    /\ \A p \in Paths : Cardinality(JobHolders(p)) + (IF p \in queue THEN 1 ELSE 0)
                           = (IF p \in scheduled THEN 1 ELSE 0)

ActiveWorkers == {w \in Workers : thread[w].admitted}

\* The count of active refreshes is exact, and none begins during a pause.
PausesOK ==
    /\ background = Cardinality(ActiveWorkers)
    /\ paused \in BOOLEAN /\ closed \in BOOLEAN
    /\ pauser \in {"none", "draining", "held"}
    /\ pauser # "none" => paused \/ closed
    /\ pauser = "held" => background = 0

\* Whoever has been outdated has lost the lease, and the lease is only taken
\* before the request.
EntryOK ==
    /\ entry \in [age : {"fresh", "swr", "sie", "miss"}, path : Paths \cup {None},
                  kind : {"value", "negative"}, outdated : BOOLEAN]
    /\ lease \in Threads \cup {None, Other}
    /\ ~entry.outdated
    /\ \A t \in Threads : thread[t].outdated =>
          thread[t].step \in {"requesting", "storing"} /\ lease # t

IInv == ThreadsOK /\ FlightsOK /\ JobsOK /\ PausesOK /\ EntryOK

----------------------------------------------------------------------------
(* Counting, and what a step leaves alone *)

\* A set that one element joins or leaves, or neither.
LEMMA CountOne ==
    ASSUME NEW S, IsFiniteSet(S), NEW T, NEW x,
           \A y : y # x => (y \in T <=> y \in S)
    PROVE  /\ IsFiniteSet(T) /\ Cardinality(S) \in Nat /\ Cardinality(T) \in Nat
           /\ (x \in S <=> x \in T) => Cardinality(T) = Cardinality(S)
           /\ x \in S /\ x \notin T => Cardinality(T) = Cardinality(S) - 1
           /\ x \notin S /\ x \in T => Cardinality(T) = Cardinality(S) + 1
<1>0. Cardinality(S) \in Nat
  BY FS_CardinalityType
<1>1. CASE x \in S <=> x \in T
  <2>1. S = T
    BY <1>1
  <2> QED
    BY <1>0, <1>1, <2>1
<1>2. CASE x \in S /\ x \notin T
  <2>1. T = S \ {x}
    BY <1>2
  <2>2. IsFiniteSet(T) /\ Cardinality(T) = Cardinality(S) - 1
    BY <1>2, <2>1, FS_RemoveElement
  <2> QED
    BY <1>0, <1>2, <2>2, FS_CardinalityType
<1>3. CASE x \notin S /\ x \in T
  <2>1. T = S \cup {x}
    BY <1>3
  <2>2. IsFiniteSet(T) /\ Cardinality(T) = Cardinality(S) + 1
    BY <1>3, <2>1, FS_AddElement
  <2> QED
    BY <1>0, <1>3, <2>2, FS_CardinalityType
<1> QED
  BY <1>1, <1>2, <1>3

\* Sets of threads are finite.
LEMMA ThreadSets ==
    ASSUME NEW S, S \subseteq Threads
    PROVE  IsFiniteSet(S) /\ Cardinality(S) \in Nat
BY ThreadsAreFinite, FS_Subset, FS_CardinalityType

\* A step that moves nobody into or out of a flight keeps the registry.
LEMMA FlightsKept ==
    ASSUME FlightsOK, UNCHANGED coalescing,
           \A u \in Threads :
              /\ thread'[u].step \in Leading <=> thread[u].step \in Leading
              /\ thread[u].step \in Leading => thread'[u].path = thread[u].path
              /\ At(u, "waiting")' => At(u, "waiting") /\ thread'[u].path = thread[u].path
              /\ thread'[u].step \in {"waiting", "woken"} <=> thread[u].step \in {"waiting", "woken"}
    PROVE  FlightsOK'
<1>1. Followers' = Followers
  BY DEF Followers
<1> QED
  BY <1>1 DEF FlightsOK, coalescing, At

\* A step that moves no worker's path keeps the registry of jobs.
LEMMA JobsKept ==
    ASSUME JobsOK, UNCHANGED refreshing, closed => closed',
           \A w \in Workers : thread'[w].path = thread[w].path
    PROVE  JobsOK'
<1>1. \A p \in Paths : JobHolders(p)' = JobHolders(p)
  BY DEF JobHolders
<1> QED
  BY <1>1 DEF JobsOK, refreshing

\* A step that admits no worker and lets none go keeps the count.
LEMMA PausesKept ==
    ASSUME PausesOK, UNCHANGED <<pausing, closed>>,
           \A w \in Workers : thread'[w].admitted = thread[w].admitted
    PROVE  PausesOK'
<1>1. ActiveWorkers' = ActiveWorkers
  BY DEF ActiveWorkers
<1> QED
  BY <1>1 DEF PausesOK, pausing

\* A step that leaves the entry and the lease alone and outdates nobody.
LEMMA EntryKept ==
    ASSUME EntryOK, UNCHANGED cache,
           \A u \in Threads : thread'[u].outdated =>
              thread[u].outdated /\ thread'[u].step \in {"requesting", "storing"}
    PROVE  EntryOK'
BY DEF EntryOK, cache

\* One thread's record changes.
LEMMA OneThread ==
    ASSUME ThreadsOK, NEW t \in Threads, NEW x \in ThreadType,
           thread' = [thread EXCEPT ![t] = x], Placed(t)'
    PROVE  /\ ThreadsOK' /\ thread'[t] = x
           /\ \A u \in Threads \ {t} : thread'[u] = thread[u]
<1>1. /\ thread' \in [Threads -> ThreadType] /\ thread'[t] = x
      /\ \A u \in Threads \ {t} : thread'[u] = thread[u]
  BY DEF ThreadsOK
<1>2. \A u \in Threads \ {t} : Placed(u)'
  BY <1>1 DEF ThreadsOK, Placed
<1> QED
  BY <1>1, <1>2 DEF ThreadsOK

\* A thread at rest is well placed.
LEMMA RestingType ==
    ASSUME NEW step \in Steps
    PROVE  /\ Resting(step) \in ThreadType
           /\ Resting(step).step = step /\ Resting(step).path = None
           /\ Resting(step).admitted = FALSE /\ Resting(step).outdated = FALSE
BY DEF Resting, ThreadType

\* Nobody has begun at first.
LEMMA InitIInv == Init => IInv
<1> SUFFICES ASSUME Init PROVE IInv
  OBVIOUS
<1>1. ThreadsOK
  <2>1. \A t \in Threads : thread[t] = Resting(IF t \in Workers THEN "polling" ELSE "idle")
    BY DEF Init
  <2>2. \A t \in Threads : thread[t] \in ThreadType /\ thread[t].path = None
                           /\ thread[t].admitted = FALSE
                           /\ thread[t].step = IF t \in Workers THEN "polling" ELSE "idle"
    BY <2>1, RestingType DEF Steps
  <2>3. \A t \in Threads : Placed(t)
    BY <2>2, ThreadsAreFinite DEF Placed, Threads, Fetching, Leading
  <2>4. thread \in [Threads -> ThreadType]
    BY <2>2 DEF Init
  <2> QED
    BY <2>3, <2>4 DEF ThreadsOK
<1>2. \A t \in Threads : /\ thread[t].step \in {"polling", "idle"} /\ thread[t].path = None
                         /\ thread[t].admitted = FALSE /\ thread[t].outdated = FALSE
  BY RestingType DEF Init, Steps
<1>3. FlightsOK
  <2>1. Followers = {}
    BY <1>2 DEF Followers
  <2>2. 0 \in 0..GlobalMaxFollowers /\ None \notin Threads /\ None \notin Paths
    BY LimitsAreNatural, OthersAreNew
  <2> QED
    BY <1>2, <2>1, <2>2, FS_EmptySet DEF Init, FlightsOK, At, Leading
<1>4. JobsOK
  <2>1. \A p \in Paths : JobHolders(p) = {}
    BY <1>2, OthersAreNew DEF JobHolders, Threads
  <2>2. Cardinality(Workers) \in Nat
    BY ThreadSets DEF Threads
  <2>3. /\ IsFiniteSet(queue) /\ Cardinality(queue) + sentinels <= RefreshQueueSize
        /\ sentinels \in 0..Cardinality(Workers) /\ ~(sentinels > 0)
    BY <2>2, FS_EmptySet, LimitsAreNatural DEF Init
  <2>4. \A p \in Paths : Cardinality(JobHolders(p)) + (IF p \in queue THEN 1 ELSE 0)
                           = (IF p \in scheduled THEN 1 ELSE 0)
    <3>1. \A p \in Paths : Cardinality(JobHolders(p)) = 0
      BY <2>1, FS_EmptySet
    <3> QED
      BY <3>1 DEF Init
  <2> QED
    BY <2>3, <2>4 DEF Init, JobsOK
<1>5. PausesOK
  <2>1. ActiveWorkers = {}
    BY <1>2 DEF ActiveWorkers, Threads
  <2> QED
    BY <2>1, FS_EmptySet DEF Init, PausesOK
<1>6. EntryOK
  BY <1>2 DEF Init, EntryOK, Miss
<1> QED
  BY <1>1, <1>3, <1>4, <1>5, <1>6 DEF IInv
----------------------------------------------------------------------------
(* The steps of a fetch *)

\* A thread that has returned: where it is, and what it keeps.
LEMMA ReturnStep ==
    ASSUME IInv, NEW t \in Threads, Return(t),
           thread[t].step \in (Fetching \ Leading) \cup {"admitted"}
    PROVE  /\ ThreadsOK'
           /\ \A u \in Threads \ {t} : thread'[u] = thread[u]
           /\ thread'[t].step \in {"idle", "finishing"} /\ ~thread'[t].outdated
           /\ t \in Workers => /\ thread'[t].path = thread[t].path
                               /\ thread'[t].admitted = thread[t].admitted
<1> DEFINE x == IF t \in Callers THEN Resting("idle")
                ELSE [Resting("finishing") EXCEPT !.path = thread[t].path,
                                                  !.admitted = thread[t].admitted]
<1>1. /\ thread[t].path \in Paths \cup {None} /\ thread[t].admitted \in BOOLEAN
      /\ thread[t].path # None
  BY DEF IInv, ThreadsOK, ThreadType, Placed, Fetching, Leading
<1>2. /\ x \in ThreadType /\ ~x.outdated
      /\ IF t \in Callers THEN x.step = "idle" /\ x.path = None
         ELSE x.step = "finishing" /\ x.path = thread[t].path /\ x.admitted = thread[t].admitted
  <2>1. Resting("idle") \in ThreadType /\ Resting("finishing") \in ThreadType
    BY RestingType DEF Steps
  <2> QED
    BY <1>1, <2>1 DEF Resting, ThreadType
<1>3. thread' = [thread EXCEPT ![t] = x]
  BY DEF Return
<1> HIDE DEF x
<1>4. thread'[t] = x
  BY <1>3 DEF IInv, ThreadsOK
<1>5. Placed(t)'
  BY <1>1, <1>2, <1>4, ThreadsAreFinite DEF Placed, Fetching, Leading, Threads
<1>6. ThreadsOK' /\ \A u \in Threads \ {t} : thread'[u] = thread[u]
  BY <1>2, <1>3, <1>5, OneThread DEF IInv
<1> QED
  BY <1>2, <1>4, <1>6, ThreadsAreFinite

\* What a step of a fetch that is neither leading nor following leaves alone:
\* the jobs and the pauses, and the entry with the lease.
LEMMA FetchKeepsRest ==
    ASSUME IInv, NEW t \in Threads, UNCHANGED <<refreshing, pausing, closed>>,
           \A u \in Threads \ {t} : thread'[u] = thread[u],
           t \in Workers => /\ thread'[t].path = thread[t].path
                            /\ thread'[t].admitted = thread[t].admitted
    PROVE  JobsOK' /\ PausesOK'
<1>1. \A w \in Workers : /\ thread'[w].path = thread[w].path
                         /\ thread'[w].admitted = thread[w].admitted
  BY DEF Threads
<1> QED
  BY <1>1, JobsKept, PausesKept DEF IInv

\* Somebody enters or leaves the followers.
LEMMA FollowerMoves ==
    ASSUME NEW t \in Threads, \A u \in Threads \ {t} : thread'[u] = thread[u]
    PROVE  /\ Cardinality(Followers) \in Nat /\ Cardinality(Followers') \in Nat
           /\ (t \in Followers <=> t \in Followers') => Cardinality(Followers') = Cardinality(Followers)
           /\ t \in Followers /\ t \notin Followers' =>
                 Cardinality(Followers') = Cardinality(Followers) - 1
           /\ t \notin Followers /\ t \in Followers' =>
                 Cardinality(Followers') = Cardinality(Followers) + 1
<1>1. \A y : y # t => (y \in Followers' <=> y \in Followers)
  BY DEF Followers
<1>2. IsFiniteSet(Followers)
  BY ThreadSets DEF Followers
<1> HIDE DEF Followers
<1> QED
  BY <1>1, <1>2, CountOne

\* A caller's fetch begins, and a worker's.
LEMMA FetchIInv ==
    ASSUME IInv, NEW t \in Threads,
           \/ Refresh(t)
           \/ \E p \in Paths, force \in BOOLEAN : Fetch(t, p, force)
    PROVE  IInv'
<1>1. CASE Refresh(t) /\ closed
  <2>1. Return(t) /\ thread[t].step = "admitted"
        /\ UNCHANGED <<cache, coalescing, refreshing, pausing, closed>>
    BY <1>1 DEF Refresh, At
  <2>2. /\ ThreadsOK' /\ \A u \in Threads \ {t} : thread'[u] = thread[u]
        /\ thread'[t].step \in {"idle", "finishing"} /\ ~thread'[t].outdated
        /\ t \in Workers => /\ thread'[t].path = thread[t].path
                            /\ thread'[t].admitted = thread[t].admitted
    BY <2>1, ReturnStep
  <2>3. JobsOK' /\ PausesOK'
    BY <2>1, <2>2, FetchKeepsRest
  <2>4. FlightsOK'
    BY <2>1, <2>2, FlightsKept DEF IInv, At, Leading
  <2>5. EntryOK'
    BY <2>1, <2>2, EntryKept DEF IInv, EntryOK
  <2> QED
    BY <2>2, <2>3, <2>4, <2>5 DEF IInv
<1>2. ASSUME NEW x \in ThreadType, x.step = "joining", x.outdated = thread[t].outdated,
             x.admitted = thread[t].admitted, x.path \in Paths,
             thread[t].step \in {"idle", "admitted"},
             t \in Workers => x.path = thread[t].path,
             thread' = [thread EXCEPT ![t] = x],
             UNCHANGED <<cache, coalescing, refreshing, pausing, closed>>
      PROVE  IInv'
  <2>1. thread'[t] = x
    BY <1>2 DEF IInv, ThreadsOK
  <2>2. Placed(t)'
    <3>1. Placed(t) /\ None \notin Paths
      BY OthersAreNew DEF IInv, ThreadsOK
    <3> QED
      BY <1>2, <2>1, <3>1, ThreadsAreFinite DEF Placed, Fetching, Leading, Threads
  <2>3. /\ ThreadsOK' /\ \A u \in Threads \ {t} : thread'[u] = thread[u]
    BY <1>2, <2>2, OneThread DEF IInv
  <2>4. JobsOK' /\ PausesOK'
    BY <1>2, <2>1, <2>3, FetchKeepsRest
  <2>5. FlightsOK'
    BY <1>2, <2>1, <2>3, FlightsKept DEF IInv, At, Leading
  <2>6. EntryOK'
    BY <1>2, <2>1, <2>3, EntryKept DEF IInv, EntryOK
  <2> QED
    BY <2>3, <2>4, <2>5, <2>6 DEF IInv
<1>3. CASE Refresh(t) /\ ~closed
  <2>1. /\ thread[t].step = "admitted"
        /\ thread' = [thread EXCEPT ![t] = [thread[t] EXCEPT !.step = "joining", !.force = TRUE]]
        /\ UNCHANGED <<cache, coalescing, refreshing, pausing, closed>>
    BY <1>3 DEF Refresh, At, IInv, ThreadsOK
  <2>2. thread[t] \in ThreadType /\ thread[t].path \in Paths
    BY <2>1 DEF IInv, ThreadsOK, Placed, ThreadType
  <2> DEFINE x == [thread[t] EXCEPT !.step = "joining", !.force = TRUE]
  <2>3. /\ x \in ThreadType /\ x.step = "joining" /\ x.outdated = thread[t].outdated
        /\ x.admitted = thread[t].admitted /\ x.path = thread[t].path
    BY <2>2 DEF ThreadType, Steps
  <2> HIDE DEF x
  <2>4. thread' = [thread EXCEPT ![t] = x]
    BY <2>1 DEF x
  <2> QED
    BY <1>2, <2>1, <2>2, <2>3, <2>4
<1>4. ASSUME NEW p \in Paths, NEW force \in BOOLEAN, Fetch(t, p, force) PROVE IInv'
  <2>1. /\ thread[t].step = "idle" /\ t \in Callers
        /\ thread' = [thread EXCEPT ![t] = [thread[t] EXCEPT !.step = "joining", !.path = p,
                                                             !.force = force]]
        /\ UNCHANGED <<cache, coalescing, refreshing, pausing, closed>>
    BY <1>4 DEF Fetch, At, IInv, ThreadsOK
  <2>2. thread[t] \in ThreadType
    BY DEF IInv, ThreadsOK
  <2> DEFINE x == [thread[t] EXCEPT !.step = "joining", !.path = p, !.force = force]
  <2>3. /\ x \in ThreadType /\ x.step = "joining" /\ x.outdated = thread[t].outdated
        /\ x.admitted = thread[t].admitted /\ x.path = p
    BY <2>2 DEF ThreadType, Steps
  <2> HIDE DEF x
  <2>4. thread' = [thread EXCEPT ![t] = x]
    BY <2>1 DEF x
  <2>5. t \notin Workers
    BY <2>1, ThreadsAreFinite
  <2> QED
    BY <1>2, <2>1, <2>3, <2>4, <2>5
<1> QED
  BY <1>1, <1>3, <1>4
\* Joining: a thread leads, follows or is turned away.
LEMMA CoordinateIInv ==
    ASSUME IInv, NEW t \in Threads, Coordinate(t)
    PROVE  IInv'
<1> DEFINE p == thread[t].path
<1>0. /\ thread[t].step = "joining" /\ UNCHANGED <<cache, refreshing, pausing, closed>>
      /\ thread[t] \in ThreadType /\ p \in Paths /\ p # None /\ None \notin Threads
  BY OthersAreNew DEF Coordinate, At, IInv, ThreadsOK, Placed, ThreadType
<1>a. ~thread[t].outdated
  BY <1>0 DEF IInv, EntryOK
<1>1. ASSUME NEW x \in ThreadType, thread' = [thread EXCEPT ![t] = x],
             x.step \in {"leading", "waiting"}, x.path = p,
             x.admitted = thread[t].admitted, x.outdated = thread[t].outdated
      PROVE  /\ ThreadsOK' /\ JobsOK' /\ PausesOK' /\ EntryOK' /\ thread'[t] = x
             /\ \A u \in Threads \ {t} : thread'[u] = thread[u]
  <2>1. thread'[t] = x
    BY <1>1 DEF IInv, ThreadsOK
  <2>2. Placed(t)'
    <3>1. Placed(t)
      BY DEF IInv, ThreadsOK
    <3> QED
      BY <1>0, <1>1, <2>1, <3>1 DEF Placed, Fetching, Leading
  <2>3. ThreadsOK' /\ \A u \in Threads \ {t} : thread'[u] = thread[u]
    BY <1>1, <2>2, OneThread DEF IInv
  <2>4. JobsOK' /\ PausesOK'
    BY <1>0, <1>1, <2>1, <2>3, FetchKeepsRest
  <2>5. EntryOK'
    BY <1>0, <1>1, <1>a, <2>1, <2>3, EntryKept DEF IInv, EntryOK
  <2> QED
    BY <2>1, <2>3, <2>4, <2>5
<1>2. CASE /\ flight[p] = None /\ flight' = [flight EXCEPT ![p] = t]
           /\ Goto(t, "leading") /\ UNCHANGED followers
  <2> DEFINE x == [thread[t] EXCEPT !.step = "leading"]
  <2>1. /\ x \in ThreadType /\ x.step = "leading" /\ x.path = p
        /\ x.admitted = thread[t].admitted /\ x.outdated = thread[t].outdated
    BY <1>0 DEF ThreadType, Steps
  <2>2. thread' = [thread EXCEPT ![t] = x]
    BY <1>2 DEF Goto, IInv, ThreadsOK
  <2> HIDE DEF x, p
  <2>3. /\ ThreadsOK' /\ JobsOK' /\ PausesOK' /\ EntryOK' /\ thread'[t] = x
        /\ \A u \in Threads \ {t} : thread'[u] = thread[u]
    BY <1>1, <2>1, <2>2
  <2>4. FlightsOK'
    <3>0. /\ flight \in [Paths -> Threads \cup {None}]
          /\ \A q \in Paths, u \in Threads :
                flight[q] = u <=> thread[u].path = q /\ thread[u].step \in Leading
      BY DEF IInv, FlightsOK
    <3>1. /\ flight' \in [Paths -> Threads \cup {None}] /\ flight'[p] = t
          /\ \A q \in Paths \ {p} : flight'[q] = flight[q]
      BY <1>0, <1>2, <3>0
    <3>2. ASSUME NEW q \in Paths, NEW u \in Threads
          PROVE  flight'[q] = u <=> thread'[u].path = q /\ thread'[u].step \in Leading
      <4>1. CASE u = t
        <5>1. thread[t].step \notin Leading /\ x.step \in Leading
          BY <1>0, <2>1 DEF Leading
        <5> QED
          BY <1>0, <2>1, <2>3, <3>0, <3>1, <4>1, <5>1
      <4>2. CASE u # t
        BY <1>0, <1>2, <2>3, <3>0, <3>1, <4>2
      <4> QED
        BY <4>1, <4>2
    <3>3. ASSUME NEW u \in Threads, At(u, "waiting")'
          PROVE  flight'[thread'[u].path] # None
      <4>1. u # t
        BY <2>1, <2>3, <3>3 DEF At
      <4>2. At(u, "waiting") /\ thread'[u] = thread[u] /\ thread[u].path \in Paths
        BY <2>3, <3>3, <4>1 DEF At, IInv, ThreadsOK, Placed, ThreadType
      <4>3. flight[thread[u].path] # None
        BY <4>2 DEF IInv, FlightsOK
      <4> QED
        BY <1>0, <3>1, <4>2, <4>3
    <3>4. Cardinality(Followers') = Cardinality(Followers)
      <4>1. t \notin Followers /\ t \notin Followers'
        BY <1>0, <2>1, <2>3 DEF Followers
      <4> QED
        BY <2>3, <4>1, FollowerMoves
    <3> QED
      BY <1>2, <3>1, <3>2, <3>3, <3>4 DEF IInv, FlightsOK
  <2> QED
    BY <2>3, <2>4 DEF IInv
<1>3. CASE /\ flight[p] # None /\ followers < GlobalMaxFollowers
           /\ followers' = followers + 1
           /\ thread' = [thread EXCEPT ![t].step = "waiting", ![t].force = FALSE]
           /\ UNCHANGED flight
  <2> DEFINE x == [thread[t] EXCEPT !.step = "waiting", !.force = FALSE]
  <2>1. /\ x \in ThreadType /\ x.step = "waiting" /\ x.path = p
        /\ x.admitted = thread[t].admitted /\ x.outdated = thread[t].outdated
    BY <1>0 DEF ThreadType, Steps
  <2>2. thread' = [thread EXCEPT ![t] = x]
    BY <1>3 DEF IInv, ThreadsOK
  <2> HIDE DEF x, p
  <2>3. /\ ThreadsOK' /\ JobsOK' /\ PausesOK' /\ EntryOK' /\ thread'[t] = x
        /\ \A u \in Threads \ {t} : thread'[u] = thread[u]
    BY <1>1, <2>1, <2>2
  <2>4. FlightsOK'
    <3>1. \A q \in Paths, u \in Threads :
             flight'[q] = u <=> thread'[u].path = q /\ thread'[u].step \in Leading
      <4>1. thread[t].step \notin Leading /\ thread'[t].step \notin Leading
        BY <1>0, <2>1, <2>3 DEF Leading
      <4>2. flight' = flight
        BY <1>3
      <4> QED
        BY <2>3, <4>1, <4>2 DEF IInv, FlightsOK
    <3>2. \A u \in Threads : At(u, "waiting")' => flight'[thread'[u].path] # None
      BY <1>3, <2>1, <2>3 DEF IInv, FlightsOK, At
    <3>3. t \notin Followers /\ t \in Followers'
      BY <1>0, <2>1, <2>3 DEF Followers
    <3>4. Cardinality(Followers') = Cardinality(Followers) + 1
      BY <2>3, <3>3, FollowerMoves
    <3>5. followers' = Cardinality(Followers') /\ followers' \in 0..GlobalMaxFollowers
      BY <1>3, <3>4, LimitsAreNatural DEF IInv, FlightsOK
    <3> QED
      BY <1>3, <3>1, <3>2, <3>5 DEF IInv, FlightsOK
  <2> QED
    BY <2>3, <2>4 DEF IInv
<1>4. CASE Return(t) /\ UNCHANGED coalescing
  <2>1. /\ ThreadsOK' /\ \A u \in Threads \ {t} : thread'[u] = thread[u]
        /\ thread'[t].step \in {"idle", "finishing"} /\ ~thread'[t].outdated
        /\ t \in Workers => /\ thread'[t].path = thread[t].path
                            /\ thread'[t].admitted = thread[t].admitted
    BY <1>0, <1>4, ReturnStep DEF Fetching, Leading
  <2>2. JobsOK' /\ PausesOK'
    BY <1>0, <2>1, FetchKeepsRest
  <2>3. FlightsOK'
    BY <1>0, <1>4, <2>1, FlightsKept DEF IInv, At, Leading
  <2>4. EntryOK'
    BY <1>0, <2>1, EntryKept DEF IInv, EntryOK
  <2> QED
    BY <2>1, <2>2, <2>3, <2>4 DEF IInv
<1> QED
  BY <1>2, <1>3, <1>4 DEF Coordinate

\* A leader goes on leading.
LEMMA LeaderGoesOn ==
    ASSUME IInv, NEW t \in Threads, thread[t].step \in Leading, NEW x \in ThreadType,
           thread' = [thread EXCEPT ![t] = x],
           x.step \in Leading, x.path = thread[t].path, x.admitted = thread[t].admitted,
           x.step = "storing" => x.result \in {"value", "negative"},
           UNCHANGED <<coalescing, refreshing, pausing, closed>>
    PROVE  /\ ThreadsOK' /\ FlightsOK' /\ JobsOK' /\ PausesOK' /\ thread'[t] = x
           /\ \A u \in Threads \ {t} : thread'[u] = thread[u]
<1>1. thread'[t] = x
  BY DEF IInv, ThreadsOK
<1>2. Placed(t)'
  <2>1. Placed(t)
    BY DEF IInv, ThreadsOK
  <2> QED
    BY <1>1, <2>1 DEF Placed, Fetching, Leading
<1>3. ThreadsOK' /\ \A u \in Threads \ {t} : thread'[u] = thread[u]
  BY <1>2, OneThread DEF IInv
<1>4. JobsOK' /\ PausesOK'
  BY <1>1, <1>3, FetchKeepsRest
<1>5. FlightsOK'
  BY <1>1, <1>3, FlightsKept DEF IInv, At, Leading
<1> QED
  BY <1>1, <1>3, <1>4, <1>5

\* A flight's result is set: its leader is about to close it.
LEMMA ConcludeStep ==
    ASSUME IInv, NEW t \in Threads, thread[t].step \in Leading, Conclude(t),
           UNCHANGED <<coalescing, refreshing, pausing, closed>>
    PROVE  /\ ThreadsOK' /\ FlightsOK' /\ JobsOK' /\ PausesOK'
           /\ \A u \in Threads \ {t} : thread'[u] = thread[u]
           /\ thread'[t].step = "closing" /\ ~thread'[t].outdated
<1> DEFINE x == [Resting("closing") EXCEPT !.path = thread[t].path,
                                           !.admitted = thread[t].admitted]
<1>1. thread[t].path \in Paths \cup {None} /\ thread[t].admitted \in BOOLEAN
  BY DEF IInv, ThreadsOK, ThreadType
<1>2. /\ x \in ThreadType /\ x.step = "closing" /\ x.path = thread[t].path
      /\ x.admitted = thread[t].admitted /\ ~x.outdated
  BY <1>1 DEF Resting, ThreadType, Steps
<1>3. thread' = [thread EXCEPT ![t] = x]
  BY DEF Conclude
<1> HIDE DEF x
<1> QED
  BY <1>2, <1>3, LeaderGoesOn DEF Leading

\* The leader's fetch, from the second look to the put.
LEMMA LeaderIInv ==
    ASSUME IInv, NEW t \in Threads,
           \/ Lead(t) \/ GuardLoses(t) \/ FallBack(t) \/ Store(t)
           \/ \E outcome \in Outcomes : Requested(t, outcome)
    PROVE  IInv'
<1>0. thread[t] \in ThreadType /\ None \notin Threads /\ Other \notin Threads
  BY OthersAreNew DEF IInv, ThreadsOK
<1>1. ASSUME thread[t].step \in Leading, Conclude(t), entry' = entry,
             lease' = lease \/ lease' = Unleased(t),
             UNCHANGED <<coalescing, refreshing, pausing, closed>>
      PROVE  IInv'
  <2>1. /\ ThreadsOK' /\ FlightsOK' /\ JobsOK' /\ PausesOK'
        /\ \A u \in Threads \ {t} : thread'[u] = thread[u]
        /\ thread'[t].step = "closing" /\ ~thread'[t].outdated
    BY <1>1, ConcludeStep
  <2>2. EntryOK'
    BY <1>0, <1>1, <2>1 DEF IInv, EntryOK, Unleased
  <2> QED
    BY <2>1, <2>2 DEF IInv
<1>2. ASSUME NEW x \in ThreadType, thread[t].step \in Leading,
             thread' = [thread EXCEPT ![t] = x], x.step \in Leading,
             x.path = thread[t].path, x.admitted = thread[t].admitted,
             x.step = "storing" => x.result \in {"value", "negative"},
             x.outdated => thread[t].outdated /\ x.step \in {"requesting", "storing"},
             UNCHANGED <<cache, coalescing, refreshing, pausing, closed>>
      PROVE  IInv'
  <2>1. /\ ThreadsOK' /\ FlightsOK' /\ JobsOK' /\ PausesOK' /\ thread'[t] = x
        /\ \A u \in Threads \ {t} : thread'[u] = thread[u]
    BY <1>2, LeaderGoesOn
  <2>2. EntryOK'
    BY <1>2, <2>1, EntryKept DEF IInv, EntryOK
  <2> QED
    BY <2>1, <2>2 DEF IInv
<1>3. CASE Lead(t)
  <2>1. CASE Conclude(t) /\ UNCHANGED lease
    BY <1>1, <1>3, <2>1 DEF Lead, At, Leading
  <2>2. CASE /\ lease' = t /\ lease = None
             /\ thread' = [thread EXCEPT ![t].step = "requesting", ![t].force = FALSE]
    <3> DEFINE x == [thread[t] EXCEPT !.step = "requesting", !.force = FALSE]
    <3>1. /\ x \in ThreadType /\ x.step = "requesting" /\ x.path = thread[t].path
          /\ x.admitted = thread[t].admitted /\ x.outdated = thread[t].outdated
      BY <1>0 DEF ThreadType, Steps
    <3>2. thread' = [thread EXCEPT ![t] = x]
      BY <2>2 DEF IInv, ThreadsOK
    <3> HIDE DEF x
    <3>3. /\ thread[t].step = "leading" /\ ~thread[t].outdated /\ UNCHANGED entry
          /\ UNCHANGED <<coalescing, refreshing, pausing, closed>>
      BY <1>3 DEF Lead, At, IInv, EntryOK
    <3>4. /\ ThreadsOK' /\ FlightsOK' /\ JobsOK' /\ PausesOK' /\ thread'[t] = x
          /\ \A u \in Threads \ {t} : thread'[u] = thread[u]
      BY <3>1, <3>2, <3>3, LeaderGoesOn DEF Leading
    <3>5. EntryOK'
      BY <2>2, <3>1, <3>3, <3>4 DEF IInv, EntryOK
    <3> QED
      BY <3>4, <3>5 DEF IInv
  <2> QED
    BY <1>3, <2>1, <2>2 DEF Lead
<1>4. CASE GuardLoses(t)
  <2> DEFINE x == [thread[t] EXCEPT !.lost = TRUE]
  <2>1. /\ x \in ThreadType /\ x.step = thread[t].step /\ x.path = thread[t].path
        /\ x.admitted = thread[t].admitted /\ x.outdated = thread[t].outdated
    BY <1>0 DEF ThreadType
  <2>2. /\ thread' = [thread EXCEPT ![t] = x] /\ thread[t].step = "requesting"
        /\ UNCHANGED <<cache, coalescing, refreshing, pausing, closed>>
    BY <1>4 DEF GuardLoses, IInv, ThreadsOK, At
  <2> HIDE DEF x
  <2> QED
    BY <1>2, <2>1, <2>2 DEF Leading
<1>5. CASE FallBack(t)
  BY <1>1, <1>5 DEF FallBack, At, Leading
<1>6. CASE Store(t)
  <2>1. CASE lease' = Unleased(t) /\ Conclude(t) /\ UNCHANGED entry
    BY <1>1, <1>6, <2>1 DEF Store, At, Leading
  <2>2. CASE /\ lease = t
             /\ entry' = [age |-> "fresh", path |-> thread[t].path,
                          kind |-> thread[t].result, outdated |-> thread[t].outdated]
             /\ lease' = None /\ Conclude(t)
    <3>1. /\ thread[t].step = "storing" /\ UNCHANGED <<coalescing, refreshing, pausing, closed>>
      BY <1>6 DEF Store, At
    <3>2. /\ ThreadsOK' /\ FlightsOK' /\ JobsOK' /\ PausesOK'
          /\ \A u \in Threads \ {t} : thread'[u] = thread[u]
          /\ thread'[t].step = "closing" /\ ~thread'[t].outdated
      BY <2>2, <3>1, ConcludeStep DEF Leading
    <3>3. /\ thread[t].path \in Paths \cup {None} /\ thread[t].result \in {"value", "negative"}
          /\ thread[t].outdated = FALSE
      BY <1>0, <2>2, <3>1 DEF IInv, ThreadsOK, Placed, ThreadType, EntryOK
    <3>4. EntryOK'
      BY <1>0, <2>2, <3>2, <3>3 DEF IInv, EntryOK
    <3> QED
      BY <3>2, <3>4 DEF IInv
  <2> QED
    BY <1>6, <2>1, <2>2 DEF Store
<1>7. ASSUME NEW outcome \in Outcomes, Requested(t, outcome) PROVE IInv'
  <2>0. thread[t].step = "requesting"
        /\ UNCHANGED <<entry, coalescing, refreshing, pausing, closed>>
    BY <1>7 DEF Requested, At
  <2>1. CASE Conclude(t) /\ lease' = Unleased(t)
    BY <1>1, <2>0, <2>1 DEF Leading
  <2>2. CASE /\ outcome \in {"value", "negative"} /\ UNCHANGED lease
             /\ thread' = [thread EXCEPT ![t].step = "storing", ![t].result = outcome]
    <3> DEFINE x == [thread[t] EXCEPT !.step = "storing", !.result = outcome]
    <3>1. /\ x \in ThreadType /\ x.step = "storing" /\ x.path = thread[t].path
          /\ x.result = outcome
          /\ x.admitted = thread[t].admitted /\ x.outdated = thread[t].outdated
      BY <1>0 DEF ThreadType, Steps
    <3>2. thread' = [thread EXCEPT ![t] = x]
      BY <2>2 DEF IInv, ThreadsOK
    <3> HIDE DEF x
    <3> QED
      BY <1>2, <2>0, <2>2, <3>1, <3>2 DEF Leading, cache
  <2>3. CASE /\ UNCHANGED lease
             /\ thread' = [thread EXCEPT ![t].step = "failing", ![t].lost = FALSE,
                                         ![t].outdated = FALSE]
    <3> DEFINE x == [thread[t] EXCEPT !.step = "failing", !.lost = FALSE, !.outdated = FALSE]
    <3>1. /\ x \in ThreadType /\ x.step = "failing" /\ x.path = thread[t].path
          /\ x.admitted = thread[t].admitted /\ x.outdated = FALSE
      BY <1>0 DEF ThreadType, Steps
    <3>2. thread' = [thread EXCEPT ![t] = x]
      BY <2>3 DEF IInv, ThreadsOK
    <3> HIDE DEF x
    <3> QED
      BY <1>2, <2>0, <2>3, <3>1, <3>2 DEF Leading, cache
  <2> QED
    BY <1>7, <2>1, <2>2, <2>3 DEF Requested
<1> QED
  BY <1>3, <1>4, <1>5, <1>6, <1>7
\* The leader pops its flight and wakes the followers.
LEMMA CloseIInv ==
    ASSUME IInv, NEW t \in Threads, Close(t)
    PROVE  IInv'
<1> DEFINE p == thread[t].path
           x == [thread[t] EXCEPT !.step = "answering"]
<1>0. /\ thread[t].step = "closing" /\ UNCHANGED <<cache, followers, refreshing, pausing, closed>>
      /\ flight' = [flight EXCEPT ![p] = None]
      /\ thread \in [Threads -> ThreadType] /\ p \in Paths /\ None \notin Threads
      /\ \A u \in Threads : Placed(u)
  BY OthersAreNew DEF Close, At, IInv, ThreadsOK, Placed, ThreadType
<1>1. /\ thread' = [u \in Threads |-> thread'[u]]
      /\ \A u \in Threads :
           thread'[u] = IF u = t THEN x
                        ELSE IF thread[u].step = "waiting" /\ thread[u].path = p
                          THEN [thread[u] EXCEPT !.step = "woken"] ELSE thread[u]
  BY DEF Close, Following, At
<1> HIDE DEF p
<1>2. ASSUME NEW u \in Threads
      PROVE  /\ thread'[u] \in ThreadType /\ thread'[u].path = thread[u].path
             /\ thread'[u].admitted = thread[u].admitted /\ thread'[u].outdated = thread[u].outdated
             /\ u = t => thread'[u].step = "answering"
             /\ u # t /\ thread[u].step = "waiting" /\ thread[u].path = p
                   => thread'[u].step = "woken"
             /\ u # t /\ ~(thread[u].step = "waiting" /\ thread[u].path = p)
                   => thread'[u] = thread[u]
  <2>1. thread[u] \in ThreadType
    BY <1>0
  <2> QED
    BY <1>0, <1>1, <2>1 DEF ThreadType, Steps
<1>3. ThreadsOK'
  <2>1. thread' \in [Threads -> ThreadType]
    BY <1>1, <1>2
  <2>2. ASSUME NEW u \in Threads PROVE Placed(u)'
    <3>1. CASE u = t
      BY <1>0, <1>2, <3>1 DEF Placed, Fetching, Leading
    <3>2. CASE u # t /\ thread[u].step = "waiting" /\ thread[u].path = p
      BY <1>0, <1>2, <3>2 DEF Placed, Fetching, Leading
    <3>3. CASE u # t /\ ~(thread[u].step = "waiting" /\ thread[u].path = p)
      BY <1>0, <1>2, <3>3 DEF Placed
    <3> QED
      BY <3>1, <3>2, <3>3
  <2> QED
    BY <2>1, <2>2 DEF ThreadsOK
<1>4. JobsOK' /\ PausesOK'
  BY <1>0, <1>2, JobsKept, PausesKept DEF IInv, Threads
<1>5. EntryOK'
  <2>1. \A u \in Threads : thread'[u].outdated =>
            thread[u].outdated /\ thread'[u].step \in {"requesting", "storing"}
    BY <1>0, <1>2 DEF IInv, EntryOK
  <2> QED
    BY <1>0, <2>1, EntryKept DEF IInv
<1>6. FlightsOK'
  <2>0. /\ flight \in [Paths -> Threads \cup {None}]
        /\ \A q \in Paths, u \in Threads :
              flight[q] = u <=> thread[u].path = q /\ thread[u].step \in Leading
        /\ \A u \in Threads : At(u, "waiting") => flight[thread[u].path] # None
    BY DEF IInv, FlightsOK
  <2>1. /\ flight' \in [Paths -> Threads \cup {None}] /\ flight'[p] = None
        /\ \A q \in Paths \ {p} : flight'[q] = flight[q]
    BY <1>0, <2>0
  <2>2. thread[t].step \in Leading /\ thread[t].path = p /\ flight[p] = t
    BY <1>0, <2>0 DEF Leading, p
  <2>3. ASSUME NEW q \in Paths, NEW u \in Threads
        PROVE  flight'[q] = u <=> thread'[u].path = q /\ thread'[u].step \in Leading
    <3>1. CASE u = t
      BY <1>0, <1>2, <2>0, <2>1, <2>2, <3>1 DEF Leading
    <3>2. CASE u # t
      <4>1. thread'[u].step \in Leading <=> thread[u].step \in Leading
        BY <1>2, <3>2 DEF Leading
      <4> QED
        BY <1>0, <1>2, <2>0, <2>1, <2>2, <3>2, <4>1
    <3> QED
      BY <3>1, <3>2
  <2>4. ASSUME NEW u \in Threads, At(u, "waiting")'
        PROVE  flight'[thread'[u].path] # None
    <3>1. u # t /\ thread'[u] = thread[u] /\ thread[u].path # p
      BY <1>2, <2>4 DEF At
    <3>2. At(u, "waiting") /\ thread[u].path \in Paths
      BY <1>0, <2>4, <3>1 DEF At, Placed, ThreadType
    <3> QED
      BY <2>0, <2>1, <3>1, <3>2
  <2>5. Followers' = Followers
    BY <1>0, <1>2 DEF Followers
  <2> QED
    BY <1>0, <2>1, <2>3, <2>4, <2>5 DEF IInv, FlightsOK
<1> QED
  BY <1>3, <1>4, <1>5, <1>6 DEF IInv

\* Leaders and followers return; a follower is uncounted, also at its deadline.
LEMMA AnswerIInv ==
    ASSUME IInv, NEW t \in Threads, Answer(t) \/ GiveUp(t)
    PROVE  IInv'
<1>0. /\ thread[t].step \in {"answering", "woken", "waiting"}
      /\ UNCHANGED <<cache, flight, refreshing, pausing, closed>> /\ Return(t)
      /\ followers' = IF thread[t].step = "answering" THEN followers ELSE followers - 1
  BY DEF Answer, GiveUp, At
<1>1. /\ ThreadsOK' /\ \A u \in Threads \ {t} : thread'[u] = thread[u]
      /\ thread'[t].step \in {"idle", "finishing"} /\ ~thread'[t].outdated
      /\ t \in Workers => /\ thread'[t].path = thread[t].path
                          /\ thread'[t].admitted = thread[t].admitted
  BY <1>0, ReturnStep DEF Fetching, Leading
<1>2. JobsOK' /\ PausesOK'
  BY <1>0, <1>1, FetchKeepsRest
<1>3. EntryOK'
  BY <1>0, <1>1, EntryKept DEF IInv, EntryOK
<1>4. FlightsOK'
  <2>1. \A q \in Paths, u \in Threads :
           flight'[q] = u <=> thread'[u].path = q /\ thread'[u].step \in Leading
    <3>1. thread[t].step \notin Leading /\ thread'[t].step \notin Leading
      BY <1>0, <1>1 DEF Leading
    <3> QED
      BY <1>0, <1>1, <3>1 DEF IInv, FlightsOK
  <2>2. \A u \in Threads : At(u, "waiting")' => flight'[thread'[u].path] # None
    BY <1>0, <1>1 DEF IInv, FlightsOK, At
  <2>3. t \notin Followers' /\ (t \in Followers <=> thread[t].step # "answering")
    BY <1>0, <1>1 DEF Followers
  <2>4. followers' = Cardinality(Followers') /\ followers' \in Nat /\ followers' <= followers
    BY <1>0, <1>1, <2>3, FollowerMoves DEF IInv, FlightsOK
  <2>5. followers' \in 0..GlobalMaxFollowers
    BY <2>4, LimitsAreNatural DEF IInv, FlightsOK
  <2> QED
    BY <1>0, <2>1, <2>2, <2>4, <2>5 DEF IInv, FlightsOK
<1> QED
  BY <1>1, <1>2, <1>3, <1>4 DEF IInv

----------------------------------------------------------------------------
(* Background refreshes *)

\* A worker outside a fetch moves: the flights and the entry stay as they are.
LEMMA WorkerMoves ==
    ASSUME IInv, NEW w \in Workers, NEW x \in ThreadType,
           thread[w].step \in {"polling", "gate", "finishing"},
           x.step \in {"polling", "gate", "admitted", "finishing", "exited"}, ~x.outdated,
           x.path = None <=> x.step \in {"polling", "exited"},
           x.step = "admitted" => x.admitted,
           x.step \in {"polling", "gate", "exited"} => ~x.admitted,
           thread' = [thread EXCEPT ![w] = x], UNCHANGED <<cache, coalescing>>
    PROVE  /\ ThreadsOK' /\ FlightsOK' /\ EntryOK' /\ thread'[w] = x
           /\ \A u \in Threads \ {w} : thread'[u] = thread[u]
<1>0. w \in Threads /\ w \notin Callers
  BY ThreadsAreFinite DEF Threads
<1>1. thread'[w] = x
  BY <1>0 DEF IInv, ThreadsOK
<1>2. Placed(w)'
  BY <1>0, <1>1 DEF Placed, Fetching, Leading
<1>3. ThreadsOK' /\ \A u \in Threads \ {w} : thread'[u] = thread[u]
  BY <1>0, <1>2, OneThread DEF IInv
<1>4. FlightsOK'
  BY <1>1, <1>3, FlightsKept DEF IInv, At, Leading
<1>5. EntryOK'
  BY <1>1, <1>3, EntryKept DEF IInv, EntryOK
<1> QED
  BY <1>1, <1>3, <1>4, <1>5

\* How a worker's step changes the number of workers with a path, and of those
\* that are active.
LEMMA WorkerCounts ==
    ASSUME NEW w \in Workers, \A u \in Workers \ {w} : thread'[u] = thread[u]
    PROVE  /\ \A p : /\ Cardinality(JobHolders(p)) \in Nat /\ Cardinality(JobHolders(p)') \in Nat
                     /\ (w \in JobHolders(p) <=> w \in JobHolders(p)') =>
                           Cardinality(JobHolders(p)') = Cardinality(JobHolders(p))
                     /\ w \in JobHolders(p) /\ w \notin JobHolders(p)' =>
                           Cardinality(JobHolders(p)') = Cardinality(JobHolders(p)) - 1
                     /\ w \notin JobHolders(p) /\ w \in JobHolders(p)' =>
                           Cardinality(JobHolders(p)') = Cardinality(JobHolders(p)) + 1
           /\ Cardinality(ActiveWorkers) \in Nat /\ Cardinality(ActiveWorkers') \in Nat
           /\ (w \in ActiveWorkers <=> w \in ActiveWorkers') =>
                 Cardinality(ActiveWorkers') = Cardinality(ActiveWorkers)
           /\ w \in ActiveWorkers /\ w \notin ActiveWorkers' =>
                 Cardinality(ActiveWorkers') = Cardinality(ActiveWorkers) - 1
           /\ w \notin ActiveWorkers /\ w \in ActiveWorkers' =>
                 Cardinality(ActiveWorkers') = Cardinality(ActiveWorkers) + 1
<1>1. ASSUME NEW p
      PROVE  /\ IsFiniteSet(JobHolders(p))
             /\ \A y : y # w => (y \in JobHolders(p)' <=> y \in JobHolders(p))
  BY ThreadSets DEF JobHolders, Threads
<1>2. /\ IsFiniteSet(ActiveWorkers)
      /\ \A y : y # w => (y \in ActiveWorkers' <=> y \in ActiveWorkers)
  BY ThreadSets DEF ActiveWorkers, Threads
<1> HIDE DEF JobHolders, ActiveWorkers
<1>3. ASSUME NEW p
      PROVE  /\ Cardinality(JobHolders(p)) \in Nat /\ Cardinality(JobHolders(p)') \in Nat
             /\ (w \in JobHolders(p) <=> w \in JobHolders(p)') =>
                   Cardinality(JobHolders(p)') = Cardinality(JobHolders(p))
             /\ w \in JobHolders(p) /\ w \notin JobHolders(p)' =>
                   Cardinality(JobHolders(p)') = Cardinality(JobHolders(p)) - 1
             /\ w \notin JobHolders(p) /\ w \in JobHolders(p)' =>
                   Cardinality(JobHolders(p)') = Cardinality(JobHolders(p)) + 1
  BY <1>1, CountOne
<1>4. /\ Cardinality(ActiveWorkers) \in Nat /\ Cardinality(ActiveWorkers') \in Nat
      /\ (w \in ActiveWorkers <=> w \in ActiveWorkers') =>
            Cardinality(ActiveWorkers') = Cardinality(ActiveWorkers)
      /\ w \in ActiveWorkers /\ w \notin ActiveWorkers' =>
            Cardinality(ActiveWorkers') = Cardinality(ActiveWorkers) - 1
      /\ w \notin ActiveWorkers /\ w \in ActiveWorkers' =>
            Cardinality(ActiveWorkers') = Cardinality(ActiveWorkers) + 1
  BY <1>2, CountOne
<1> QED
  BY <1>3, <1>4
\* A worker takes a job, waits at the gate, finishes or exits.
LEMMA WorkerIInv ==
    ASSUME IInv, NEW w \in Workers,
           \/ Exit(w) \/ Gate(w) \/ Finish(w)
           \/ \E p \in Paths : Take(w, p)
    PROVE  IInv'
<1>0. /\ w \in Threads /\ w \notin Callers /\ thread[w] \in ThreadType /\ None \notin Paths
      /\ Placed(w) /\ thread[w].admitted \in BOOLEAN
      /\ thread[w].step \notin {"requesting", "storing"} => ~thread[w].outdated
  BY ThreadsAreFinite, OthersAreNew DEF IInv, ThreadsOK, ThreadType, EntryOK, Threads
<1>1. CASE Exit(w)
  <2> DEFINE x == [thread[w] EXCEPT !.step = "exited"]
  <2>0. /\ thread[w].step = "polling" /\ closed
        /\ sentinels' = IF sentinels > 0 THEN sentinels - 1 ELSE sentinels
        /\ thread' = [thread EXCEPT ![w] = x]
        /\ UNCHANGED <<cache, coalescing, queue, scheduled, pausing, closed>>
    BY <1>0, <1>1 DEF Exit, At, Goto, IInv, ThreadsOK
  <2>1. /\ x \in ThreadType /\ x.step = "exited" /\ x.path = thread[w].path
        /\ x.admitted = thread[w].admitted /\ x.outdated = thread[w].outdated
    BY <1>0 DEF ThreadType, Steps
  <2> HIDE DEF x
  <2>2. /\ ThreadsOK' /\ FlightsOK' /\ EntryOK' /\ thread'[w] = x
        /\ \A u \in Threads \ {w} : thread'[u] = thread[u]
    BY <1>0, <2>0, <2>1, WorkerMoves DEF Placed
  <2>3. \A u \in Workers : /\ thread'[u].path = thread[u].path
                           /\ thread'[u].admitted = thread[u].admitted
    BY <2>1, <2>2 DEF Threads
  <2>4. PausesOK'
    BY <2>0, <2>3, PausesKept DEF IInv
  <2>5. JobsOK'
    <3>1. \A p \in Paths : JobHolders(p)' = JobHolders(p)
      BY <2>3 DEF JobHolders
    <3>2. /\ sentinels \in 0..Cardinality(Workers) /\ Cardinality(Workers) \in Nat
          /\ Cardinality(queue) \in Nat /\ Cardinality(queue) + sentinels <= RefreshQueueSize
      BY ThreadSets, FS_CardinalityType DEF IInv, JobsOK, Threads
    <3>3. /\ sentinels' \in 0..Cardinality(Workers)
          /\ Cardinality(queue) + sentinels' <= RefreshQueueSize
      BY <2>0, <3>2, LimitsAreNatural
    <3> QED
      BY <2>0, <3>1, <3>3 DEF IInv, JobsOK
  <2> QED
    BY <2>2, <2>4, <2>5 DEF IInv
<1>2. CASE Gate(w) /\ closed
  <2> DEFINE x == [thread[w] EXCEPT !.step = "finishing"]
  <2>0. /\ thread[w].step = "gate" /\ thread' = [thread EXCEPT ![w] = x]
        /\ UNCHANGED <<cache, coalescing, refreshing, pausing, closed>>
    BY <1>0, <1>2 DEF Gate, At, Goto, IInv, ThreadsOK, pausing
  <2>1. /\ x \in ThreadType /\ x.step = "finishing" /\ x.path = thread[w].path
        /\ x.admitted = thread[w].admitted /\ x.outdated = thread[w].outdated
    BY <1>0 DEF ThreadType, Steps
  <2> HIDE DEF x
  <2>2. /\ ThreadsOK' /\ FlightsOK' /\ EntryOK' /\ thread'[w] = x
        /\ \A u \in Threads \ {w} : thread'[u] = thread[u]
    BY <1>0, <2>0, <2>1, WorkerMoves DEF Placed
  <2>3. JobsOK' /\ PausesOK'
    BY <1>0, <2>0, <2>1, <2>2, FetchKeepsRest
  <2> QED
    BY <2>2, <2>3 DEF IInv
<1>3. CASE Gate(w) /\ ~closed
  <2> DEFINE x == [thread[w] EXCEPT !.step = "admitted", !.admitted = TRUE]
  <2>0. /\ thread[w].step = "gate" /\ thread' = [thread EXCEPT ![w] = x]
        /\ ~paused /\ background' = background + 1
        /\ UNCHANGED <<cache, coalescing, refreshing, paused, pauser, closed>>
    BY <1>0, <1>3 DEF Gate, At, IInv, ThreadsOK
  <2>1. /\ x \in ThreadType /\ x.step = "admitted" /\ x.path = thread[w].path
        /\ x.admitted = TRUE /\ x.outdated = thread[w].outdated
    BY <1>0 DEF ThreadType, Steps
  <2> HIDE DEF x
  <2>2. /\ ThreadsOK' /\ FlightsOK' /\ EntryOK' /\ thread'[w] = x
        /\ \A u \in Threads \ {w} : thread'[u] = thread[u]
    BY <1>0, <2>0, <2>1, WorkerMoves DEF Placed
  <2>3. \A u \in Workers \ {w} : thread'[u] = thread[u]
    BY <2>2 DEF Threads
  <2>4. JobsOK'
    BY <2>0, <2>1, <2>2, <2>3, JobsKept DEF IInv
  <2>5. w \notin ActiveWorkers /\ w \in ActiveWorkers'
    BY <1>0, <2>0, <2>1, <2>2 DEF ActiveWorkers, Placed
  <2>6. PausesOK'
    <3>1. background' = Cardinality(ActiveWorkers')
      BY <2>0, <2>3, <2>5, WorkerCounts DEF IInv, PausesOK
    <3> QED
      BY <1>3, <2>0, <3>1 DEF IInv, PausesOK
  <2> QED
    BY <2>2, <2>4, <2>6 DEF IInv
<1>4. CASE Finish(w)
  <2> DEFINE x == Resting("polling")
             p == thread[w].path
  <2>0. /\ thread[w].step = "finishing" /\ thread' = [thread EXCEPT ![w] = x]
        /\ background' = IF thread[w].admitted THEN background - 1 ELSE background
        /\ scheduled' = scheduled \ {p}
        /\ UNCHANGED <<cache, coalescing, queue, sentinels, paused, pauser, closed>>
        /\ p \in Paths
    BY <1>0, <1>4 DEF Finish, At, Placed, ThreadType
  <2>1. /\ x \in ThreadType /\ x.step = "polling" /\ x.path = None
        /\ x.admitted = FALSE /\ x.outdated = FALSE
    BY RestingType DEF Steps
  <2> HIDE DEF x
  <2>2. /\ ThreadsOK' /\ FlightsOK' /\ EntryOK' /\ thread'[w] = x
        /\ \A u \in Threads \ {w} : thread'[u] = thread[u]
    BY <1>0, <2>0, <2>1, WorkerMoves
  <2>3. \A u \in Workers \ {w} : thread'[u] = thread[u]
    BY <2>2 DEF Threads
  <2>4. JobsOK'
    <3>1. ASSUME NEW q \in Paths
          PROVE  Cardinality(JobHolders(q)') + (IF q \in queue THEN 1 ELSE 0)
                    = (IF q \in scheduled' THEN 1 ELSE 0)
      <4>0. Cardinality(JobHolders(q)) + (IF q \in queue THEN 1 ELSE 0)
               = (IF q \in scheduled THEN 1 ELSE 0)
        BY DEF IInv, JobsOK
      <4>1. /\ w \in JobHolders(q) <=> q = p
            /\ w \notin JobHolders(q)'
        BY <1>0, <2>1, <2>2 DEF JobHolders
      <4>2. CASE q = p
        <5>1. /\ Cardinality(JobHolders(q)') = Cardinality(JobHolders(q)) - 1
              /\ Cardinality(JobHolders(q)) \in Nat /\ Cardinality(JobHolders(q)') \in Nat
          BY <2>3, <4>1, <4>2, WorkerCounts
        <5>2. q \notin scheduled'
          BY <2>0, <4>2
        <5> QED
          BY <4>0, <5>1, <5>2
      <4>3. CASE q # p
        <5>1. Cardinality(JobHolders(q)') = Cardinality(JobHolders(q))
          BY <2>3, <4>1, <4>3, WorkerCounts
        <5>2. q \in scheduled' <=> q \in scheduled
          BY <2>0, <4>3
        <5> QED
          BY <4>0, <5>1, <5>2
      <4> QED
        BY <4>2, <4>3
    <3> QED
      BY <2>0, <3>1 DEF IInv, JobsOK
  <2>5. w \in ActiveWorkers <=> thread[w].admitted
    BY DEF ActiveWorkers
  <2>6. w \notin ActiveWorkers'
    BY <2>1, <2>2 DEF ActiveWorkers
  <2>7. /\ background' = Cardinality(ActiveWorkers') /\ background' \in Nat /\ background \in Nat
        /\ background' <= background
    BY <2>0, <2>3, <2>5, <2>6, WorkerCounts DEF IInv, PausesOK
  <2>8. PausesOK'
    BY <2>0, <2>7 DEF IInv, PausesOK
  <2> QED
    BY <2>2, <2>4, <2>8 DEF IInv
<1>5. ASSUME NEW p \in Paths, Take(w, p) PROVE IInv'
  <2> DEFINE x == [thread[w] EXCEPT !.step = "gate", !.path = p]
  <2>0. /\ thread[w].step = "polling" /\ thread' = [thread EXCEPT ![w] = x]
        /\ p \in queue /\ queue' = queue \ {p} /\ sentinels = 0
        /\ UNCHANGED <<cache, coalescing, scheduled, sentinels, pausing, closed>>
    BY <1>0, <1>5 DEF Take, At, IInv, ThreadsOK
  <2>1. /\ x \in ThreadType /\ x.step = "gate" /\ x.path = p
        /\ x.admitted = thread[w].admitted /\ x.outdated = thread[w].outdated
    BY <1>0 DEF ThreadType, Steps
  <2> HIDE DEF x
  <2>2. /\ ThreadsOK' /\ FlightsOK' /\ EntryOK' /\ thread'[w] = x
        /\ \A u \in Threads \ {w} : thread'[u] = thread[u]
    BY <1>0, <2>0, <2>1, WorkerMoves DEF Placed
  <2>3. \A u \in Workers \ {w} : thread'[u] = thread[u]
    BY <2>2 DEF Threads
  <2>4. PausesOK'
    BY <2>0, <2>1, <2>2, <2>3, PausesKept DEF IInv
  <2>5. /\ IsFiniteSet(queue') /\ Cardinality(queue') + sentinels' <= RefreshQueueSize
    <3>1. /\ IsFiniteSet(queue) /\ Cardinality(queue) \in Nat
          /\ Cardinality(queue) + sentinels <= RefreshQueueSize
      BY FS_CardinalityType DEF IInv, JobsOK
    <3>2. IsFiniteSet(queue') /\ Cardinality(queue') = Cardinality(queue) - 1
      BY <2>0, <3>1, FS_RemoveElement
    <3> QED
      BY <2>0, <3>1, <3>2, LimitsAreNatural
  <2>6. ASSUME NEW q \in Paths
        PROVE  Cardinality(JobHolders(q)') + (IF q \in queue' THEN 1 ELSE 0)
                  = (IF q \in scheduled THEN 1 ELSE 0)
    <3>0. Cardinality(JobHolders(q)) + (IF q \in queue THEN 1 ELSE 0)
             = (IF q \in scheduled THEN 1 ELSE 0)
      BY DEF IInv, JobsOK
    <3>1. /\ w \notin JobHolders(q)
          /\ w \in JobHolders(q)' <=> q = p
      BY <1>0, <2>0, <2>1, <2>2 DEF JobHolders, Placed
    <3>2. CASE q = p
      <4>1. /\ Cardinality(JobHolders(q)') = Cardinality(JobHolders(q)) + 1
            /\ Cardinality(JobHolders(q)) \in Nat
        BY <2>3, <3>1, <3>2, WorkerCounts
      <4>2. q \in queue /\ q \notin queue'
        BY <2>0, <3>2
      <4> QED
        BY <3>0, <4>1, <4>2
    <3>3. CASE q # p
      <4>1. Cardinality(JobHolders(q)') = Cardinality(JobHolders(q))
        BY <2>3, <3>1, <3>3, WorkerCounts
      <4>2. q \in queue' <=> q \in queue
        BY <2>0, <3>3
      <4> QED
        BY <3>0, <4>1, <4>2
    <3> QED
      BY <3>2, <3>3
  <2>7. JobsOK'
    BY <2>0, <2>5, <2>6 DEF IInv, JobsOK
  <2> QED
    BY <2>2, <2>4, <2>7 DEF IInv
<1> QED
  BY <1>1, <1>2, <1>3, <1>4, <1>5

\* A fetch that is answered at once may leave a job behind.
LEMMA AnsweredIInv ==
    ASSUME IInv, NEW t, NEW p \in Paths, Answered(t, p)
    PROVE  IInv'
<1>0. /\ UNCHANGED <<cache, coalescing, thread, pausing, closed>>
      /\ UNCHANGED refreshing \/ Schedule(p)
  BY DEF Answered
<1>1. ThreadsOK' /\ FlightsOK' /\ PausesOK' /\ EntryOK'
  <2>1. ThreadsOK'
    BY <1>0 DEF IInv, ThreadsOK, Placed
  <2>2. FlightsOK'
    BY <1>0, FlightsKept DEF IInv, At
  <2>3. PausesOK'
    BY <1>0, PausesKept DEF IInv
  <2>4. EntryOK'
    BY <1>0, EntryKept DEF IInv, EntryOK
  <2> QED
    BY <2>1, <2>2, <2>3, <2>4
<1>2. \A q \in Paths : JobHolders(q)' = JobHolders(q)
  BY <1>0 DEF JobHolders
<1>3. CASE UNCHANGED refreshing
  BY <1>0, <1>1, <1>3, JobsKept DEF IInv
<1>4. CASE /\ p \notin scheduled /\ Cardinality(queue) + sentinels < RefreshQueueSize
           /\ queue' = queue \cup {p} /\ scheduled' = scheduled \cup {p}
           /\ UNCHANGED sentinels
  <2>1. /\ IsFiniteSet(queue) /\ Cardinality(queue) \in Nat /\ sentinels \in Int
    BY FS_CardinalityType DEF IInv, JobsOK
  <2>2. ASSUME NEW q \in Paths
        PROVE  Cardinality(JobHolders(q)') + (IF q \in queue' THEN 1 ELSE 0)
                  = (IF q \in scheduled' THEN 1 ELSE 0)
    <3>0. /\ Cardinality(JobHolders(q)) + (IF q \in queue THEN 1 ELSE 0)
                = (IF q \in scheduled THEN 1 ELSE 0)
          /\ Cardinality(JobHolders(q)) \in Nat
      BY ThreadSets DEF IInv, JobsOK, JobHolders, Threads
    <3>1. CASE q = p
      <4>1. q \notin scheduled /\ q \in queue' /\ q \in scheduled'
        BY <1>4, <3>1
      <4> QED
        BY <1>2, <3>0, <4>1
    <3>2. CASE q # p
      <4>1. (q \in queue' <=> q \in queue) /\ (q \in scheduled' <=> q \in scheduled)
        BY <1>4, <3>2
      <4> QED
        BY <1>2, <3>0, <4>1
    <3> QED
      BY <3>1, <3>2
  <2>3. IsFiniteSet(queue') /\ Cardinality(queue') \in {Cardinality(queue), Cardinality(queue) + 1}
    BY <1>4, <2>1, FS_AddElement
  <2>4. Cardinality(queue') + sentinels' <= RefreshQueueSize
    BY <1>4, <2>1, <2>3, LimitsAreNatural
  <2>5. JobsOK'
    BY <1>0, <1>4, <2>2, <2>3, <2>4 DEF IInv, JobsOK
  <2> QED
    BY <1>1, <2>5 DEF IInv
<1>5. Cardinality(queue) + sentinels \in Int
  BY FS_CardinalityType DEF IInv, JobsOK
<1> QED
  BY <1>0, <1>3, <1>4, <1>5, LimitsAreNatural DEF Schedule
\* What a step that moves no thread keeps.
LEMMA NobodyMoves ==
    ASSUME IInv, UNCHANGED <<thread, coalescing>>
    PROVE  /\ ThreadsOK' /\ FlightsOK'
           /\ UNCHANGED <<refreshing, closed>> => JobsOK'
           /\ UNCHANGED <<pausing, closed>> => PausesOK'
           /\ UNCHANGED cache => EntryOK'
<1>1. ThreadsOK'
  BY DEF IInv, ThreadsOK, Placed
<1>2. FlightsOK'
  BY FlightsKept DEF IInv, At
<1>3. UNCHANGED <<refreshing, closed>> => JobsOK'
  BY JobsKept DEF IInv
<1>4. UNCHANGED <<pausing, closed>> => PausesOK'
  BY PausesKept DEF IInv
<1>5. UNCHANGED cache => EntryOK'
  BY EntryKept DEF IInv, EntryOK
<1> QED
  BY <1>1, <1>2, <1>3, <1>4, <1>5

\* A pause, its end, and the shutdown.
LEMMA PauseIInv ==
    ASSUME IInv, Pause \/ Drained \/ Unpause \/ Shutdown
    PROVE  IInv'
<1>0. UNCHANGED <<cache, coalescing, thread, queue, scheduled, background>>
  BY DEF Pause, Drained, Unpause, Shutdown, refreshing
<1>1. ThreadsOK' /\ FlightsOK' /\ EntryOK'
  BY <1>0, NobodyMoves
<1>2. ActiveWorkers' = ActiveWorkers
  BY <1>0 DEF ActiveWorkers
<1>3. PausesOK'
  BY <1>0, <1>2 DEF IInv, PausesOK, Pause, Drained, Unpause, Shutdown
<1>4. JobsOK'
  <2>1. CASE Pause \/ Drained \/ Unpause
    BY <1>0, <2>1, NobodyMoves DEF Pause, Drained, Unpause
  <2>2. CASE Shutdown
    <3>1. \A p \in Paths : JobHolders(p)' = JobHolders(p)
      BY <1>0 DEF JobHolders
    <3>2. /\ Cardinality(Workers) \in Nat /\ Cardinality(queue) \in Nat
          /\ sentinels \in Nat /\ Cardinality(queue) + sentinels <= RefreshQueueSize
      BY ThreadSets, FS_CardinalityType DEF IInv, JobsOK, Threads
    <3>3. /\ closed' = TRUE
          /\ sentinels' = Lesser(Cardinality(Workers), RefreshQueueSize - Cardinality(queue))
      BY <2>2 DEF Shutdown
    <3>4. /\ sentinels' \in 0..Cardinality(Workers)
          /\ Cardinality(queue) + sentinels' <= RefreshQueueSize
      BY <3>2, <3>3, LimitsAreNatural DEF Lesser
    <3> QED
      BY <1>0, <3>1, <3>3, <3>4 DEF IInv, JobsOK
  <2> QED
    BY <2>1, <2>2
<1> QED
  BY <1>1, <1>3, <1>4 DEF IInv

\* Time passes, and others use the key.
LEMMA OthersIInv ==
    ASSUME IInv, Expire \/ LeaseExpires \/ LeaseTaken \/ Overwrite
    PROVE  IInv'
<1>0. None \notin Threads /\ Other \notin Threads
  BY OthersAreNew
<1>1. CASE LeaseExpires \/ LeaseTaken
  <2>1. /\ UNCHANGED <<entry, coalescing, thread, refreshing, pausing, closed>>
        /\ lease' \in {None, Other}
    BY <1>1 DEF LeaseExpires, LeaseTaken
  <2>2. EntryOK'
    BY <1>0, <2>1 DEF IInv, EntryOK
  <2> QED
    BY <2>1, <2>2, NobodyMoves DEF IInv
<1>2. CASE Expire
  <2>1. /\ UNCHANGED <<lease, coalescing, thread, refreshing, pausing, closed>>
        /\ \/ entry' = Miss
           \/ entry' = [entry EXCEPT !.age = IF entry.age = "fresh" THEN "swr" ELSE "sie"]
    BY <1>2 DEF Expire
  <2>2. /\ entry' \in [age : {"fresh", "swr", "sie", "miss"}, path : Paths \cup {None},
                       kind : {"value", "negative"}, outdated : BOOLEAN]
        /\ ~entry'.outdated
    <3>1. CASE entry' = Miss
      BY <3>1 DEF Miss
    <3>2. CASE entry' = [entry EXCEPT !.age = IF entry.age = "fresh" THEN "swr" ELSE "sie"]
      <4>1. PICK age \in {"swr", "sie"} : entry' = [entry EXCEPT !.age = age]
        BY <3>2
      <4> QED
        BY <4>1 DEF IInv, EntryOK
    <3> QED
      BY <2>1, <3>1, <3>2
  <2>3. EntryOK'
    BY <2>1, <2>2 DEF IInv, EntryOK
  <2> QED
    BY <2>1, <2>3, NobodyMoves DEF IInv
<1>3. CASE Overwrite
  <2>0. /\ entry' = Miss /\ lease' = None /\ UNCHANGED <<coalescing, refreshing, pausing, closed>>
        /\ thread' = [t \in Threads |->
              IF thread[t].step \in {"requesting", "storing"}
                THEN [thread[t] EXCEPT !.outdated = TRUE] ELSE thread[t]]
    BY <1>3 DEF Overwrite
  <2>1. ASSUME NEW u \in Threads
        PROVE  /\ thread'[u] \in ThreadType /\ thread'[u].step = thread[u].step
               /\ thread'[u].path = thread[u].path /\ thread'[u].admitted = thread[u].admitted
               /\ thread'[u].result = thread[u].result
               /\ thread'[u].outdated => thread[u].step \in {"requesting", "storing"}
    <3>1. thread[u] \in ThreadType
      BY DEF IInv, ThreadsOK
    <3>2. thread[u].outdated => thread[u].step \in {"requesting", "storing"}
      BY DEF IInv, EntryOK
    <3> QED
      BY <2>0, <3>1, <3>2 DEF ThreadType
  <2>2. ThreadsOK'
    <3>1. thread' \in [Threads -> ThreadType]
      BY <2>0, <2>1
    <3>2. \A u \in Threads : Placed(u)'
      BY <2>1 DEF IInv, ThreadsOK, Placed
    <3> QED
      BY <3>1, <3>2 DEF ThreadsOK
  <2>3. FlightsOK'
    BY <2>0, <2>1, FlightsKept DEF IInv, At
  <2>4. JobsOK' /\ PausesOK'
    BY <2>0, <2>1, JobsKept, PausesKept DEF IInv, Threads
  <2>5. EntryOK'
    BY <1>0, <2>0, <2>1 DEF EntryOK, Miss
  <2> QED
    BY <2>2, <2>3, <2>4, <2>5 DEF IInv
<1> QED
  BY <1>1, <1>2, <1>3

\* Every step keeps the invariant.
LEMMA NextIInv == IInv /\ [Next]_vars => IInv'
<1> SUFFICES ASSUME IInv, [Next]_vars PROVE IInv'
  OBVIOUS
<1>1. CASE UNCHANGED vars
  BY <1>1, NobodyMoves DEF vars, IInv
<1>2. ASSUME NEW t \in Callers, NEW p \in Paths,
             Answered(t, p) \/ \E force \in BOOLEAN : Fetch(t, p, force)
      PROVE  IInv'
  BY <1>2, AnsweredIInv, FetchIInv DEF Threads
<1>3. ASSUME NEW t \in Threads, Step(t) \/ GuardLoses(t) \/ GiveUp(t)
      PROVE  IInv'
  BY <1>3, CoordinateIInv, LeaderIInv, CloseIInv, AnswerIInv DEF Step
<1>4. ASSUME NEW w \in Workers, WorkerStep(w)
      PROVE  IInv'
  BY <1>4, WorkerIInv, FetchIInv DEF WorkerStep, Threads
<1> QED
  BY <1>1, <1>2, <1>3, <1>4, PauseIInv, OthersIInv DEF Next

----------------------------------------------------------------------------
(* What follows for every execution *)

\* The inductive invariant holds in every reachable state.
THEOREM FetchInvariant == Spec => []IInv
BY InitIInv, NextIInv, PTL DEF Spec

\* The registries of flights, followers and refresh jobs of origin.py are exact
\* in every reachable state, whichever way fetches and workers end.
THEOREM RegistriesAreExact == Spec => []RegistriesExact
<1>1. IInv => RegistriesExact
  <2> SUFFICES ASSUME IInv PROVE RegistriesExact
    OBVIOUS
  <2>1. TypeOK
    <3>1. background \in 0..Cardinality(Workers)
      <4>1. IsFiniteSet(Workers) /\ ActiveWorkers \in SUBSET Workers
        BY ThreadSets DEF Threads, ActiveWorkers
      <4>2. /\ Cardinality(ActiveWorkers) <= Cardinality(Workers)
            /\ Cardinality(ActiveWorkers) \in Nat /\ Cardinality(Workers) \in Nat
        BY <4>1, FS_Subset, FS_CardinalityType
      <4> QED
        BY <4>2 DEF IInv, PausesOK
    <3>2. \A t \in Threads :
             /\ thread[t].step \in Steps /\ thread[t].path \in Paths \cup {None}
             /\ thread[t].result \in {"none"} \cup Outcomes
      BY DEF IInv, ThreadsOK, ThreadType
    <3> QED
      BY <3>1, <3>2 DEF IInv, TypeOK, EntryOK, FlightsOK, JobsOK
  <2>2. FlightsExact
    <3>1. ASSUME NEW p \in Paths
          PROVE  {t \in Threads : thread[t].path = p /\ thread[t].step \in Leading}
                    = (IF flight[p] = None THEN {} ELSE {flight[p]})
      <4>1. flight[p] \in Threads \cup {None} /\ None \notin Threads
        BY OthersAreNew DEF IInv, FlightsOK
      <4>2. \A t \in Threads : flight[p] = t <=> thread[t].path = p /\ thread[t].step \in Leading
        BY DEF IInv, FlightsOK
      <4> QED
        BY <4>1, <4>2
    <3>2. followers = Cardinality({t \in Threads : thread[t].step \in {"waiting", "woken"}})
      BY DEF IInv, FlightsOK, Followers
    <3> QED
      BY <3>1, <3>2 DEF FlightsExact, IInv, FlightsOK
  <2>3. ScheduledOnce
    BY DEF IInv, JobsOK, ScheduledOnce, JobHolders
  <2> QED
    BY <2>1, <2>2, <2>3 DEF RegistriesExact
<1> QED
  BY <1>1, FetchInvariant, PTL

\* Whatever is cached was requested after the last delete or put by others: the
\* lease guard of the put, taken before the request, suffices.
THEOREM RefreshesAreNotLate == Spec => []NoLateRefresh
<1>1. IInv => NoLateRefresh
  BY DEF IInv, EntryOK, NoLateRefresh
<1> QED
  BY <1>1, FetchInvariant, PTL

\* Between the return of pause_background_work and the resume no worker is in
\* a refresh, also when a shutdown ends the pause.
THEOREM PausesAreQuiet == Spec => []PauseIsQuiet
<1>1. IInv => PauseIsQuiet
  <2> SUFFICES ASSUME IInv, pauser = "held", NEW w \in Workers
               PROVE  thread[w].step \in {"polling", "gate", "finishing", "exited"}
    BY DEF PauseIsQuiet
  <2>1. w \in Threads /\ w \notin Callers /\ Placed(w)
    BY ThreadsAreFinite DEF Threads, IInv, ThreadsOK
  <2>2. IsFiniteSet(ActiveWorkers) /\ Cardinality(ActiveWorkers) = 0
    BY ThreadSets DEF IInv, PausesOK, ActiveWorkers, Threads
  <2>3. ~thread[w].admitted
    <3>1. ActiveWorkers = {}
      BY <2>2, FS_EmptySet
    <3> QED
      BY <3>1 DEF ActiveWorkers
  <2> QED
    BY <2>1, <2>3 DEF Placed
<1> QED
  BY <1>1, FetchInvariant, PTL
=============================================================================
