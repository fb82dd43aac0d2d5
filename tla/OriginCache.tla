----------------------------- MODULE OriginCache -----------------------------
(***************************************************************************)
(* Read-through fetching in src/megacache/origin.py: OriginCache.fetch,    *)
(* the coalescing of concurrent fetches, the refresh lease and its guard,  *)
(* background refreshes with their queue and workers, the pause that       *)
(* maintenance asks for, and shutdown.  The request itself is only its     *)
(* outcome here; OriginRuntime models it.                                  *)
(*                                                                         *)
(* One key is modelled, fetched under several paths.  Its entry belongs to *)
(* the path it was fetched from (its lineage) and counts as a miss for the *)
(* others, while the lease of the key is common to all.  A step is one     *)
(* call of the storage or one critical section.                            *)
(***************************************************************************)
EXTENDS Integers, FiniteSets

CONSTANTS
    Callers, Workers,
    Paths,
    RefreshQueueSize,
    MaxFollowers,        \* of one flight
    GlobalMaxFollowers,  \* of all flights
    None, Other          \* no thread; a holder of the lease that is no thread

Threads == Callers \cup Workers

ASSUME ThreadsAreFinite == IsFiniteSet(Threads) /\ Callers \cap Workers = {}

ASSUME OthersAreNew == {None, Other} \cap (Threads \cup Paths) = {} /\ None # Other

ASSUME LimitsAreNatural ==
    /\ RefreshQueueSize \in Nat \ {0}
    /\ MaxFollowers \in Nat /\ GlobalMaxFollowers \in Nat \ {0}

VARIABLES
    entry,      \* age, path and kind of the cached entry; outdated (history)
    lease,      \* the thread whose token the refresh lease has
    flight,     \* path -> the thread that leads its flight
    followers,  \* the registry's count of followers
    thread,     \* thread -> step, path, force, result, ...; see Resting
    queue, scheduled,  \* paths of refresh jobs: waiting, and not yet finished
    sentinels,  \* stop requests in the queue
    background, \* _background_active
    paused,
    pauser,     \* the caller of pause_background_work: none, draining or held
    closed

cache == <<entry, lease>>
coalescing == <<flight, followers>>
refreshing == <<queue, scheduled, sentinels>>
pausing == <<background, paused, pauser>>

vars == <<cache, coalescing, thread, refreshing, pausing, closed>>

\* lost: the guard saw the lease go.  outdated (history): the key was written or
\* deleted by somebody else since the request began.
Resting(step) == [step |-> step, path |-> None, force |-> FALSE, admitted |-> FALSE,
                  result |-> "none", lost |-> FALSE, outdated |-> FALSE]

Miss == [age |-> "miss", path |-> None, kind |-> "value", outdated |-> FALSE]

Init ==
    /\ entry = Miss /\ lease = None
    /\ flight = [p \in Paths |-> None] /\ followers = 0
    /\ thread = [t \in Threads |-> Resting(IF t \in Workers THEN "polling" ELSE "idle")]
    /\ queue = {} /\ scheduled = {} /\ sentinels = 0
    /\ background = 0 /\ paused = FALSE /\ pauser = "none"
    /\ closed = FALSE

At(t, step) == thread[t].step = step

Goto(t, step) == thread' = [thread EXCEPT ![t].step = step]

\* fetch returns or raises: a worker still has to finish its job.
Return(t) ==
    thread' = [thread EXCEPT ![t] =
        IF t \in Callers THEN Resting("idle")
        ELSE [Resting("finishing") EXCEPT !.path = thread[t].path,
                                          !.admitted = thread[t].admitted]]

\* The age of the entry for path p: what _decode_cache_result makes of it.
Age(p) == IF entry.path = p THEN entry.age ELSE "miss"

----------------------------------------------------------------------------
(* fetch *)

\* _schedule: one job per key and path, none beyond the queue's size.
Schedule(p) ==
    IF p \in scheduled \/ closed \/ Cardinality(queue) + sentinels >= RefreshQueueSize
      THEN UNCHANGED refreshing
      ELSE /\ queue' = queue \cup {p} /\ scheduled' = scheduled \cup {p}
           /\ UNCHANGED sentinels

\* The fetch of a caller that a usable entry answers, perhaps with a refresh
\* ahead or behind; or that finds the service closed.
Answered(t, p) ==
    /\ t \in Callers /\ At(t, "idle")
    /\ \/ closed /\ UNCHANGED refreshing
       \/ Age(p) = "fresh" /\ UNCHANGED refreshing
       \/ Age(p) = "fresh" /\ entry.kind = "value" /\ Schedule(p)
       \/ Age(p) = "swr" /\ Schedule(p)
    /\ UNCHANGED <<cache, coalescing, thread, pausing, closed>>

\* The fetch of a caller that needs the origin.
Fetch(t, p, force) ==
    /\ t \in Callers /\ At(t, "idle") /\ ~closed
    /\ force \/ Age(p) \in {"sie", "miss"}
    /\ thread' = [thread EXCEPT ![t].step = "joining", ![t].path = p, ![t].force = force]
    /\ UNCHANGED <<cache, coalescing, refreshing, pausing, closed>>

\* The fetch of a worker is always forced.
Refresh(t) ==
    /\ At(t, "admitted")
    /\ IF closed THEN Return(t)
       ELSE thread' = [thread EXCEPT ![t].step = "joining", ![t].force = TRUE]
    /\ UNCHANGED <<cache, coalescing, refreshing, pausing, closed>>

Following(p) == {t \in Threads : At(t, "waiting") /\ thread[t].path = p}

\* _coordinate: lead, follow, or be turned away.
Coordinate(t) ==
    LET p == thread[t].path IN
    /\ At(t, "joining")
    /\ \/ /\ flight[p] = None
          /\ flight' = [flight EXCEPT ![p] = t]
          /\ Goto(t, "leading") /\ UNCHANGED followers
       \/ /\ flight[p] # None
          /\ Cardinality(Following(p)) < MaxFollowers /\ followers < GlobalMaxFollowers
          /\ followers' = followers + 1
          /\ thread' = [thread EXCEPT ![t].step = "waiting", ![t].force = FALSE]
          /\ UNCHANGED flight
       \/ /\ flight[p] # None
          /\ Cardinality(Following(p)) >= MaxFollowers \/ followers >= GlobalMaxFollowers
          /\ Return(t) /\ UNCHANGED coalescing
    /\ UNCHANGED <<cache, refreshing, pausing, closed>>

\* The flight has its result or its error, which is not part of the state.
Conclude(t) ==
    thread' = [thread EXCEPT ![t] = [Resting("closing") EXCEPT
                    !.path = thread[t].path, !.admitted = thread[t].admitted]]

\* Mutant: a leader waits for the lease somebody else has.
LeadPatiently(t) ==
    /\ At(t, "leading") /\ lease = None
    /\ lease' = t
    /\ thread' = [thread EXCEPT ![t].step = "requesting", ![t].force = FALSE]
    /\ UNCHANGED <<entry, coalescing, refreshing, pausing, closed>>

\* _leader_fetch, until the request: look again, then take the lease.
Lead(t) ==
    /\ At(t, "leading")
    /\ \/ /\ ~thread[t].force /\ Age(thread[t].path) = "fresh"
          /\ Conclude(t) /\ UNCHANGED lease
       \/ /\ thread[t].force \/ Age(thread[t].path) # "fresh"
          /\ lease # None
          /\ Conclude(t) /\ UNCHANGED lease
       \/ /\ thread[t].force \/ Age(thread[t].path) # "fresh"
          /\ lease = None
          /\ lease' = t
          /\ thread' = [thread EXCEPT ![t].step = "requesting", ![t].force = FALSE]
    /\ UNCHANGED <<entry, coalescing, refreshing, pausing, closed>>

\* The guard's thread fails to renew the lease, or sees the shutdown.
GuardLoses(t) ==
    /\ At(t, "requesting") /\ ~thread[t].lost
    /\ thread' = [thread EXCEPT ![t].lost = TRUE]
    /\ UNCHANGED <<cache, coalescing, refreshing, pausing, closed>>

Unleased(t) == IF lease = t THEN None ELSE lease

\* The request ends: a value, a negative status, OriginUnavailable, or another
\* error.  An answer counts only if the lease is still owned.
Requested(t, outcome) ==
    /\ At(t, "requesting")
    /\ \/ /\ outcome \in {"value", "negative"} /\ ~thread[t].lost /\ ~closed
          /\ thread' = [thread EXCEPT ![t].step = "storing", ![t].result = outcome]
          /\ UNCHANGED lease
       \/ /\ outcome = "unavailable" \/ thread[t].lost \/ closed
          /\ outcome # "error"
          /\ thread' = [thread EXCEPT ![t].step = "failing", ![t].lost = FALSE,
                                      ![t].outdated = FALSE]
          /\ UNCHANGED lease
       \/ /\ outcome = "error"
          /\ Conclude(t) /\ lease' = Unleased(t)
    /\ UNCHANGED <<entry, coalescing, refreshing, pausing, closed>>

\* Give the lease back and answer with a fresh or a stale entry, or the error.
FallBack(t) ==
    /\ At(t, "failing")
    /\ lease' = Unleased(t) /\ Conclude(t)
    /\ UNCHANGED <<entry, coalescing, refreshing, pausing, closed>>

\* Mutant: the value is put without the lease's token.
StoreUnguarded(t) ==
    /\ At(t, "storing")
    /\ entry' = [age |-> "fresh", path |-> thread[t].path, kind |-> thread[t].result,
                 outdated |-> thread[t].outdated]
    /\ lease' = None /\ Conclude(t)
    /\ UNCHANGED <<coalescing, refreshing, pausing, closed>>

\* The put is guarded by the lease and ends it.  It may also be refused for the
\* value's size.
Store(t) ==
    /\ At(t, "storing")
    /\ \/ /\ lease = t
          /\ entry' = [age |-> "fresh", path |-> thread[t].path,
                       kind |-> thread[t].result, outdated |-> thread[t].outdated]
          /\ lease' = None /\ Conclude(t)
       \/ /\ lease' = Unleased(t) /\ Conclude(t)
          /\ UNCHANGED entry
    /\ UNCHANGED <<coalescing, refreshing, pausing, closed>>

\* The leader's finally: pop the flight and set its event.
Close(t) ==
    LET p == thread[t].path IN
    /\ At(t, "closing")
    /\ flight' = [flight EXCEPT ![p] = None]
    /\ thread' = [u \in Threads |->
          IF u = t THEN [thread[t] EXCEPT !.step = "answering"]
          ELSE IF u \in Following(p)
            THEN [thread[u] EXCEPT !.step = "woken"]
          ELSE thread[u]]
    /\ UNCHANGED <<cache, followers, refreshing, pausing, closed>>

\* Leader and followers return the result or raise the error; a stale entry is
\* read again, and if it has gone the error is raised.
Answer(t) ==
    /\ thread[t].step \in {"answering", "woken"}
    /\ followers' = IF At(t, "woken") THEN followers - 1 ELSE followers
    /\ Return(t)
    /\ UNCHANGED <<cache, flight, refreshing, pausing, closed>>

\* Mutant: a follower at its deadline is not uncounted.
GiveUpCounted(t) ==
    /\ At(t, "waiting")
    /\ Return(t)
    /\ UNCHANGED <<cache, coalescing, refreshing, pausing, closed>>

\* A follower's deadline passes, or it sees the shutdown.
GiveUp(t) ==
    /\ At(t, "waiting")
    /\ followers' = followers - 1
    /\ Return(t)
    /\ UNCHANGED <<cache, flight, refreshing, pausing, closed>>

----------------------------------------------------------------------------
(* Background refreshes *)

\* _worker takes a job: sentinels first, then by priority or age.
Take(w, p) ==
    /\ At(w, "polling") /\ sentinels = 0 /\ p \in queue
    /\ queue' = queue \ {p}
    /\ thread' = [thread EXCEPT ![w].step = "gate", ![w].path = p]
    /\ UNCHANGED <<cache, coalescing, scheduled, sentinels, pausing, closed>>

\* Mutant: a worker stops only for a sentinel.
ExitBySentinel(w) ==
    /\ At(w, "polling") /\ sentinels > 0
    /\ sentinels' = sentinels - 1
    /\ Goto(w, "exited")
    /\ UNCHANGED <<cache, coalescing, queue, scheduled, pausing, closed>>

Exit(w) ==
    /\ At(w, "polling") /\ closed
    /\ sentinels > 0 \/ queue = {}
    /\ sentinels' = IF sentinels > 0 THEN sentinels - 1 ELSE sentinels
    /\ Goto(w, "exited")
    /\ UNCHANGED <<cache, coalescing, queue, scheduled, pausing, closed>>

\* Mutant: jobs already taken do not wait for the end of a pause.
GateOpen(w) ==
    /\ At(w, "gate")
    /\ background' = background + 1
    /\ thread' = [thread EXCEPT ![w].step = "admitted", ![w].admitted = TRUE]
    /\ UNCHANGED <<cache, coalescing, refreshing, paused, pauser, closed>>

Gate(w) ==
    /\ At(w, "gate")
    /\ \/ /\ closed
          /\ Goto(w, "finishing") /\ UNCHANGED background
       \/ /\ ~closed /\ ~paused
          /\ background' = background + 1
          /\ thread' = [thread EXCEPT ![w].step = "admitted", ![w].admitted = TRUE]
    /\ UNCHANGED <<cache, coalescing, refreshing, paused, pauser, closed>>

Finish(w) ==
    /\ At(w, "finishing")
    /\ background' = IF thread[w].admitted THEN background - 1 ELSE background
    /\ scheduled' = scheduled \ {thread[w].path}
    /\ thread' = [thread EXCEPT ![w] = Resting("polling")]
    /\ UNCHANGED <<cache, coalescing, queue, sentinels, paused, pauser, closed>>

Pause ==
    /\ pauser = "none" /\ ~closed
    /\ paused' = TRUE /\ pauser' = "draining"
    /\ UNCHANGED <<cache, coalescing, thread, refreshing, background, closed>>

Drained ==
    /\ pauser = "draining" /\ background = 0
    /\ pauser' = "held"
    /\ UNCHANGED <<cache, coalescing, thread, refreshing, background, paused, closed>>

\* The drain times out, or resume_background_work.
Unpause ==
    /\ pauser = "held" \/ (pauser = "draining" /\ background > 0)
    /\ paused' = FALSE /\ pauser' = "none"
    /\ UNCHANGED <<cache, coalescing, thread, refreshing, background, closed>>

Lesser(m, n) == IF m < n THEN m ELSE n

\* begin_shutdown: as many sentinels as workers, or as the queue has room for.
Shutdown ==
    /\ ~closed /\ closed' = TRUE
    /\ paused' = FALSE
    /\ sentinels' = Lesser(Cardinality(Workers), RefreshQueueSize - Cardinality(queue))
    /\ UNCHANGED <<cache, coalescing, thread, queue, scheduled, background, pauser>>

----------------------------------------------------------------------------
(* Everybody else: time, and other users of the key. *)

Expire ==
    /\ entry.age # "miss"
    /\ entry' = IF entry.kind = "negative" \/ entry.age = "sie" THEN Miss
                ELSE [entry EXCEPT !.age = IF entry.age = "fresh" THEN "swr" ELSE "sie"]
    /\ UNCHANGED <<lease, coalescing, thread, refreshing, pausing, closed>>

\* The lease expires, or somebody else acquires it by the lease API.
LeaseExpires ==
    /\ lease # None /\ lease' = None
    /\ UNCHANGED <<entry, coalescing, thread, refreshing, pausing, closed>>

LeaseTaken ==
    /\ lease = None /\ lease' = Other
    /\ UNCHANGED <<entry, coalescing, thread, refreshing, pausing, closed>>

\* A delete, or a put of an ordinary value, which no path's lineage matches.
\* Both end the lease.
Overwrite ==
    /\ entry' = Miss /\ lease' = None
    /\ thread' = [t \in Threads |->
          IF thread[t].step \in {"requesting", "storing"}
            THEN [thread[t] EXCEPT !.outdated = TRUE] ELSE thread[t]]
    /\ UNCHANGED <<coalescing, refreshing, pausing, closed>>

----------------------------------------------------------------------------
Outcomes == {"value", "negative", "unavailable", "error"}

Step(t) == \/ Coordinate(t) \/ Lead(t) \/ FallBack(t) \/ Store(t) \/ Close(t)
           \/ Answer(t)
           \/ \E outcome \in Outcomes : Requested(t, outcome)

WorkerStep(w) == Exit(w) \/ Gate(w) \/ Refresh(w) \/ Finish(w)
                 \/ \E p \in Paths : Take(w, p)

Next == \/ \E t \in Callers, p \in Paths :
              Answered(t, p) \/ \E force \in BOOLEAN : Fetch(t, p, force)
        \/ \E t \in Threads : Step(t) \/ GuardLoses(t) \/ GiveUp(t)
        \/ \E w \in Workers : WorkerStep(w)
        \/ Pause \/ Drained \/ Unpause \/ Shutdown
        \/ Expire \/ LeaseExpires \/ LeaseTaken \/ Overwrite

\* Threads are scheduled, requests end (their waits and transports have
\* timeouts, see OriginRuntime), followers have a deadline.
Fairness == /\ \A t \in Threads : WF_vars(Step(t)) /\ WF_vars(GiveUp(t))
            /\ \A w \in Workers : WF_vars(WorkerStep(w))

Spec == Init /\ [][Next]_vars /\ Fairness

----------------------------------------------------------------------------
(* Properties *)

Steps == {"idle", "joining", "waiting", "woken", "leading", "requesting", "storing",
          "failing", "closing", "answering", "polling", "gate", "admitted",
          "finishing", "exited"}

\* Every variable has its type.
TypeOK ==
    /\ entry \in [age : {"fresh", "swr", "sie", "miss"}, path : Paths \cup {None},
                  kind : {"value", "negative"}, outdated : BOOLEAN]
    /\ lease \in Threads \cup {None, Other}
    /\ flight \in [Paths -> Threads \cup {None}] /\ followers \in 0..GlobalMaxFollowers
    /\ \A t \in Threads :
          /\ thread[t].step \in Steps /\ thread[t].path \in Paths \cup {None}
          /\ thread[t].result \in {"none"} \cup Outcomes
    /\ queue \subseteq Paths /\ scheduled \subseteq Paths
    /\ sentinels \in 0..Cardinality(Workers)
    /\ background \in 0..Cardinality(Workers)

Leading == {"leading", "requesting", "storing", "failing", "closing"}

\* The registry is exact: a follower waits on a flight that a thread leads, at
\* most one leads each, and the count of followers is that of the threads that
\* still follow, whether they got the result, timed out or saw the shutdown.
FlightsExact ==
    /\ \A p \in Paths :
          {t \in Threads : thread[t].path = p /\ thread[t].step \in Leading}
              = (IF flight[p] = None THEN {} ELSE {flight[p]})
    /\ \A t \in Threads : At(t, "waiting") => flight[thread[t].path] # None
    /\ followers = Cardinality({t \in Threads : thread[t].step \in {"waiting", "woken"}})

\* A refresh is pending once while it is scheduled, in the queue or with one
\* worker, and can be scheduled again when it is not.
ScheduledOnce ==
    \A p \in Paths :
        Cardinality({w \in Workers : thread[w].path = p}) +
            (IF p \in queue THEN 1 ELSE 0) = (IF p \in scheduled THEN 1 ELSE 0)

\* The registries of requests and of refreshes are exact: neither can fill up
\* with what has ended, and a path is never refused for a job that is gone.
RegistriesExact == TypeOK /\ FlightsExact /\ ScheduledOnce

\* "an older in-flight refresh cannot restore the invalidated value": what is
\* cached was requested after the last delete or put of the key by others.
NoLateRefresh == ~entry.outdated

\* From the return of pause_background_work until the resume no background
\* refresh touches the storage.
PauseIsQuiet ==
    pauser = "held" => \A w \in Workers : thread[w].step \in {"polling", "gate", "finishing", "exited"}

\* Every fetch returns or raises.
FetchesEnd == \A t \in Callers : At(t, "joining") ~> At(t, "idle")

\* After begin_shutdown every worker stops, also one held up by a pause, one in
\* the middle of a refresh, or when the queue was too full for the sentinels.
WorkersStop == closed ~> \A w \in Workers : At(w, "exited")
=============================================================================
