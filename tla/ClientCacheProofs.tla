-------------------------- MODULE ClientCacheProofs --------------------------
(***************************************************************************)
(* Proofs about ClientCache for any number of threads and keys and any     *)
(* number of mutations: the client never reads back from L1 what is older  *)
(* than its own last successful mutation, and the next poll finds every    *)
(* outdated entry that was read from the server after its first poll, if   *)
(* no generation of one epoch is taken for that of another.                *)
(***************************************************************************)
EXTENDS ClientCache, FiniteSetTheorems, TLAPS

\* The steps of a thread that will move the cursor.
Marking == {"marking", "marking count"}

LoadSteps == {"comparing", "comparing counts", "marking", "marking count", "looking", "joining",
              "following", "expecting", "leasing", "loading", "admitting", "leaving"}
MutationSteps == {"locking", "bumping", "answered"}
Steps == LoadSteps \cup MutationSteps \cup {"idle"}

\* The steps of a thread that leads a flight.
Leading == {"expecting", "leasing", "loading", "admitting", "leaving"} \cup MutationSteps

ThreadType == [step : Steps, key : Keys \cup {None},
               call : {"none", "load", "set", "delete"}, seen : Clocks, got : Values]

Typed ==
    /\ entry \in [Keys -> Values] /\ local \in [Keys -> Values]
    /\ latest \in [Keys -> 0..MaxVersion] /\ written \in [Keys -> 0..MaxVersion]
    /\ lease \in [Keys -> Threads \cup {None, Other}]
    /\ clock \in Clocks /\ cursor \in Cursors
    /\ unbumped \in 0..MaxVersion /\ versions \in 0..MaxVersion
    /\ current \subseteq Threads
    /\ flight \in [Keys -> Threads \cup {None}]
    /\ thread \in [Threads -> ThreadType]

\* c is an epoch and a generation the server has had.
NotLater(c) ==
    c.epoch < clock.epoch \/ (c.epoch = clock.epoch /\ c.generation <= clock.generation)

\* What holds of a thread by itself.
ThreadOK(t) ==
    /\ ~At(t, "idle") => Key(t) \in Keys
    /\ thread[t].step \in LoadSteps => thread[t].call = "load"
    /\ NotLater(thread[t].seen)

\* A flight is led by a thread that loads its key.
FlightsOK ==
    \A k \in Keys : flight[k] # None =>
        /\ Key(flight[k]) = k /\ thread[flight[k]].call = "load"
        /\ thread[flight[k]].step \in Leading

Locking == {t \in Threads : At(t, "locking")}

\* Mutations are counted once, and the bound leaves room for those under way.
CountsOK ==
    /\ versions + Cardinality(Locking) <= MaxVersion
    /\ clock.generation + unbumped + (IF Free THEN 0 ELSE 1) <= versions
    /\ clock.epoch > 0 /\ clock.epoch <= versions + 1
    /\ NotLater(cursor.count)

\* e was read after the first poll.
Watched(e) == e # Absent /\ ~e.blind

WatchedOK ==
    cursor.known \/ /\ \A k \in Keys : ~Watched(local[k])
                    /\ \A t \in Threads : At(t, "admitting") => ~Watched(thread[t].got)

\* What the server stores is the last mutation of its key.
ServerOK ==
    \A k \in Keys :
        /\ written[k] <= latest[k] /\ latest[k] <= versions
        /\ entry[k] # Absent => entry[k].version = latest[k] /\ ~entry[k].blind

Mutating(t) == thread[t].step \in {"bumping", "answered"}

\* _mutation_lock: one mutation at a time is between the server and
\* _mutation_succeeded, and it is later than all that have succeeded.
LockOK ==
    /\ \A t, u \in Threads : Mutating(t) /\ Mutating(u) => t = u
    /\ \A t \in Threads : Mutating(t) =>
          /\ thread[t].got.blind /\ thread[t].got.version <= latest[Key(t)]
          /\ \A k \in Keys : written[k] <= thread[t].got.version

\* A value about to be admitted is no older than the client's own mutations.
AdmittingOK ==
    \A t \in current : At(t, "admitting") /\ thread[t].got # Absent =>
        thread[t].got.version >= written[Key(t)]

\* e is watched and not the server's any more.
Outdated(k, e) == Watched(e) /\ e.version < latest[k]

SomeOutdated ==
    \/ \E k \in Keys : Outdated(k, local[k])
    \/ \E t \in current : At(t, "admitting") /\ Outdated(Key(t), thread[t].got)

\* While an outdated value is in L1 or about to be, and all mutations are counted,
\* neither the cursor nor a thread that will move it has the server's count.
NoticeOK ==
    ~cursor.mixed /\ SomeOutdated /\ unbumped = 0 /\ Free =>
        /\ cursor.count # clock
        /\ \A t \in Threads : thread[t].step \in Marking => thread[t].seen # clock

ThreadsOK == \A t \in Threads : ThreadOK(t)

IInv == /\ Typed /\ ThreadsOK /\ FlightsOK /\ CountsOK /\ ServerOK /\ LockOK
        /\ AdmittingOK /\ WatchedOK /\ NoticeOK /\ ReadYourWrites

----------------------------------------------------------------------------
(* One thread moves *)

\* A set that one element joins or leaves, or neither.
LEMMA CountOne ==
    ASSUME NEW S, IsFiniteSet(S), NEW T, NEW x,
           \A y : y # x => (y \in T <=> y \in S)
    PROVE  /\ IsFiniteSet(T) /\ Cardinality(S) \in Nat /\ Cardinality(T) \in Nat
           /\ (x \in S <=> x \in T) => Cardinality(T) = Cardinality(S)
           /\ x \in S /\ x \notin T => Cardinality(T) = Cardinality(S) - 1
           /\ x \notin S /\ x \in T => Cardinality(T) = Cardinality(S) + 1
<1>0. Cardinality(S) \in Nat
  BY FS_CardinalityType
<1>1. CASE x \in S <=> x \in T
  <2>1. S = T
    BY <1>1
  <2> QED
    BY <1>0, <1>1, <2>1
<1>2. CASE x \in S /\ x \notin T
  <2>1. T = S \ {x}
    BY <1>2
  <2>2. IsFiniteSet(T) /\ Cardinality(T) = Cardinality(S) - 1
    BY <1>2, <2>1, FS_RemoveElement
  <2> QED
    BY <1>0, <1>2, <2>2, FS_CardinalityType
<1>3. CASE x \notin S /\ x \in T
  <2>1. T = S \cup {x}
    BY <1>3
  <2>2. IsFiniteSet(T) /\ Cardinality(T) = Cardinality(S) + 1
    BY <1>3, <2>1, FS_AddElement
  <2> QED
    BY <1>0, <1>3, <2>2, FS_CardinalityType
<1> QED
  BY <1>1, <1>2, <1>3

\* Who is locking, when one thread moves.
LEMMA LockingCount ==
    ASSUME Typed, NEW t \in Threads,
           \A u \in Threads \ {t} : thread'[u].step = thread[u].step
    PROVE  /\ Cardinality(Locking) \in Nat /\ Cardinality(Locking') \in Nat
           /\ (At(t, "locking") <=> At(t, "locking")') =>
                 Cardinality(Locking') = Cardinality(Locking)
           /\ At(t, "locking") /\ ~At(t, "locking")' =>
                 Cardinality(Locking') = Cardinality(Locking) - 1
           /\ ~At(t, "locking") /\ At(t, "locking")' =>
                 Cardinality(Locking') = Cardinality(Locking) + 1
<1>1. IsFiniteSet(Locking)
  BY ThreadsAreFinite, FS_Subset DEF Locking
<1>2. \A u : u # t => (u \in Locking' <=> u \in Locking)
  BY DEF Locking, At
<1>3. (t \in Locking <=> At(t, "locking")) /\ (t \in Locking' <=> At(t, "locking")')
  BY DEF Locking
<1> HIDE DEF Locking
<1> QED
  BY <1>1, <1>2, <1>3, CountOne

\* Numbers are numbers.
LEMMA Numbers ==
    ASSUME Typed
    PROVE  /\ MaxVersion \in Nat /\ versions \in Nat /\ unbumped \in Nat
           /\ clock.epoch \in Nat /\ clock.generation \in Nat
           /\ cursor.count \in Clocks
           /\ cursor.count.epoch \in Nat /\ cursor.count.generation \in Nat
           /\ \A k \in Keys : latest[k] \in Nat /\ written[k] \in Nat
                 /\ entry[k].version \in Nat /\ local[k].version \in Nat
           /\ \A t \in Threads : /\ thread[t].got.version \in Nat
                 /\ thread[t].seen.epoch \in Nat /\ thread[t].seen.generation \in Nat
<1>1. MaxVersion \in Nat
  BY BoundIsPositive
<1>2. \A c \in Clocks : c.epoch \in Nat /\ c.generation \in Nat
  BY <1>1 DEF Clocks
<1>3. \A v \in Values : v.version \in Nat
  BY <1>1 DEF Values
<1>4. \A t \in Threads : thread[t].seen \in Clocks /\ thread[t].got \in Values
  BY DEF Typed, ThreadType
<1>5. cursor.count \in Clocks
  BY DEF Typed, Cursors
<1> QED
  BY <1>1, <1>2, <1>3, <1>4, <1>5 DEF Typed

\* A thread goes on from a step before the mutation to another such step, and the
\* server stays as it is.
LEMMA MoveKeeps ==
    ASSUME IInv, NEW t \in Threads, NEW x \in ThreadType,
           thread' = [thread EXCEPT ![t] = x],
           UNCHANGED <<entry, latest, clock, unbumped, versions, written>>,
           lease' \in [Keys -> Threads \cup {None, Other}],
           flight' \in [Keys -> Threads \cup {None}],
           \A k \in Keys : /\ flight'[k] = t => x.key = k /\ x.call = "load" /\ x.step \in Leading
                           /\ flight'[k] \notin {t, None} => flight[k] = flight'[k],
           local' \in [Keys -> Values], cursor' \in Cursors, NotLater(cursor'.count),
           cursor.known => cursor'.known,
           ~cursor'.known => \A k \in Keys : ~Watched(local'[k]),
           ~cursor'.known /\ x.step = "admitting" => ~Watched(x.got),
           current' \subseteq current \cup {t},
           ~Mutating(t), x.step \notin {"bumping", "answered"},
           x.step # "idle" => x.key \in Keys,
           x.step \in LoadSteps => x.call = "load",
           NotLater(x.seen),
           x.step = "locking" => At(t, "locking") \/ Room,
           x.step = "admitting" /\ x.got # Absent => x.got.version >= written[x.key]
    PROVE  /\ Typed' /\ ThreadsOK' /\ FlightsOK' /\ CountsOK' /\ ServerOK' /\ LockOK'
           /\ AdmittingOK' /\ WatchedOK' /\ (Free' <=> Free)
           /\ thread'[t] = x /\ \A u \in Threads \ {t} : thread'[u] = thread[u]
<1>1. /\ thread' \in [Threads -> ThreadType] /\ thread'[t] = x
      /\ \A u \in Threads \ {t} : thread'[u] = thread[u]
  BY DEF IInv, Typed
<1>2. Typed'
  BY <1>1 DEF IInv, Typed
<1>3. ThreadsOK'
  <2>1. ASSUME NEW u \in Threads \ {t} PROVE ThreadOK(u)'
    BY <1>1 DEF IInv, ThreadsOK, ThreadOK, At, Key, NotLater
  <2>2. ThreadOK(t)'
    BY <1>1 DEF ThreadOK, At, Key, NotLater
  <2> QED
    BY <2>1, <2>2 DEF ThreadsOK
<1>4. FlightsOK'
  <2> SUFFICES ASSUME NEW k \in Keys, flight'[k] # None
               PROVE  /\ thread'[flight'[k]].key = k /\ thread'[flight'[k]].call = "load"
                      /\ thread'[flight'[k]].step \in Leading
    BY DEF FlightsOK, Key
  <2>1. CASE flight'[k] = t
    BY <1>1, <2>1
  <2>2. CASE flight'[k] # t
    <3>1. flight'[k] = flight[k] /\ flight[k] \in Threads \ {t}
      BY <2>2
    <3>2. thread'[flight[k]] = thread[flight[k]]
      BY <1>1, <3>1
    <3> QED
      BY <3>1, <3>2 DEF IInv, FlightsOK, Key
  <2> QED
    BY <2>1, <2>2
<1>5. Free' <=> Free
  BY <1>1 DEF Free, At, Mutating
<1>6. CountsOK'
  <2>1. /\ Cardinality(Locking) \in Nat /\ Cardinality(Locking') \in Nat
        /\ Cardinality(Locking') <= Cardinality(Locking) \/ Room
        /\ Cardinality(Locking') <= Cardinality(Locking) + 1
    <3>1. At(t, "locking")' <=> x.step = "locking"
      BY <1>1 DEF At
    <3>2. Typed
      BY DEF IInv
    <3>3. \A u \in Threads \ {t} : thread'[u].step = thread[u].step
      BY <1>1
    <3> QED
      BY <3>1, <3>2, <3>3, LockingCount
  <2>2. versions' + Cardinality(Locking') <= MaxVersion
    <3>1. versions \in Nat /\ MaxVersion \in Nat
      BY Numbers DEF IInv
    <3> QED
      BY <2>1, <3>1 DEF IInv, CountsOK, Room, Locking
  <2>3. /\ clock'.generation + unbumped' + (IF Free' THEN 0 ELSE 1) <= versions'
        /\ clock'.epoch > 0 /\ clock'.epoch <= versions' + 1 /\ NotLater(cursor.count)'
    BY <1>5 DEF IInv, CountsOK, NotLater
  <2> QED
    BY <2>2, <2>3 DEF CountsOK
<1>7. ServerOK'
  BY DEF IInv, ServerOK
<1>8. LockOK'
  <2>1. \A u \in Threads : Mutating(u)' => u # t /\ Mutating(u) /\ thread'[u] = thread[u]
    BY <1>1 DEF Mutating
  <2> QED
    BY <2>1 DEF IInv, LockOK, Key
<1>9. AdmittingOK'
  <2> SUFFICES ASSUME NEW u \in current', thread'[u].step = "admitting", thread'[u].got # Absent
               PROVE  thread'[u].got.version >= written[thread'[u].key]
    BY DEF AdmittingOK, At, Key
  <2>1. CASE u = t
    BY <1>1, <2>1
  <2>2. CASE u # t
    <3>1. u \in current /\ u \in Threads /\ thread'[u] = thread[u]
      BY <1>1, <2>2 DEF IInv, Typed
    <3> QED
      BY <3>1 DEF IInv, AdmittingOK, At, Key
  <2> QED
    BY <2>1, <2>2
<1>10. WatchedOK'
  <2> SUFFICES ASSUME ~cursor'.known
               PROVE  \A u \in Threads : thread'[u].step = "admitting" => ~Watched(thread'[u].got)
    BY DEF WatchedOK, At, Watched, Absent
  <2>1. ~cursor.known
    BY DEF IInv, Typed, Cursors
  <2>2. \A u \in Threads : thread[u].step = "admitting" => ~Watched(thread[u].got)
    BY <2>1 DEF IInv, WatchedOK, At
  <2> QED
    BY <1>1, <2>2
<1> QED
  BY <1>1, <1>2, <1>3, <1>4, <1>5, <1>6, <1>7, <1>8, <1>9, <1>10

\* Whoever is about to admit an outdated value was so before, unless it is the one
\* that moves.
LEMMA OutdatedKept ==
    ASSUME IInv, NEW t \in Threads, latest' = latest, current' \subseteq current \cup {t},
           \A u \in Threads \ {t} : thread'[u] = thread[u],
           At(t, "admitting")' => ~Outdated(Key(t), thread[t].got)',
           \A k \in Keys : Outdated(k, local'[k]) => SomeOutdated
    PROVE  SomeOutdated' => SomeOutdated
<1>1. ASSUME NEW k \in Keys, Outdated(k, local[k])' PROVE SomeOutdated
  BY <1>1 DEF Outdated, Watched, Absent
<1>2. ASSUME NEW u \in current', At(u, "admitting")', Outdated(Key(u), thread[u].got)'
      PROVE  SomeOutdated
  <2>1. u # t /\ u \in current /\ thread'[u] = thread[u]
    BY <1>2 DEF IInv, Typed
  <2>2. At(u, "admitting") /\ Outdated(Key(u), thread[u].got)
    BY <1>2, <2>1 DEF At, Outdated, Watched, Key, Absent
  <2> QED
    BY <2>1, <2>2 DEF SomeOutdated
<1> QED
  BY <1>1, <1>2 DEF SomeOutdated

\* The same when L1 and the cursor stay as they are.
LEMMA MoveStep ==
    ASSUME IInv, NEW t \in Threads, NEW x \in ThreadType,
           thread' = [thread EXCEPT ![t] = x],
           UNCHANGED <<entry, latest, clock, unbumped, versions, local, written, cursor>>,
           lease' \in [Keys -> Threads \cup {None, Other}],
           flight' \in [Keys -> Threads \cup {None}],
           \A k \in Keys : /\ flight'[k] = t => x.key = k /\ x.call = "load" /\ x.step \in Leading
                           /\ flight'[k] \notin {t, None} => flight[k] = flight'[k],
           current' \subseteq current \cup {t},
           ~Mutating(t), x.step \notin {"bumping", "answered"} \cup Marking,
           x.step # "idle" => x.key \in Keys,
           x.step \in LoadSteps => x.call = "load",
           NotLater(x.seen),
           x.step = "locking" => At(t, "locking") \/ Room,
           x.step = "admitting" /\ x.got # Absent =>
              /\ x.got.version >= written[x.key] /\ ~Outdated(x.key, x.got)
              /\ Watched(x.got) => cursor.known
    PROVE  IInv'
<1>1. /\ local' \in [Keys -> Values] /\ cursor' \in Cursors /\ NotLater(cursor'.count)
      /\ cursor.known => cursor'.known
      /\ ~cursor'.known => \A k \in Keys : ~Watched(local'[k])
      /\ ~cursor'.known /\ x.step = "admitting" => ~Watched(x.got)
  BY DEF IInv, Typed, CountsOK, WatchedOK, Watched
<1>2. /\ Typed' /\ ThreadsOK' /\ FlightsOK' /\ CountsOK' /\ ServerOK' /\ LockOK'
      /\ AdmittingOK' /\ WatchedOK' /\ (Free' <=> Free)
      /\ thread'[t] = x /\ \A u \in Threads \ {t} : thread'[u] = thread[u]
  BY <1>1, MoveKeeps
<1>3. ReadYourWrites'
  BY DEF IInv, ReadYourWrites
<1>4. NoticeOK'
  <2>1. At(t, "admitting")' => ~Outdated(Key(t), thread[t].got)'
    BY <1>2 DEF At, Key, Outdated, Watched, Absent
  <2>2. \A k \in Keys : Outdated(k, local'[k]) => SomeOutdated
    BY DEF SomeOutdated
  <2>3. SomeOutdated' => SomeOutdated
    BY <1>2, <2>1, <2>2, OutdatedKept
  <2>4. \A u \in Threads : thread'[u].step \in Marking => thread'[u] = thread[u]
    BY <1>2
  <2> QED
    BY <1>2, <2>3, <2>4 DEF IInv, NoticeOK
<1> QED
  BY <1>2, <1>3, <1>4 DEF IInv

\* What a thread is after a step.
After(t, step) == [thread[t] EXCEPT !.step = step]

\* It is a thread, and keeps what the step does not change.
LEMMA AfterType ==
    ASSUME Typed, NEW t \in Threads, NEW step \in Steps
    PROVE  /\ After(t, step) \in ThreadType /\ After(t, step).step = step
           /\ After(t, step).key = Key(t) /\ After(t, step).call = thread[t].call
           /\ After(t, step).seen = thread[t].seen /\ After(t, step).got = thread[t].got
           /\ [thread EXCEPT ![t].step = step] = [thread EXCEPT ![t] = After(t, step)]
<1>1. thread[t] \in ThreadType /\ thread \in [Threads -> ThreadType]
  BY DEF Typed
<1>2. /\ After(t, step) \in ThreadType /\ After(t, step).step = step
      /\ After(t, step).key = Key(t) /\ After(t, step).call = thread[t].call
      /\ After(t, step).seen = thread[t].seen /\ After(t, step).got = thread[t].got
  BY <1>1 DEF After, ThreadType, Key
<1>3. [thread EXCEPT ![t].step = step] = [thread EXCEPT ![t] = After(t, step)]
  BY <1>1 DEF After
<1> QED
  BY <1>2, <1>3

\* A thread with another step and value, field by field.
LEMMA WithFields ==
    ASSUME NEW a \in ThreadType, NEW step \in Steps, NEW e \in Values
    PROVE  /\ [a EXCEPT !.step = step, !.got = e] \in ThreadType
           /\ [a EXCEPT !.step = step, !.got = e]
                  = [step |-> step, key |-> a.key, call |-> a.call, seen |-> a.seen, got |-> e]
<1> DEFINE d == [a EXCEPT !.step = step, !.got = e]
<1>1. d = [a EXCEPT !.step = step, !.got = e]
  OBVIOUS
<1> HIDE DEF d
<1>2. d = [step |-> step, key |-> a.key, call |-> a.call, seen |-> a.seen, got |-> e]
  BY <1>1 DEF ThreadType
<1>3. d \in ThreadType
  BY <1>2 DEF ThreadType
<1> QED
  BY <1>1, <1>2, <1>3

\* The same when it is what the thread has seen that changes.
LEMMA SeenFields ==
    ASSUME NEW a \in ThreadType, NEW c \in Clocks
    PROVE  /\ [a EXCEPT !.step = "looking", !.seen = c] \in ThreadType
           /\ [a EXCEPT !.step = "looking", !.seen = c]
                  = [step |-> "looking", key |-> a.key, call |-> a.call, seen |-> c, got |-> a.got]
<1> DEFINE d == [a EXCEPT !.step = "looking", !.seen = c]
<1>1. d = [a EXCEPT !.step = "looking", !.seen = c]
  OBVIOUS
<1> HIDE DEF d
<1>2. d = [step |-> "looking", key |-> a.key, call |-> a.call, seen |-> c, got |-> a.got]
  BY <1>1 DEF ThreadType
<1>3. d \in ThreadType
  BY <1>2 DEF ThreadType, Steps, LoadSteps
<1> QED
  BY <1>1, <1>2, <1>3

\* So it is for With.
LEMMA WithType ==
    ASSUME Typed, NEW t \in Threads, NEW step \in Steps, NEW e \in Values
    PROVE  /\ With(t, step, e) \in ThreadType
           /\ With(t, step, e) = [step |-> step, key |-> Key(t), call |-> thread[t].call,
                                  seen |-> thread[t].seen, got |-> e]
<1>1. thread[t] \in ThreadType
  BY DEF Typed
<1> QED
  BY <1>1, WithFields DEF With, Key

\* Nobody and nothing, and a thread that has begun to load.
LEMMA RestingType ==
    /\ Absent \in Values /\ Absent.version = 0 /\ ~Absent.blind /\ Absent.age = "none"
    /\ NoClock \in Clocks /\ NoClock.epoch = 0
    /\ Resting \in ThreadType /\ Resting.step = "idle" /\ Resting.call = "none"
    /\ Resting.seen = NoClock /\ Resting.got = Absent
<1>1. /\ Absent \in Values /\ Absent.version = 0 /\ ~Absent.blind /\ Absent.age = "none"
      /\ NoClock \in Clocks /\ NoClock.epoch = 0
  BY BoundIsPositive DEF Absent, Values, NoClock, Clocks
<1> QED
  BY <1>1 DEF Resting, ThreadType, Steps

\* A flight a thread leads goes on while the thread loads its key.
LEMMA FlightKept ==
    ASSUME IInv, NEW t \in Threads, NEW x,
           thread[t].step \in Leading /\ thread[t].call = "load" =>
              x.key = Key(t) /\ x.call = "load" /\ x.step \in Leading
    PROVE  /\ flight \in [Keys -> Threads \cup {None}]
           /\ \A k \in Keys : flight[k] = t => x.key = k /\ x.call = "load" /\ x.step \in Leading
BY OthersAreNew DEF IInv, Typed, FlightsOK

\* What the steps of a thread need of the rest.
LEMMA ServerTypes ==
    ASSUME IInv
    PROVE  /\ lease \in [Keys -> Threads \cup {None, Other}]
           /\ NotLater(NoClock) /\ NotLater(clock)
           /\ cursor \in Cursors /\ cursor.count \in Clocks /\ NotLater(cursor.count)
<1>1. cursor \in Cursors /\ cursor.count \in Clocks /\ NotLater(cursor.count)
  BY DEF IInv, CountsOK, Typed, Cursors
<1>2. lease \in [Keys -> Threads \cup {None, Other}]
  BY DEF IInv, Typed
<1>3. clock.epoch \in Nat /\ clock.generation \in Nat /\ clock.epoch > 0
  BY Numbers DEF IInv, CountsOK
<1> QED
  BY <1>1, <1>2, <1>3, RestingType DEF NotLater

\* A thread moves, and nothing else changes.
LEMMA QuietMove ==
    ASSUME IInv, NEW t \in Threads, NEW x \in ThreadType,
           thread' = [thread EXCEPT ![t] = x], UNCHANGED <<server, client>>,
           thread[t].step \in Leading /\ thread[t].call = "load" =>
              x.key = Key(t) /\ x.call = "load" /\ x.step \in Leading,
           ~Mutating(t), x.step \notin {"bumping", "answered"} \cup Marking,
           x.step # "idle" => x.key \in Keys,
           x.step \in LoadSteps => x.call = "load",
           NotLater(x.seen),
           x.step = "locking" => At(t, "locking") \/ Room,
           x.step = "admitting" /\ x.got # Absent =>
              /\ x.got.version >= written[x.key] /\ ~Outdated(x.key, x.got)
              /\ Watched(x.got) => cursor.known
    PROVE  IInv'
<1>1. /\ UNCHANGED <<entry, latest, clock, unbumped, versions, local, written, cursor>>
      /\ lease' = lease /\ flight' = flight /\ current' = current
  BY DEF server, client
<1>2. /\ flight' \in [Keys -> Threads \cup {None}]
      /\ \A k \in Keys : flight'[k] = t => x.key = k /\ x.call = "load" /\ x.step \in Leading
  BY <1>1, FlightKept
<1>3. lease' \in [Keys -> Threads \cup {None, Other}]
  BY <1>1, ServerTypes
<1> QED
  BY <1>1, <1>2, <1>3, MoveStep

----------------------------------------------------------------------------
(* Polls and loads *)

\* A call begins, with or without a poll.
LEMMA CallStep ==
    ASSUME IInv, NEW t \in Threads, NEW k \in Keys
    PROVE  /\ SkipPoll(t, k) => IInv'
           /\ Poll(t, k) => IInv'
           /\ \A call \in {"set", "delete"} : Change(t, k, call) => IInv'
<1>1. Typed /\ clock \in Clocks /\ clock.epoch > 0
  BY DEF IInv, Typed, CountsOK
<1>2. ASSUME SkipPoll(t, k) PROVE IInv'
  <2> DEFINE x == Calling(t, k, "looking")
  <2>1. /\ x \in ThreadType /\ x.step = "looking" /\ x.key = k /\ x.call = "load"
        /\ x.seen = NoClock
    BY RestingType DEF Calling, ThreadType, Steps, LoadSteps
  <2>2. /\ thread' = [thread EXCEPT ![t] = x] /\ UNCHANGED <<server, client>>
        /\ At(t, "idle")
    BY <1>2 DEF SkipPoll
  <2> HIDE DEF x
  <2>3. thread[t].step \notin Leading /\ ~Mutating(t)
    BY <2>2 DEF At, Leading, MutationSteps, Mutating
  <2> QED
    BY <1>1, <2>1, <2>2, <2>3, QuietMove, ServerTypes DEF LoadSteps, Marking
<1>3. ASSUME Poll(t, k) PROVE IInv'
  <2> DEFINE x == [Calling(t, k, "comparing") EXCEPT !.seen = clock]
  <2>1. /\ x \in ThreadType /\ x.step = "comparing" /\ x.key = k /\ x.call = "load"
        /\ x.seen = clock
    BY <1>1, RestingType DEF Calling, ThreadType, Steps, LoadSteps
  <2>2. /\ thread' = [thread EXCEPT ![t] = x] /\ UNCHANGED <<server, client>> /\ At(t, "idle")
    BY <1>3 DEF Poll
  <2> HIDE DEF x
  <2>3. thread[t].step \notin Leading /\ ~Mutating(t)
    BY <2>2 DEF At, Leading, MutationSteps, Mutating
  <2> QED
    BY <1>1, <2>1, <2>2, <2>3, QuietMove, ServerTypes DEF LoadSteps, Marking
<1>4. ASSUME NEW call \in {"set", "delete"}, Change(t, k, call) PROVE IInv'
  <2> DEFINE x == [Resting EXCEPT !.step = "locking", !.key = k, !.call = call]
  <2>1. /\ x \in ThreadType /\ x.step = "locking" /\ x.key = k /\ x.call = call
        /\ x.seen = NoClock
    BY RestingType DEF ThreadType, Steps, MutationSteps
  <2>2. /\ thread' = [thread EXCEPT ![t] = x] /\ UNCHANGED <<server, client>>
        /\ At(t, "idle") /\ Room
    BY <1>4 DEF Change
  <2> HIDE DEF x
  <2>3. thread[t].step \notin Leading /\ ~Mutating(t)
    BY <2>2 DEF At, Leading, MutationSteps, Mutating
  <2> QED
    BY <1>1, <2>1, <2>2, <2>3, QuietMove, ServerTypes DEF LoadSteps, Marking
<1> QED
  BY <1>2, <1>3, <1>4

\* L1 is looked at, and a flight joined or opened.
LEMMA LookStep ==
    ASSUME IInv, NEW t \in Threads
    PROVE  /\ Look(t) => IInv'
           /\ Join(t) => IInv'
           /\ Expect(t) => IInv'
<1>1. Typed /\ ThreadOK(t) /\ Absent \in Values
  BY RestingType DEF IInv, ThreadsOK
<1>2. ASSUME Look(t) PROVE IInv'
  <2>1. /\ thread[t].step = "looking" /\ UNCHANGED <<server, client>>
        /\ thread[t].step \notin Leading /\ ~Mutating(t)
    BY <1>2 DEF Look, At, Leading, MutationSteps, Mutating
  <2>2. CASE thread' = [thread EXCEPT ![t] = Resting]
    BY <2>1, <2>2, QuietMove, ServerTypes, RestingType DEF LoadSteps, Marking
  <2>3. CASE Goto(t, "joining")
    <3>1. /\ Key(t) \in Keys /\ thread[t].call = "load" /\ NotLater(thread[t].seen)
      BY <1>1, <2>1 DEF ThreadOK, At, LoadSteps
    <3> DEFINE x == After(t, "joining")
    <3>2. /\ x \in ThreadType /\ x.step = "joining" /\ x.key = Key(t) /\ x.call = "load"
          /\ x.seen = thread[t].seen /\ thread' = [thread EXCEPT ![t] = x]
      BY <1>1, <2>3, <3>1, AfterType DEF Goto, Steps, LoadSteps
    <3> HIDE DEF x
    <3> QED
      BY <2>1, <3>1, <3>2, QuietMove DEF Marking
  <2> QED
    BY <1>2, <2>2, <2>3 DEF Look
<1>3. ASSUME Join(t) PROVE IInv'
  <2>1. /\ thread[t].step = "joining" /\ thread[t].step \notin Leading /\ ~Mutating(t)
        /\ UNCHANGED <<server, local, cursor, current, written>>
    BY <1>3 DEF Join, At, Leading, MutationSteps, Mutating
  <2>2. /\ Key(t) \in Keys /\ thread[t].call = "load" /\ NotLater(thread[t].seen)
    BY <1>1, <2>1 DEF ThreadOK, At, LoadSteps
  <2>3. CASE flight' = [flight EXCEPT ![Key(t)] = t] /\ Goto(t, "expecting")
    <3> DEFINE x == After(t, "expecting")
    <3>1. /\ x \in ThreadType /\ x.step = "expecting" /\ x.key = Key(t) /\ x.call = "load"
          /\ x.seen = thread[t].seen /\ thread' = [thread EXCEPT ![t] = x]
      BY <1>1, <2>2, <2>3, AfterType DEF Goto, Steps, LoadSteps
    <3> HIDE DEF x
    <3>2. /\ flight' \in [Keys -> Threads \cup {None}] /\ "expecting" \in Leading
          /\ \A k \in Keys : flight[k] # t
          /\ \A k \in Keys : flight'[k] = IF k = Key(t) THEN t ELSE flight[k]
      BY <2>1, <2>3, FlightKept DEF Leading
    <3>3. \A k \in Keys : /\ flight'[k] = t => x.key = k /\ x.call = "load" /\ x.step \in Leading
                          /\ flight'[k] \notin {t, None} => flight[k] = flight'[k]
      BY <3>1, <3>2
    <3>4. /\ UNCHANGED <<entry, latest, clock, unbumped, versions, local, written, cursor>>
          /\ lease' = lease /\ current' = current
      BY <2>1 DEF server
    <3> QED
      BY <2>1, <2>2, <3>1, <3>2, <3>3, <3>4, MoveStep, ServerTypes DEF Marking
  <2>4. CASE UNCHANGED flight /\ Goto(t, "following")
    <3> DEFINE x == After(t, "following")
    <3>1. /\ x \in ThreadType /\ x.step = "following" /\ x.key = Key(t) /\ x.call = "load"
          /\ x.seen = thread[t].seen /\ thread' = [thread EXCEPT ![t] = x]
      BY <1>1, <2>2, <2>4, AfterType DEF Goto, Steps, LoadSteps
    <3> HIDE DEF x
    <3>2. UNCHANGED <<server, client>>
      BY <2>1, <2>4 DEF client
    <3> QED
      BY <2>1, <2>2, <3>1, <3>2, QuietMove DEF Marking
  <2> QED
    BY <1>3, <2>3, <2>4 DEF Join
<1>4. ASSUME Expect(t) PROVE IInv'
  <2>1. /\ thread[t].step = "expecting" /\ thread[t].step \in Leading /\ ~Mutating(t)
        /\ UNCHANGED <<server, local, cursor, flight, written>>
        /\ current' = current \cup {t}
    BY <1>4 DEF Expect, At, Leading, MutationSteps, Mutating
  <2>2. /\ Key(t) \in Keys /\ thread[t].call = "load" /\ NotLater(thread[t].seen)
    BY <1>1, <2>1 DEF ThreadOK, At, LoadSteps
  <2> DEFINE x == After(t, "leasing")
  <2>3. /\ x \in ThreadType /\ x.step = "leasing" /\ x.key = Key(t) /\ x.call = "load"
        /\ x.seen = thread[t].seen /\ thread' = [thread EXCEPT ![t] = x]
    BY <1>1, <1>4, <2>2, AfterType DEF Expect, Goto, Steps, LoadSteps
  <2> HIDE DEF x
  <2>4. /\ UNCHANGED <<entry, latest, clock, unbumped, versions, local, written, cursor>>
        /\ lease' = lease /\ flight' = flight
    BY <2>1 DEF server
  <2>5. /\ flight' \in [Keys -> Threads \cup {None}]
        /\ \A k \in Keys : flight'[k] = t => x.key = k /\ x.call = "load" /\ x.step \in Leading
    BY <2>3, <2>4, FlightKept DEF Leading
  <2> QED
    BY <2>1, <2>2, <2>3, <2>4, <2>5, MoveStep, ServerTypes DEF Marking
<1> QED
  BY <1>2, <1>3, <1>4

\* The leader of a flight goes on and stays its leader.
LEMMA LeadStep ==
    ASSUME IInv, NEW t \in Threads, NEW x \in ThreadType,
           thread' = [thread EXCEPT ![t] = x],
           UNCHANGED <<entry, latest, clock, unbumped, versions, local, written, cursor, flight>>,
           lease' \in [Keys -> Threads \cup {None, Other}], current' \subseteq current,
           thread[t].call = "load", thread[t].step \in Leading, ~Mutating(t),
           x.key = Key(t), x.call = "load", x.seen = thread[t].seen,
           x.step \in Leading \ {"bumping", "answered"},
           x.step = "locking" => At(t, "locking") \/ Room,
           x.step = "admitting" /\ x.got # Absent =>
              /\ x.got.version >= written[x.key] /\ ~Outdated(x.key, x.got)
              /\ Watched(x.got) => cursor.known
    PROVE  IInv'
<1>1. /\ x.key \in Keys /\ NotLater(x.seen) /\ x.step \notin Marking
  BY DEF IInv, ThreadsOK, ThreadOK, At, Leading, MutationSteps, Marking
<1>2. /\ flight' \in [Keys -> Threads \cup {None}] /\ flight' = flight
      /\ \A k \in Keys : flight'[k] = t => x.key = k /\ x.call = "load" /\ x.step \in Leading
  BY FlightKept
<1> QED
  BY <1>1, <1>2, MoveStep

\* A value that is marked as blind or not.
LEMMA BlindFields ==
    ASSUME NEW e \in Values, NEW b \in BOOLEAN
    PROVE  /\ [e EXCEPT !.blind = b] \in Values /\ [e EXCEPT !.blind = b].blind = b
           /\ [e EXCEPT !.blind = b].version = e.version /\ [e EXCEPT !.blind = b].age = e.age
<1> DEFINE d == [e EXCEPT !.blind = b]
<1>1. d = [e EXCEPT !.blind = b]
  OBVIOUS
<1> HIDE DEF d
<1>2. d = [version |-> e.version, age |-> e.age, blind |-> b]
  BY <1>1 DEF Values
<1> QED
  BY <1>1, <1>2 DEF Values

\* What MC.LEASE answers; the value it answers with is the server's.
LEMMA LeaseStep ==
    ASSUME IInv, NEW t \in Threads
    PROVE  /\ LeaseAnswers(t) => IInv'
           /\ LeaseGranted(t) => IInv'
           /\ LeaseBusy(t) => IInv'
           /\ LeaseFails(t) => IInv'
<1> SUFFICES ASSUME thread[t].step = "leasing" PROVE
           /\ LeaseAnswers(t) => IInv'
           /\ LeaseGranted(t) => IInv'
           /\ LeaseBusy(t) => IInv'
           /\ LeaseFails(t) => IInv'
  BY DEF LeaseAnswers, LeaseGranted, LeaseBusy, LeaseFails, At
<1>1. /\ Typed /\ Absent \in Values /\ thread[t].call = "load" /\ Key(t) \in Keys
      /\ thread[t].step \in Leading /\ ~Mutating(t)
      /\ lease \in [Keys -> Threads \cup {None, Other}]
  BY RestingType DEF IInv, ThreadsOK, ThreadOK, At, LoadSteps, Leading, Mutating, Typed
<1>2. ASSUME LeaseAnswers(t) PROVE IInv'
  <2> DEFINE e == [entry[Key(t)] EXCEPT !.blind = ~cursor.known]
             x == With(t, "admitting", e)
  <2>0. entry[Key(t)] \in Values /\ (~cursor.known) \in BOOLEAN
    BY <1>1 DEF Typed
  <2>1. /\ e \in Values /\ e.version = entry[Key(t)].version /\ e.age = entry[Key(t)].age
        /\ Watched(e) => cursor.known
    BY <2>0, BlindFields DEF Watched
  <2> HIDE DEF e
  <2>2. /\ x \in ThreadType /\ x.step = "admitting" /\ x.key = Key(t) /\ x.call = "load"
        /\ x.seen = thread[t].seen /\ x.got = e /\ thread' = [thread EXCEPT ![t] = x]
    <3>1. "admitting" \in Steps /\ thread' = [thread EXCEPT ![t] = x]
      BY <1>2 DEF LeaseAnswers, Got, e, Steps, LoadSteps
    <3> QED
      BY <1>1, <2>1, <3>1, WithType
  <2> HIDE DEF x
  <2>3. e # Absent => e.version >= written[Key(t)] /\ ~Outdated(Key(t), e)
    <3>1. latest[Key(t)] \in Nat /\ written[Key(t)] \in Nat
      BY <1>1, Numbers
    <3>2. entry[Key(t)] # Absent
      BY <1>2, RestingType DEF LeaseAnswers
    <3> QED
      BY <1>1, <2>1, <3>1, <3>2 DEF IInv, ServerOK, Outdated
  <2>4. /\ UNCHANGED <<entry, latest, clock, unbumped, versions, local, written, cursor, flight>>
        /\ lease' = lease /\ current' = current
    BY <1>2 DEF LeaseAnswers, server, client
  <2> QED
    BY <1>1, <2>1, <2>2, <2>3, <2>4, LeadStep DEF Leading
<1>3. ASSUME LeaseGranted(t) PROVE IInv'
  <2> DEFINE x == After(t, "loading")
  <2>1. /\ x \in ThreadType /\ x.step = "loading" /\ x.key = Key(t) /\ x.call = "load"
        /\ x.seen = thread[t].seen /\ thread' = [thread EXCEPT ![t] = x]
    BY <1>1, <1>3, AfterType DEF LeaseGranted, Goto, Steps, LoadSteps
  <2> HIDE DEF x
  <2>2. /\ UNCHANGED <<entry, latest, clock, unbumped, versions, local, written, cursor, flight>>
        /\ current' = current /\ lease' = [lease EXCEPT ![Key(t)] = t]
    BY <1>3 DEF LeaseGranted, client
  <2> QED
    BY <1>1, <2>1, <2>2, LeadStep DEF Leading
<1>4. ASSUME LeaseBusy(t) PROVE IInv'
  <2> DEFINE x == After(t, "expecting")
  <2>1. /\ x \in ThreadType /\ x.step = "expecting" /\ x.key = Key(t) /\ x.call = "load"
        /\ x.seen = thread[t].seen /\ thread' = [thread EXCEPT ![t] = x]
    BY <1>1, <1>4, AfterType DEF LeaseBusy, Goto, Steps, LoadSteps
  <2> HIDE DEF x
  <2>2. /\ UNCHANGED <<entry, latest, clock, unbumped, versions, local, written, cursor, flight>>
        /\ current' = current /\ lease' = lease
    BY <1>4 DEF LeaseBusy, client, server
  <2> QED
    BY <1>1, <2>1, <2>2, LeadStep DEF Leading
<1>5. ASSUME LeaseFails(t) PROVE IInv'
  <2> DEFINE x == With(t, "leaving", Absent)
  <2>1. /\ x \in ThreadType /\ x.step = "leaving" /\ x.key = Key(t) /\ x.call = "load"
        /\ x.seen = thread[t].seen /\ thread' = [thread EXCEPT ![t] = x]
    <3>1. "leaving" \in Steps /\ thread' = [thread EXCEPT ![t] = x]
      BY <1>5 DEF LeaseFails, Leaving, Steps, LoadSteps
    <3> QED
      BY <1>1, <3>1, WithType
  <2> HIDE DEF x
  <2>2. /\ UNCHANGED <<entry, latest, clock, unbumped, versions, local, written, cursor, flight>>
        /\ current' \subseteq current /\ lease' = lease
    BY <1>5 DEF LeaseFails, Leaving, server
  <2> QED
    BY <1>1, <2>1, <2>2, LeadStep DEF Leading
<1> QED
  BY <1>2, <1>3, <1>4, <1>5

\* The loader ends, and the mutation of a loaded value may be refused.
LEMMA LoadStep ==
    ASSUME IInv, NEW t \in Threads
    PROVE  /\ Load(t) => IInv'
           /\ Send(t) /\ Refused(t) => IInv'
<1>1. Typed /\ Absent \in Values /\ ThreadOK(t)
  BY RestingType DEF IInv, ThreadsOK
<1>2. ASSUME Load(t) PROVE IInv'
  <2>1. /\ thread[t].step = "loading" /\ thread[t].step \in Leading /\ ~Mutating(t)
        /\ thread[t].call = "load"
    BY <1>1, <1>2 DEF Load, At, ThreadOK, Leading, LoadSteps, Mutating
  <2>2. /\ UNCHANGED <<entry, latest, clock, unbumped, versions, local, written, cursor, flight>>
        /\ current' \subseteq current /\ lease' = lease
        /\ lease \in [Keys -> Threads \cup {None, Other}]
    BY <1>1, <1>2 DEF Load, server, Typed
  <2>3. ASSUME NEW step \in {"locking", "leaving"}, Goto(t, step), step = "locking" => Room
        PROVE  IInv'
    <3> DEFINE x == After(t, step)
    <3>1. /\ x \in ThreadType /\ x.step = step /\ x.key = Key(t) /\ x.call = "load"
          /\ x.seen = thread[t].seen /\ thread' = [thread EXCEPT ![t] = x]
      BY <1>1, <2>1, <2>3, AfterType DEF Goto, Steps, LoadSteps, MutationSteps
    <3> HIDE DEF x
    <3>2. step \in Leading \ {"bumping", "answered"}
      BY <2>3 DEF Leading, MutationSteps
    <3> QED
      BY <2>1, <2>2, <2>3, <3>1, <3>2, LeadStep
  <2> QED
    BY <1>2, <2>3 DEF Load
<1>3. ASSUME Send(t), Refused(t) PROVE IInv'
  <2>1. /\ thread[t].step = "locking" /\ thread[t].step \in Leading /\ ~Mutating(t)
        /\ UNCHANGED <<server, client>> /\ thread' = [thread EXCEPT ![t] = Failed(t)]
        /\ lease \in [Keys -> Threads \cup {None, Other}]
    BY <1>1, <1>3 DEF Send, Sent, At, Leading, MutationSteps, Mutating, server, Typed
  <2>2. CASE thread[t].call = "load"
    <3> DEFINE x == With(t, "leaving", Absent)
    <3>1. /\ x \in ThreadType /\ x.step = "leaving" /\ x.key = Key(t) /\ x.call = "load"
          /\ x.seen = thread[t].seen /\ thread' = [thread EXCEPT ![t] = x]
      <4>1. "leaving" \in Steps /\ Failed(t) = x
        BY <2>2 DEF Failed, Steps, LoadSteps
      <4> QED
        BY <1>1, <2>1, <2>2, <4>1, WithType
    <3> HIDE DEF x
    <3>2. /\ UNCHANGED <<entry, latest, clock, unbumped, versions, local, written, cursor, flight>>
          /\ lease' = lease /\ current' = current
      BY <2>1 DEF server, client
    <3> QED
      BY <2>1, <2>2, <3>1, <3>2, LeadStep DEF Leading
  <2>3. CASE thread[t].call # "load"
    <3>1. thread' = [thread EXCEPT ![t] = Resting]
      BY <2>1, <2>3 DEF Failed
    <3> QED
      BY <2>1, <2>3, <3>1, QuietMove, ServerTypes, RestingType DEF LoadSteps, Marking
  <2> QED
    BY <2>2, <2>3
<1> QED
  BY <1>2, <1>3

\* A poll goes on.  Who will move the cursor either has emptied L1, or has seen what
\* is not the server's count while something is outdated.
LEMMA PollStep ==
    ASSUME IInv, NEW t \in Threads, NEW step \in {"comparing counts"} \cup Marking,
           thread[t].step \in {"comparing", "comparing counts"} \cup Marking, Goto(t, step),
           UNCHANGED <<server, flight, written>>,
           cursor' \in Cursors, cursor'.count = cursor.count,
           cursor.known => cursor'.known, cursor.mixed => cursor'.mixed,
           Cleared \/ UNCHANGED <<current, local>>,
           \/ Cleared \/ step \notin Marking
           \/ ~cursor'.mixed /\ SomeOutdated /\ unbumped = 0 /\ Free => thread[t].seen # clock
    PROVE  IInv'
<1> DEFINE x == After(t, step)
<1>1. /\ Typed /\ ThreadOK(t) /\ Absent \in Values /\ thread[t].step \in LoadSteps
      /\ step \in LoadSteps /\ step \notin Leading /\ thread[t].step \notin Leading
      /\ step \in Steps /\ step \notin {"idle", "admitting", "locking", "bumping", "answered"}
  BY RestingType DEF IInv, ThreadsOK, LoadSteps, Steps, Marking, Leading, MutationSteps
<1>2. /\ Key(t) \in Keys /\ thread[t].call = "load" /\ NotLater(thread[t].seen) /\ ~Mutating(t)
  BY <1>1 DEF ThreadOK, At, LoadSteps, Mutating, Leading, MutationSteps
<1>3. /\ x \in ThreadType /\ x.step = step /\ x.key = Key(t) /\ x.call = "load"
      /\ x.seen = thread[t].seen /\ thread' = [thread EXCEPT ![t] = x]
  BY <1>1, <1>2, AfterType DEF Goto
<1> HIDE DEF x
<1>4. /\ UNCHANGED <<entry, latest, clock, unbumped, versions, written>>
      /\ lease' = lease /\ flight' = flight
  BY DEF server
<1>5. /\ flight' \in [Keys -> Threads \cup {None}]
      /\ \A k \in Keys : flight'[k] = t => x.key = k /\ x.call = "load" /\ x.step \in Leading
  BY <1>1, <1>4, FlightKept
<1>6. /\ local' \in [Keys -> Values] /\ current' \subseteq current
      /\ \A k \in Keys : local'[k] \in {local[k], Absent}
  BY <1>1 DEF Cleared, Typed
<1>7. NotLater(cursor'.count) /\ (~cursor'.known => \A k \in Keys : ~Watched(local'[k]))
  <2>1. ~cursor'.known => ~cursor.known
    BY <1>1 DEF Typed, Cursors
  <2> QED
    BY <1>6, <2>1, ServerTypes DEF IInv, WatchedOK, Watched
<1>8. /\ Typed' /\ ThreadsOK' /\ FlightsOK' /\ CountsOK' /\ ServerOK' /\ LockOK'
      /\ AdmittingOK' /\ WatchedOK' /\ (Free' <=> Free)
      /\ thread'[t] = x /\ \A u \in Threads \ {t} : thread'[u] = thread[u]
  BY <1>1, <1>2, <1>3, <1>4, <1>5, <1>6, <1>7, ServerTypes, MoveKeeps
<1>9. ReadYourWrites'
  BY <1>4, <1>6 DEF IInv, ReadYourWrites, Absent
<1>10. NoticeOK'
  <2>1. CASE Cleared
    BY <2>1 DEF Cleared, NoticeOK, SomeOutdated, Outdated, Watched, Absent
  <2>2. CASE ~Cleared
    <3>1. SomeOutdated' => SomeOutdated
      <4>1. ~At(t, "admitting")'
        BY <1>1, <1>3, <1>8 DEF At
      <4>2. \A k \in Keys : Outdated(k, local'[k]) => SomeOutdated
        BY <2>2 DEF SomeOutdated
      <4> QED
        BY <1>4, <1>6, <1>8, <4>1, <4>2, OutdatedKept
    <3>2. ASSUME ~cursor'.mixed, SomeOutdated, unbumped = 0, Free
          PROVE  /\ cursor'.count # clock
                 /\ \A u \in Threads : thread'[u].step \in Marking => thread'[u].seen # clock
      <4>1. /\ cursor.count # clock
            /\ \A u \in Threads : thread[u].step \in Marking => thread[u].seen # clock
        BY <3>2 DEF IInv, NoticeOK
      <4>2. step \in Marking => thread'[t].seen # clock
        BY <1>3, <1>8, <2>2, <3>2
      <4> QED
        BY <1>3, <1>8, <4>1, <4>2
    <3> QED
      BY <1>4, <1>8, <3>1, <3>2 DEF NoticeOK
  <2> QED
    BY <2>1, <2>2
<1> QED
  BY <1>8, <1>9, <1>10 DEF IInv

\* Nothing that is watched is outdated before the first poll.
LEMMA FirstPoll ==
    ASSUME IInv, ~cursor.known
    PROVE  ~SomeOutdated
<1>1. current \subseteq Threads
  BY DEF IInv, Typed
<1> QED
  BY <1>1 DEF IInv, WatchedOK, SomeOutdated, Outdated

\* The epochs are compared.
LEMMA CompareStep ==
    ASSUME IInv, NEW t \in Threads, Compare(t)
    PROVE  IInv'
<1>1. /\ thread[t].step = "comparing" /\ UNCHANGED <<server, flight, written>>
      /\ cursor' = cursor /\ cursor \in Cursors
  BY ServerTypes DEF Compare, At
<1>2. CASE cursor.known /\ cursor.epoch = thread[t].seen.epoch
  <2>1. Goto(t, "comparing counts") /\ UNCHANGED <<current, local>>
    BY <1>2 DEF Compare
  <2>2. "comparing counts" \notin Marking
    BY DEF Marking
  <2> QED
    BY <1>1, <2>1, <2>2, PollStep
<1>3. CASE cursor.known /\ cursor.epoch # thread[t].seen.epoch
  <2>1. Goto(t, "marking") /\ Cleared
    BY <1>3 DEF Compare
  <2>2. "marking" \in Marking
    BY DEF Marking
  <2> QED
    BY <1>1, <2>1, <2>2, PollStep
<1>4. CASE ~cursor.known
  <2>1. Goto(t, "marking") /\ UNCHANGED <<current, local>>
    BY <1>4 DEF Compare
  <2>2. "marking" \in Marking /\ ~SomeOutdated
    BY <1>4, FirstPoll DEF Marking
  <2> QED
    BY <1>1, <2>1, <2>2, PollStep
<1> QED
  BY <1>2, <1>3, <1>4

\* The generations are compared.  An outdated value is only kept when the count is
\* what the poll has seen, which is not the server's then, or of another epoch.
LEMMA CompareCountsStep ==
    ASSUME IInv, NEW t \in Threads, CompareCounts(t)
    PROVE  IInv'
<1> DEFINE same == /\ cursor.count # NoClock
                   /\ cursor.count.generation = thread[t].seen.generation
           mixed == cursor.mixed \/ (same /\ cursor.count # thread[t].seen)
<1>1. /\ thread[t].step = "comparing counts" /\ UNCHANGED <<server, flight, written>>
      /\ cursor \in Cursors /\ cursor' = [cursor EXCEPT !.mixed = mixed]
      /\ Goto(t, "marking") /\ (IF same THEN UNCHANGED <<current, local>> ELSE Cleared)
  BY ServerTypes DEF CompareCounts, At
<1> HIDE DEF same
<1>2. mixed \in BOOLEAN
  BY <1>1 DEF Cursors
<1> HIDE DEF mixed
<1>3. /\ cursor' \in Cursors /\ cursor'.count = cursor.count /\ cursor'.known = cursor.known
      /\ cursor'.mixed = mixed
  BY <1>1, <1>2 DEF Cursors
<1>4. "marking" \in Marking
  BY DEF Marking
<1>5. ASSUME same, ~mixed, SomeOutdated, unbumped = 0, Free PROVE thread[t].seen # clock
  <2>1. ~cursor.mixed /\ cursor.count = thread[t].seen
    BY <1>5 DEF mixed
  <2> QED
    BY <1>5, <2>1 DEF IInv, NoticeOK
<1>6. cursor.mixed => mixed
  BY DEF mixed
<1>7. CASE same
  BY <1>1, <1>3, <1>4, <1>5, <1>6, <1>7, PollStep
<1>8. CASE ~same
  BY <1>1, <1>3, <1>4, <1>6, <1>8, PollStep
<1> QED
  BY <1>7, <1>8

\* The cursor's epoch moves.
LEMMA MarkStep ==
    ASSUME IInv, NEW t \in Threads, Mark(t)
    PROVE  IInv'
<1>1. /\ thread[t].step = "marking" /\ UNCHANGED <<server, flight, written, current, local>>
      /\ cursor \in Cursors /\ Goto(t, "marking count")
      /\ cursor' = [cursor EXCEPT !.known = TRUE, !.epoch = thread[t].seen.epoch]
  BY ServerTypes DEF Mark, At
<1>2. thread[t].seen.epoch \in 0..MaxVersion + 1
  BY DEF IInv, Typed, ThreadType, Clocks
<1>3. /\ cursor' \in Cursors /\ cursor'.count = cursor.count /\ cursor'.known
      /\ cursor'.mixed = cursor.mixed
  BY <1>1, <1>2 DEF Cursors
<1>4. {"marking", "marking count"} \subseteq Marking
  BY DEF Marking
<1>5. ~cursor'.mixed /\ SomeOutdated /\ unbumped = 0 /\ Free => thread[t].seen # clock
  BY <1>1, <1>3, <1>4 DEF IInv, NoticeOK
<1> QED
  BY <1>1, <1>3, <1>4, <1>5, PollStep

\* The cursor's generation moves.
LEMMA MarkCountStep ==
    ASSUME IInv, NEW t \in Threads, MarkCount(t)
    PROVE  IInv'
<1> DEFINE x == [thread[t] EXCEPT !.step = "looking", !.seen = NoClock]
<1>1. /\ Typed /\ ThreadOK(t) /\ thread[t].step = "marking count" /\ thread[t] \in ThreadType
      /\ thread[t].seen \in Clocks
  BY DEF IInv, ThreadsOK, Typed, MarkCount, At, ThreadType
<1>2. /\ Key(t) \in Keys /\ thread[t].call = "load" /\ NotLater(thread[t].seen)
      /\ ~Mutating(t) /\ thread[t].step \notin Leading /\ thread[t].step \in Marking
  BY <1>1 DEF ThreadOK, At, LoadSteps, Mutating, Leading, MutationSteps, Marking
<1>3. /\ x \in ThreadType /\ x.step = "looking" /\ x.key = Key(t) /\ x.call = "load"
      /\ x.seen = NoClock
  <2>1. thread[t] \in ThreadType /\ NoClock \in Clocks
    BY <1>1, RestingType
  <2>2. /\ x \in ThreadType
        /\ x = [step |-> "looking", key |-> Key(t), call |-> thread[t].call, seen |-> NoClock,
                got |-> thread[t].got]
    BY <2>1, SeenFields DEF Key
  <2> HIDE DEF x
  <2> QED
    BY <1>2, <2>2
<1>4. thread' = [thread EXCEPT ![t] = x]
  BY DEF MarkCount
<1> HIDE DEF x
<1>5. /\ UNCHANGED <<entry, latest, clock, unbumped, versions, written, local>>
      /\ lease' = lease /\ flight' = flight /\ current' = current
      /\ cursor' = [cursor EXCEPT !.count = thread[t].seen]
  BY DEF MarkCount, server
<1>6. /\ flight' \in [Keys -> Threads \cup {None}]
      /\ \A k \in Keys : flight'[k] = t => x.key = k /\ x.call = "load" /\ x.step \in Leading
  BY <1>2, <1>5, FlightKept
<1>7. /\ cursor' \in Cursors /\ cursor'.count = thread[t].seen /\ cursor'.known = cursor.known
      /\ cursor'.mixed = cursor.mixed /\ local' \in [Keys -> Values]
  BY <1>1, <1>5 DEF Typed, Cursors
<1>8. ~cursor'.known => \A k \in Keys : ~Watched(local'[k])
  BY <1>5, <1>7 DEF IInv, WatchedOK
<1>9. /\ Typed' /\ ThreadsOK' /\ FlightsOK' /\ CountsOK' /\ ServerOK' /\ LockOK'
      /\ AdmittingOK' /\ WatchedOK' /\ (Free' <=> Free)
      /\ thread'[t] = x /\ \A u \in Threads \ {t} : thread'[u] = thread[u]
  BY <1>2, <1>3, <1>4, <1>5, <1>6, <1>7, <1>8, ServerTypes, MoveKeeps
<1>10. ReadYourWrites'
  BY <1>5 DEF IInv, ReadYourWrites
<1>11. NoticeOK'
  <2>1. SomeOutdated' => SomeOutdated
    <3>1. ~At(t, "admitting")'
      BY <1>3, <1>9 DEF At
    <3>2. \A k \in Keys : Outdated(k, local'[k]) => SomeOutdated
      BY <1>5 DEF SomeOutdated
    <3> QED
      BY <1>5, <1>9, <3>1, <3>2, OutdatedKept
  <2>2. ASSUME ~cursor.mixed, SomeOutdated, unbumped = 0, Free
        PROVE  /\ cursor'.count # clock
               /\ \A u \in Threads : thread'[u].step \in Marking => thread'[u].seen # clock
    <3>1. \A u \in Threads : thread[u].step \in Marking => thread[u].seen # clock
      BY <2>2 DEF IInv, NoticeOK
    <3>2. x.step \notin Marking
      BY <1>3 DEF Marking
    <3> QED
      BY <1>2, <1>7, <1>9, <3>1, <3>2
  <2> QED
    BY <1>5, <1>7, <1>9, <2>1, <2>2 DEF NoticeOK
<1> QED
  BY <1>9, <1>10, <1>11 DEF IInv

\* A value is admitted while the generation is still the one it was read under.
LEMMA AdmitStep ==
    ASSUME IInv, NEW t \in Threads, Admit(t)
    PROVE  IInv'
<1> DEFINE x == With(t, "leaving", Absent)
<1>1. /\ Typed /\ ThreadOK(t) /\ Absent \in Values /\ thread[t].step = "admitting"
      /\ thread[t].got \in Values
  BY RestingType DEF IInv, ThreadsOK, Typed, CountsOK, Admit, At, ThreadType
<1>2. /\ Key(t) \in Keys /\ thread[t].call = "load" /\ NotLater(thread[t].seen)
      /\ ~Mutating(t) /\ thread[t].step \in Leading
  BY <1>1 DEF ThreadOK, At, LoadSteps, Mutating, Leading, MutationSteps
<1>3. /\ x \in ThreadType /\ x.step = "leaving" /\ x.key = Key(t) /\ x.call = "load"
      /\ x.seen = thread[t].seen /\ thread' = [thread EXCEPT ![t] = x]
  <2>1. "leaving" \in Steps /\ thread' = [thread EXCEPT ![t] = x]
    BY DEF Admit, Leaving, Steps, LoadSteps
  <2> QED
    BY <1>1, <1>2, <2>1, WithType
<1> HIDE DEF x
<1>4. /\ UNCHANGED <<entry, latest, clock, unbumped, versions, written, cursor>>
      /\ lease' = lease /\ flight' = flight /\ current' = current \ {t}
  BY DEF Admit, Leaving, server
<1>5. /\ flight' \in [Keys -> Threads \cup {None}]
      /\ \A k \in Keys : flight'[k] = t => x.key = k /\ x.call = "load" /\ x.step \in Leading
  BY <1>2, <1>3, <1>4, FlightKept DEF Leading
<1>6. /\ local' \in [Keys -> Values]
      /\ \A k \in Keys : local'[k] \notin {local[k], Absent} =>
            k = Key(t) /\ t \in current /\ local'[k] = thread[t].got
  <2>1. local \in [Keys -> Values]
    BY <1>1 DEF Typed
  <2>2. CASE local' = local
    BY <2>1, <2>2
  <2>3. CASE t \in current /\ local' \in Placed(Key(t), thread[t].got)
    <3>1. PICK evicted \in SUBSET (Keys \ {Key(t)}) :
             local' = [j \in Keys |-> IF j = Key(t) THEN thread[t].got
                                      ELSE IF j \in evicted THEN Absent ELSE local[j]]
      BY <2>3 DEF Placed
    <3> QED
      BY <1>1, <2>1, <2>3, <3>1
  <2> QED
    BY <2>2, <2>3 DEF Admit
<1>7. ~cursor'.known => \A k \in Keys : ~Watched(local'[k])
  BY <1>1, <1>4, <1>6 DEF IInv, WatchedOK, Watched, At
<1>8. /\ Typed' /\ ThreadsOK' /\ FlightsOK' /\ CountsOK' /\ ServerOK' /\ LockOK'
      /\ AdmittingOK' /\ WatchedOK' /\ (Free' <=> Free)
      /\ thread'[t] = x /\ \A u \in Threads \ {t} : thread'[u] = thread[u]
  BY <1>1, <1>2, <1>3, <1>4, <1>5, <1>6, <1>7, ServerTypes, MoveKeeps
<1>9. ReadYourWrites'
  BY <1>1, <1>4, <1>6 DEF IInv, ReadYourWrites, AdmittingOK, At
<1>10. NoticeOK'
  <2>1. SomeOutdated' => SomeOutdated
    <3>1. ~At(t, "admitting")'
      BY <1>3, <1>8 DEF At
    <3>2. ASSUME NEW k \in Keys, Outdated(k, local'[k]) PROVE SomeOutdated
      BY <1>1, <1>6, <3>2 DEF SomeOutdated, Outdated, Watched, At
    <3> QED
      BY <1>4, <1>8, <3>1, <3>2, OutdatedKept
  <2>2. \A u \in Threads : thread'[u].step \in Marking => thread'[u] = thread[u]
    BY <1>3, <1>8 DEF Marking
  <2> QED
    BY <1>4, <1>8, <2>1, <2>2 DEF IInv, NoticeOK
<1> QED
  BY <1>8, <1>9, <1>10 DEF IInv

\* Nothing new is watched.
LEMMA WatchedKept ==
    ASSUME IInv, cursor' = cursor,
           \A k \in Keys : Watched(local'[k]) => Watched(local[k]),
           \A u \in Threads : thread'[u].step = "admitting" /\ Watched(thread'[u].got) =>
               thread[u].step = "admitting" /\ thread'[u].got = thread[u].got
    PROVE  WatchedOK'
BY DEF IInv, WatchedOK, Watched, At, Absent

\* A flight ends: its leader and its followers return.
LEMMA LeaveStep ==
    ASSUME IInv, NEW t \in Threads, Leave(t)
    PROVE  IInv'
<1>1. /\ Typed /\ ThreadOK(t) /\ thread[t].step = "leaving" /\ Key(t) \in Keys
  BY DEF IInv, ThreadsOK, ThreadOK, Leave, At
<1>2. /\ UNCHANGED <<entry, latest, lease, clock, unbumped, versions, local, cursor, current, written>>
      /\ flight' = [flight EXCEPT ![Key(t)] = None]
      /\ thread' = [u \in Threads |-> IF u = t \/ (At(u, "following") /\ Key(u) = Key(t))
                                     THEN Resting ELSE thread[u]]
  BY DEF Leave, server
<1>3. /\ thread' \in [Threads -> ThreadType] /\ flight' \in [Keys -> Threads \cup {None}]
      /\ \A u \in Threads : /\ thread'[u] \in {thread[u], Resting}
                            /\ u # t /\ thread[u].step # "following" => thread'[u] = thread[u]
  BY <1>1, <1>2, RestingType DEF Typed, At
<1>4. Typed'
  BY <1>1, <1>2, <1>3 DEF Typed
<1>5. \A u \in Threads : \A step \in {"locking", "bumping", "answered", "admitting"} \cup Marking :
         /\ At(u, step)' <=> At(u, step)
         /\ At(u, step) => thread'[u] = thread[u]
  BY <1>1, <1>3, RestingType DEF At, Marking
<1>6. ThreadsOK'
  <2> SUFFICES ASSUME NEW u \in Threads PROVE ThreadOK(u)'
    BY DEF ThreadsOK
  <2>1. CASE thread'[u] = thread[u]
    BY <1>2, <2>1 DEF IInv, ThreadsOK, ThreadOK, At, Key, NotLater
  <2>2. CASE thread'[u] = Resting
    BY <1>2, <2>2, RestingType, ServerTypes DEF ThreadOK, At, Key, NotLater, LoadSteps
  <2> QED
    BY <1>3, <2>1, <2>2
<1>7. FlightsOK'
  <2> SUFFICES ASSUME NEW k \in Keys, flight'[k] # None
               PROVE  /\ thread'[flight'[k]].key = k /\ thread'[flight'[k]].call = "load"
                      /\ thread'[flight'[k]].step \in Leading
    BY DEF FlightsOK, Key
  <2>1. k # Key(t) /\ flight'[k] = flight[k] /\ flight[k] \in Threads /\ flight[k] # None
    BY <1>1, <1>2 DEF Typed
  <2>2. /\ Key(flight[k]) = k /\ thread[flight[k]].call = "load"
        /\ thread[flight[k]].step \in Leading
    BY <2>1 DEF IInv, FlightsOK
  <2>3. thread'[flight[k]] = thread[flight[k]]
    BY <1>3, <2>1, <2>2 DEF Leading, MutationSteps
  <2> QED
    BY <2>1, <2>2, <2>3 DEF Key
<1>8. Free' <=> Free
  BY <1>5 DEF Free
<1>9. CountsOK'
  <2>1. Locking' = Locking
    BY <1>5 DEF Locking
  <2> QED
    BY <1>2, <1>8, <2>1 DEF IInv, CountsOK, NotLater
<1>10. ServerOK' /\ ReadYourWrites'
  BY <1>2 DEF IInv, ServerOK, ReadYourWrites
<1>11. LockOK'
  <2>1. \A u \in Threads : Mutating(u)' => Mutating(u) /\ thread'[u] = thread[u]
    BY <1>5 DEF Mutating, At
  <2> QED
    BY <1>2, <2>1 DEF IInv, LockOK, Key
<1>12. \A u \in current' : At(u, "admitting")' => u \in current /\ At(u, "admitting")
                                               /\ thread'[u] = thread[u]
  BY <1>1, <1>2, <1>5 DEF Typed
<1>13. AdmittingOK'
  BY <1>2, <1>12 DEF IInv, AdmittingOK, Key
<1>14. NoticeOK'
  <2>1. SomeOutdated' => SomeOutdated
    BY <1>2, <1>12 DEF SomeOutdated, Outdated, Key, Absent
  <2>2. \A u \in Threads : thread'[u].step \in Marking => thread'[u] = thread[u]
    BY <1>3, <1>5, RestingType DEF At, Marking
  <2> QED
    BY <1>2, <1>8, <2>1, <2>2 DEF IInv, NoticeOK
<1>15. WatchedOK'
  <2>1. \A u \in Threads : thread'[u].step = "admitting" => thread'[u] = thread[u]
    BY <1>1, <1>3, RestingType
  <2> QED
    BY <1>2, <2>1, WatchedKept
<1> QED
  BY <1>4, <1>6, <1>7, <1>9, <1>10, <1>11, <1>13, <1>14, <1>15 DEF IInv

----------------------------------------------------------------------------
(* The server's mutations and its clock *)

\* A mutation is the last of its key.
LEMMA MutatedKeeps ==
    ASSUME IInv, NEW k \in Keys, NEW age \in {"fresh", "none"}, Mutated(k, age),
           versions < MaxVersion, written' = written
    PROVE  /\ versions' = versions + 1 /\ versions' \in 0..MaxVersion
           /\ entry' \in [Keys -> Values] /\ latest' \in [Keys -> 0..MaxVersion]
           /\ lease' \in [Keys -> Threads \cup {None, Other}]
           /\ latest'[k] = versions + 1 /\ \A j \in Keys : latest[j] <= latest'[j]
           /\ ServerOK'
<1>1. Typed /\ versions \in Nat /\ MaxVersion \in Nat /\ Absent \in Values
      /\ \A j \in Keys : latest[j] \in Nat /\ written[j] \in Nat
  BY Numbers, RestingType DEF IInv
<1> DEFINE v == versions + 1
<1>2. v \in 0..MaxVersion /\ v \in Nat
  BY <1>1
<1>3. /\ versions' = v /\ latest' = [latest EXCEPT ![k] = v]
      /\ entry' = [entry EXCEPT ![k] = IF age = "none" THEN Absent ELSE Stored(v, age)]
      /\ lease' = [lease EXCEPT ![k] = None]
  BY DEF Mutated
<1>4. \A j \in Keys : latest[j] <= v /\ latest[j] <= versions
  BY <1>1 DEF IInv, ServerOK
<1> HIDE DEF v
<1>5. age # "none" => Stored(v, age) \in Values
  BY <1>2 DEF Stored, Values
<1>6. /\ entry' \in [Keys -> Values] /\ latest' \in [Keys -> 0..MaxVersion]
      /\ lease' \in [Keys -> Threads \cup {None, Other}]
  BY <1>1, <1>2, <1>3, <1>5 DEF Typed
<1>7. /\ latest'[k] = v /\ \A j \in Keys \ {k} : latest'[j] = latest[j] /\ entry'[j] = entry[j]
  BY <1>1, <1>3 DEF Typed
<1>8. entry'[k] # Absent => entry'[k].version = v /\ ~entry'[k].blind
  BY <1>1, <1>3 DEF Typed, Stored
<1>9. \A j \in Keys : latest[j] <= latest'[j] /\ latest'[j] <= v
  BY <1>1, <1>2, <1>4, <1>7
<1>10. ServerOK'
  <2> SUFFICES ASSUME NEW j \in Keys
               PROVE  /\ written[j] <= latest'[j] /\ latest'[j] <= v
                      /\ entry'[j] # Absent => entry'[j].version = latest'[j] /\ ~entry'[j].blind
    BY <1>3 DEF ServerOK, Absent
  <2>1. CASE j = k
    BY <1>1, <1>2, <1>4, <1>7, <1>8, <2>1 DEF IInv, ServerOK
  <2>2. CASE j # k
    BY <1>4, <1>7, <2>2 DEF IInv, ServerOK
  <2> QED
    BY <2>1, <2>2
<1> QED
  BY <1>2, <1>3, <1>6, <1>7, <1>9, <1>10 DEF v

\* What was not later than the server's clock is not the clock after it has moved.
LEMMA ClockMoves ==
    ASSUME IInv,
           \/ clock' = [epoch |-> clock.epoch, generation |-> clock.generation + 1]
           \/ clock' = [epoch |-> clock.epoch + 1, generation |-> 0]
    PROVE  \A c \in Clocks : NotLater(c) => NotLater(c)' /\ c # clock'
<1>1. clock.epoch \in Nat /\ clock.generation \in Nat
  BY Numbers DEF IInv
<1>2. \A c \in Clocks : c.epoch \in Nat /\ c.generation \in Nat
  BY BoundIsPositive DEF Clocks
<1>3. \/ clock'.epoch = clock.epoch /\ clock'.generation = clock.generation + 1
      \/ clock'.epoch = clock.epoch + 1 /\ clock'.generation = 0
  OBVIOUS
<1> QED
  BY <1>1, <1>2, <1>3 DEF NotLater

\* What the client has written itself.
LEMMA OwnValue ==
    ASSUME NEW v
    PROVE  [Stored(v, "fresh") EXCEPT !.blind = TRUE]
               = [version |-> v, age |-> "fresh", blind |-> TRUE]
<1> DEFINE a == Stored(v, "fresh")
           d == [a EXCEPT !.blind = TRUE]
<1>1. a \in [version : {v}, age : {"fresh"}, blind : BOOLEAN]
  BY DEF Stored
<1>2. d = [a EXCEPT !.blind = TRUE]
  OBVIOUS
<1> HIDE DEF a, d
<1>3. d = [version |-> v, age |-> "fresh", blind |-> TRUE]
  BY <1>1, <1>2
<1> QED
  BY <1>2, <1>3 DEF a

\* A mutation is stored: it holds the lock and the connection from now on.
LEMMA SendStep ==
    ASSUME IInv, NEW t \in Threads, Send(t), ~Refused(t)
    PROVE  IInv'
<1> DEFINE val == [version |-> versions + 1, age |-> "fresh", blind |-> TRUE]
           x == With(t, "bumping", val)
           age == IF thread[t].call = "delete" THEN "none" ELSE "fresh"
<1>1. /\ Typed /\ ThreadOK(t) /\ thread[t].step = "locking" /\ Free
      /\ \A u \in Threads : ~Mutating(u)
  BY DEF IInv, ThreadsOK, Send, Sent, At, Mutating, Free
<1>2. Key(t) \in Keys /\ age \in {"fresh", "none"}
  BY <1>1 DEF ThreadOK, At
<1>3. /\ Mutated(Key(t), age) /\ UNCHANGED <<clock, unbumped, client>>
      /\ thread' = [thread EXCEPT ![t] =
              With(t, "bumping", [Stored(versions', "fresh") EXCEPT !.blind = TRUE])]
  BY DEF Send, Sent
<1>4. versions' = versions + 1
  BY <1>3 DEF Mutated
<1>5. [Stored(versions', "fresh") EXCEPT !.blind = TRUE] = val
  BY <1>4, OwnValue
<1>6. thread' = [thread EXCEPT ![t] = x]
  BY <1>3, <1>5
<1>7. UNCHANGED <<local, cursor, current, flight, written, clock, unbumped>>
  BY <1>3 DEF client
<1>8. /\ versions \in Nat /\ MaxVersion \in Nat /\ unbumped \in Nat
      /\ clock.generation \in Nat /\ clock.epoch \in Nat
      /\ \A k \in Keys : latest[k] \in Nat /\ written[k] \in Nat
  BY Numbers DEF IInv
<1>9. /\ x = [step |-> "bumping", key |-> Key(t), call |-> thread[t].call,
               seen |-> thread[t].seen, got |-> val]
      /\ versions < MaxVersion /\ x \in ThreadType /\ val \in Values
  <2>1. t \in Locking /\ IsFiniteSet(Locking) /\ Locking # {}
    BY <1>1, ThreadsAreFinite, FS_Subset DEF Locking, At
  <2>2. Cardinality(Locking) \in Nat /\ Cardinality(Locking) # 0
    BY <2>1, FS_CardinalityType, FS_EmptySet
  <2>3. versions < MaxVersion
    BY <1>8, <2>2 DEF IInv, CountsOK
  <2>4. val \in Values /\ "bumping" \in Steps
    BY <1>8, <2>3 DEF Values, Steps, MutationSteps
  <2> HIDE DEF val
  <2> QED
    BY <1>1, <2>3, <2>4, WithType
<1>10. /\ versions' \in 0..MaxVersion
       /\ entry' \in [Keys -> Values] /\ latest' \in [Keys -> 0..MaxVersion]
       /\ lease' \in [Keys -> Threads \cup {None, Other}]
       /\ latest'[Key(t)] = versions + 1 /\ \A j \in Keys : latest[j] <= latest'[j]
       /\ ServerOK'
  BY <1>2, <1>3, <1>7, <1>9, MutatedKeeps
<1> HIDE DEF x, age
<1>11. /\ thread' \in [Threads -> ThreadType] /\ thread'[t] = x
       /\ \A u \in Threads \ {t} : thread'[u] = thread[u]
  BY <1>1, <1>6, <1>9 DEF Typed
<1>12. /\ x.step = "bumping" /\ x.key = Key(t) /\ x.call = thread[t].call
       /\ x.seen = thread[t].seen /\ x.got = val
       /\ x.got.blind /\ x.got.version = versions + 1
  BY <1>9
<1> HIDE DEF val
<1>13. Typed'
  BY <1>1, <1>7, <1>10, <1>11 DEF Typed
<1>14. ThreadsOK'
  <2>1. ASSUME NEW u \in Threads \ {t} PROVE ThreadOK(u)'
    BY <1>7, <1>11 DEF IInv, ThreadsOK, ThreadOK, At, Key, NotLater
  <2>2. ThreadOK(t)'
    BY <1>1, <1>2, <1>7, <1>11, <1>12 DEF ThreadOK, At, Key, NotLater, LoadSteps
  <2> QED
    BY <2>1, <2>2 DEF ThreadsOK
<1>15. FlightsOK'
  <2> SUFFICES ASSUME NEW k \in Keys, flight[k] # None
               PROVE  /\ thread'[flight[k]].key = k /\ thread'[flight[k]].call = "load"
                      /\ thread'[flight[k]].step \in Leading
    BY <1>7 DEF FlightsOK, Key
  <2>1. /\ thread[flight[k]].key = k /\ thread[flight[k]].call = "load"
        /\ thread[flight[k]].step \in Leading /\ flight[k] \in Threads
    BY <1>1 DEF IInv, FlightsOK, Key, Typed
  <2> QED
    BY <1>11, <1>12, <2>1 DEF Leading, MutationSteps, Key
<1>16. ~Free'
  BY <1>11, <1>12 DEF Free, At
<1>17. CountsOK'
  <2>1. Cardinality(Locking) \in Nat /\ Cardinality(Locking') = Cardinality(Locking) - 1
    <3>1. At(t, "locking") /\ ~At(t, "locking")'
      BY <1>1, <1>11, <1>12 DEF At
    <3>2. \A u \in Threads \ {t} : thread'[u].step = thread[u].step
      BY <1>11
    <3> QED
      BY <1>1, <3>1, <3>2, LockingCount
  <2>2. versions' + Cardinality(Locking') <= MaxVersion
    BY <1>4, <1>8, <2>1 DEF IInv, CountsOK
  <2>3. clock.generation + unbumped <= versions
    BY <1>1, <1>8 DEF IInv, CountsOK
  <2>4. clock'.generation + unbumped' + (IF Free' THEN 0 ELSE 1) <= versions'
    BY <1>4, <1>7, <1>8, <1>16, <2>3
  <2>5. /\ clock'.epoch > 0 /\ clock'.epoch <= versions' + 1 /\ NotLater(cursor.count)'
    BY <1>4, <1>7, <1>8 DEF IInv, CountsOK, NotLater
  <2> QED
    BY <2>2, <2>4, <2>5 DEF CountsOK
<1>18. LockOK'
  <2>1. \A u \in Threads : Mutating(u)' => u = t
    BY <1>1, <1>11 DEF Mutating
  <2>2. /\ thread'[t].got.blind /\ thread'[t].got.version <= latest'[Key(t)']
        /\ \A k \in Keys : written'[k] <= thread'[t].got.version
    <3>1. \A k \in Keys : written[k] <= versions + 1
      BY <1>8 DEF IInv, ServerOK
    <3> QED
      BY <1>7, <1>8, <1>10, <1>11, <1>12, <3>1 DEF Key
  <2> QED
    BY <2>1, <2>2 DEF LockOK
<1>19. AdmittingOK'
  <2>1. \A u \in current' : At(u, "admitting")' => u \in current /\ At(u, "admitting")
                                                 /\ thread'[u] = thread[u]
    BY <1>1, <1>7, <1>11, <1>12 DEF Typed, At
  <2> QED
    BY <1>7, <2>1 DEF IInv, AdmittingOK, Key, Absent
<1>20. NoticeOK'
  BY <1>16 DEF NoticeOK
<1>21. ReadYourWrites'
  BY <1>7 DEF IInv, ReadYourWrites, Absent
<1>22. WatchedOK'
  <2>1. \A u \in Threads : thread'[u].step = "admitting" => thread'[u] = thread[u]
    BY <1>11, <1>12
  <2> QED
    BY <1>7, <2>1, WatchedKept
<1> QED
  BY <1>10, <1>13, <1>14, <1>15, <1>17, <1>18, <1>19, <1>20, <1>21, <1>22 DEF IInv

\* What becomes of a thread whose command fails.
LEMMA FailedType ==
    ASSUME Typed, NEW t \in Threads, ThreadOK(t), thread[t].step \in MutationSteps
    PROVE  /\ Failed(t) \in ThreadType /\ Failed(t).step \in {"leaving", "idle"}
           /\ Failed(t).step # "idle" => Failed(t).key \in Keys
           /\ Failed(t).step = "leaving" => Failed(t).call = "load"
           /\ Failed(t).call = "load" => thread[t].call = "load"
           /\ Failed(t).seen \in {thread[t].seen, NoClock}
           /\ thread[t].call = "load" =>
                 Failed(t).key = Key(t) /\ Failed(t).call = "load" /\ Failed(t).step = "leaving"
<1>1. CASE thread[t].call = "load"
  <2> DEFINE x == With(t, "leaving", Absent)
  <2>1. Absent \in Values /\ "leaving" \in Steps /\ Key(t) \in Keys
    BY RestingType DEF Steps, LoadSteps, ThreadOK, At, MutationSteps
  <2>2. /\ x \in ThreadType
        /\ x = [step |-> "leaving", key |-> Key(t), call |-> thread[t].call,
                seen |-> thread[t].seen, got |-> Absent]
    BY <2>1, WithType
  <2>3. Failed(t) = x
    BY <1>1 DEF Failed
  <2> HIDE DEF x
  <2> QED
    BY <1>1, <2>1, <2>2, <2>3
<1>2. CASE thread[t].call # "load"
  <2>1. Failed(t) = Resting
    BY <1>2 DEF Failed
  <2> QED
    BY <1>2, <2>1, RestingType
<1> QED
  BY <1>1, <1>2

\* The server has counted a mutation.
LEMMA BumpedClock ==
    ASSUME IInv, Bumped
    PROVE  clock' = [epoch |-> clock.epoch, generation |-> clock.generation + 1]
BY DEF Bumped, IInv, Typed, Clocks

\* A mutation is counted.  Whatever it has made outdated was read before, and the
\* cursor, like every poll under way, is older than the new count.
LEMMA BumpStep ==
    ASSUME IInv, NEW t \in Threads, Bump(t)
    PROVE  IInv'
<1> DEFINE x == IF thread' = [thread EXCEPT ![t] = Failed(t)] THEN Failed(t)
                ELSE After(t, "answered")
<1>1. /\ Typed /\ ThreadOK(t) /\ thread[t].step = "bumping" /\ Mutating(t) /\ ~Free
      /\ Key(t) \in Keys /\ \A u \in Threads \ {t} : ~Mutating(u)
  BY DEF IInv, ThreadsOK, ThreadOK, Bump, At, Free, LockOK, Mutating
<1>2. /\ UNCHANGED <<entry, latest, lease, unbumped, versions, local, cursor, current,
                     flight, written>>
      /\ clock' = [epoch |-> clock.epoch, generation |-> clock.generation + 1]
  BY BumpedClock DEF Bump
<1>3. /\ x \in ThreadType /\ thread' = [thread EXCEPT ![t] = x]
      /\ x.step \in {"leaving", "idle", "answered"}
      /\ x.step # "idle" => x.key \in Keys
      /\ x.step = "leaving" => x.call = "load"
      /\ x.call = "load" => thread[t].call = "load"
      /\ x.seen \in {thread[t].seen, NoClock}
      /\ thread[t].call = "load" => x.key = Key(t) /\ x.call = "load" /\ x.step # "idle"
      /\ x.step = "answered" => x.got = thread[t].got /\ x.key = Key(t)
  <2>1. CASE thread' = [thread EXCEPT ![t] = Failed(t)]
    BY <1>1, <2>1, FailedType DEF MutationSteps
  <2>2. CASE thread' # [thread EXCEPT ![t] = Failed(t)]
    <3>1. thread' = [thread EXCEPT ![t].step = "answered"]
      BY <2>2 DEF Bump, Goto
    <3>2. "answered" \in Steps /\ x = After(t, "answered")
      BY <2>2 DEF Steps, MutationSteps
    <3> HIDE DEF x
    <3> QED
      BY <1>1, <3>1, <3>2, AfterType
  <2> QED
    BY <2>1, <2>2
<1> HIDE DEF x
<1>4. /\ thread' \in [Threads -> ThreadType] /\ thread'[t] = x
      /\ \A u \in Threads \ {t} : thread'[u] = thread[u]
  BY <1>1, <1>3 DEF Typed
<1>5. /\ versions \in Nat /\ MaxVersion \in Nat /\ unbumped \in Nat
      /\ clock.generation \in Nat /\ clock.epoch \in Nat
      /\ clock.generation + unbumped + 1 <= versions /\ versions <= MaxVersion
      /\ clock.epoch > 0 /\ clock.epoch <= versions + 1
  <2>1. clock.generation + unbumped + 1 <= versions
    BY <1>1, Numbers DEF IInv, CountsOK
  <2> QED
    BY <1>1, <2>1, Numbers DEF IInv, CountsOK, Typed
<1>6. clock' \in Clocks
  BY <1>2, <1>5 DEF Clocks
<1>7. \A c \in Clocks : NotLater(c) => NotLater(c)' /\ c # clock'
  BY <1>2, ClockMoves
<1>8. Typed'
  BY <1>1, <1>2, <1>4, <1>6 DEF Typed
<1>9. /\ cursor.count \in Clocks /\ NotLater(cursor.count) /\ NotLater(NoClock) /\ NoClock \in Clocks
      /\ \A u \in Threads : thread[u].seen \in Clocks /\ NotLater(thread[u].seen)
  BY <1>1, ServerTypes, RestingType DEF IInv, CountsOK, Typed, ThreadsOK, ThreadOK, ThreadType
<1>10. \A u \in Threads : NotLater(thread[u].seen)' /\ thread'[u].seen # clock'
  <2> SUFFICES ASSUME NEW u \in Threads PROVE NotLater(thread[u].seen)' /\ thread'[u].seen # clock'
    OBVIOUS
  <2>1. thread'[u].seen \in {thread[u].seen, NoClock}
    BY <1>3, <1>4
  <2>2. NotLater(thread[u].seen) /\ thread[u].seen \in Clocks
    BY <1>9
  <2>3. \A c \in Clocks : NotLater(c) =>
          /\ c # clock'
          /\ \/ c.epoch < clock'.epoch
             \/ c.epoch = clock'.epoch /\ c.generation <= clock'.generation
    BY <1>7 DEF NotLater
  <2> QED
    BY <1>9, <2>1, <2>2, <2>3 DEF NotLater
<1>11. ThreadsOK'
  <2>1. ASSUME NEW u \in Threads \ {t} PROVE ThreadOK(u)'
    BY <1>2, <1>4, <1>10 DEF IInv, ThreadsOK, ThreadOK, At, Key
  <2>2. ThreadOK(t)'
    BY <1>2, <1>3, <1>4, <1>10 DEF ThreadOK, At, Key, LoadSteps
  <2> QED
    BY <2>1, <2>2 DEF ThreadsOK
<1>12. FlightsOK'
  <2> SUFFICES ASSUME NEW k \in Keys, flight[k] # None
               PROVE  /\ thread'[flight[k]].key = k /\ thread'[flight[k]].call = "load"
                      /\ thread'[flight[k]].step \in Leading
    BY <1>2 DEF FlightsOK, Key
  <2>1. /\ thread[flight[k]].key = k /\ thread[flight[k]].call = "load"
        /\ thread[flight[k]].step \in Leading /\ flight[k] \in Threads
    BY <1>1 DEF IInv, FlightsOK, Key, Typed
  <2> QED
    BY <1>3, <1>4, <2>1 DEF Leading, MutationSteps, Key
<1>13. Free'
  BY <1>1, <1>3, <1>4 DEF Free, At, Mutating
<1>14. CountsOK'
  <2>1. Cardinality(Locking') = Cardinality(Locking)
    <3>1. ~At(t, "locking") /\ ~At(t, "locking")'
      BY <1>1, <1>3, <1>4 DEF At
    <3>2. \A u \in Threads \ {t} : thread'[u].step = thread[u].step
      BY <1>4
    <3> QED
      BY <1>1, <3>1, <3>2, LockingCount
  <2>2. versions' + Cardinality(Locking') <= MaxVersion
    BY <1>2, <2>1 DEF IInv, CountsOK
  <2>3. clock'.generation + unbumped' + (IF Free' THEN 0 ELSE 1) <= versions'
    BY <1>2, <1>5, <1>13
  <2>4. clock'.epoch > 0 /\ clock'.epoch <= versions' + 1
    BY <1>2, <1>5
  <2>5. NotLater(cursor.count)'
    BY <1>2, <1>7, <1>9 DEF NotLater
  <2> QED
    BY <2>2, <2>3, <2>4, <2>5 DEF CountsOK
<1>15. ServerOK' /\ ReadYourWrites'
  BY <1>2 DEF IInv, ServerOK, ReadYourWrites, Absent
<1>16. LockOK'
  <2>1. \A u \in Threads : Mutating(u)' => u = t
    BY <1>1, <1>4 DEF Mutating
  <2>2. Mutating(t)' => x.step = "answered"
    BY <1>3, <1>4 DEF Mutating
  <2>3. /\ thread[t].got.blind /\ thread[t].got.version <= latest[Key(t)]
        /\ \A k \in Keys : written[k] <= thread[t].got.version
    BY <1>1 DEF IInv, LockOK
  <2>4. Mutating(t)' =>
          /\ thread'[t].got.blind /\ thread'[t].got.version <= latest'[Key(t)']
          /\ \A k \in Keys : written'[k] <= thread'[t].got.version
    BY <1>2, <1>3, <1>4, <2>2, <2>3 DEF Key
  <2> QED
    BY <2>1, <2>4 DEF LockOK
<1>17. AdmittingOK'
  <2>1. \A u \in current' : At(u, "admitting")' => u \in current /\ At(u, "admitting")
                                                 /\ thread'[u] = thread[u]
    BY <1>1, <1>2, <1>3, <1>4 DEF Typed, At
  <2> QED
    BY <1>2, <2>1 DEF IInv, AdmittingOK, Key, Absent
<1>18. NoticeOK'
  BY <1>2, <1>7, <1>9, <1>10 DEF NoticeOK
<1>19. WatchedOK'
  <2>1. \A u \in Threads : thread'[u].step = "admitting" => thread'[u] = thread[u]
    BY <1>3, <1>4
  <2> QED
    BY <1>2, <2>1, WatchedKept
<1> QED
  BY <1>8, <1>11, <1>12, <1>14, <1>15, <1>16, <1>17, <1>18, <1>19 DEF IInv

\* The greater of two numbers.
LEMMA MaxOfTwo ==
    ASSUME NEW a \in Nat, NEW b \in Nat, a <= b
    PROVE  Max({a, b}) = b
<1>1. \A x \in {a, b} : (\A y \in {a, b} : x >= y) => x = b
  OBVIOUS
<1>2. b \in {a, b} /\ \A y \in {a, b} : b >= y
  OBVIOUS
<1> QED
  BY <1>1, <1>2 DEF Max

\* _mutation_succeeded: L1 is empty, and what is admitted next is the client's own.
LEMMA SucceedStep ==
    ASSUME IInv, NEW t \in Threads, Succeed(t)
    PROVE  IInv'
<1> DEFINE load == thread[t].call = "load"
           x == IF load THEN After(t, "admitting") ELSE Resting
           v == thread[t].got.version
<1>1. /\ Typed /\ ThreadOK(t) /\ thread[t].step = "answered" /\ Mutating(t)
      /\ Key(t) \in Keys /\ \A u \in Threads \ {t} : ~Mutating(u)
      /\ thread[t].got.blind /\ v <= latest[Key(t)] /\ \A k \in Keys : written[k] <= v
      /\ v \in 0..MaxVersion
  <2>1. v \in 0..MaxVersion
    BY DEF IInv, Typed, ThreadType, Values
  <2> QED
    BY <2>1 DEF IInv, ThreadsOK, ThreadOK, Succeed, At, LockOK, Mutating
<1>2. /\ UNCHANGED <<entry, latest, lease, clock, unbumped, versions, cursor, flight>>
      /\ local' = [k \in Keys |-> Absent]
      /\ current' = IF load THEN {t} ELSE {}
  BY DEF Succeed, server
<1>3. v \in Nat /\ \A k \in Keys : written[k] \in Nat
  BY Numbers DEF IInv
<1>4. written' = [written EXCEPT ![Key(t)] = v]
  <2>1. written \in [Keys -> 0..MaxVersion] /\ written[Key(t)] <= v /\ written[Key(t)] \in Nat
    BY <1>1, <1>3 DEF Typed
  <2>2. Max({written[Key(t)], v}) = v
    BY <1>3, <2>1, MaxOfTwo
  <2>3. written' = [written EXCEPT ![Key(t)] = Max({written[Key(t)], v})]
    BY DEF Succeed
  <2> QED
    BY <2>2, <2>3
<1>5. /\ x \in ThreadType /\ thread' = [thread EXCEPT ![t] = x]
      /\ x.seen \in {thread[t].seen, NoClock}
      /\ load => /\ x.step = "admitting" /\ x.key = Key(t) /\ x.call = "load"
                 /\ x.got = thread[t].got
      /\ ~load => x.step = "idle" /\ x.call = "none"
  <2>1. CASE load
    <3>1. thread' = [thread EXCEPT ![t].step = "admitting"] /\ "admitting" \in Steps
      BY <2>1 DEF Succeed, Goto, Steps, LoadSteps
    <3>2. x = After(t, "admitting") /\ thread[t].call = "load"
      BY <2>1
    <3> HIDE DEF x
    <3> QED
      BY <1>1, <3>1, <3>2, AfterType
  <2>2. CASE ~load
    BY <2>2, RestingType DEF Succeed
  <2> QED
    BY <2>1, <2>2
<1> HIDE DEF x
<1>6. /\ thread' \in [Threads -> ThreadType] /\ thread'[t] = x
      /\ \A u \in Threads \ {t} : thread'[u] = thread[u]
  BY <1>1, <1>5 DEF Typed
<1>7. /\ local' \in [Keys -> Values] /\ written' \in [Keys -> 0..MaxVersion]
      /\ \A k \in Keys : local'[k] = Absent
  BY <1>1, <1>2, <1>4, RestingType DEF Typed
<1>8. Typed'
  BY <1>1, <1>2, <1>6, <1>7 DEF Typed
<1>9. ThreadsOK'
  <2>1. ASSUME NEW u \in Threads \ {t} PROVE ThreadOK(u)'
    BY <1>2, <1>6 DEF IInv, ThreadsOK, ThreadOK, At, Key, NotLater
  <2>2. NotLater(thread[t].seen) /\ NotLater(NoClock)
    BY <1>1, ServerTypes DEF ThreadOK
  <2>3. NotLater(thread[t].seen)'
    BY <1>2, <1>5, <1>6, <2>2 DEF NotLater
  <2>4. ThreadOK(t)'
    BY <1>1, <1>2, <1>5, <1>6, <2>3 DEF ThreadOK, At, Key, LoadSteps
  <2> QED
    BY <2>1, <2>4 DEF ThreadsOK
<1>10. FlightsOK'
  <2> SUFFICES ASSUME NEW k \in Keys, flight[k] # None
               PROVE  /\ thread'[flight[k]].key = k /\ thread'[flight[k]].call = "load"
                      /\ thread'[flight[k]].step \in Leading
    BY <1>2 DEF FlightsOK, Key
  <2>1. /\ thread[flight[k]].key = k /\ thread[flight[k]].call = "load"
        /\ thread[flight[k]].step \in Leading /\ flight[k] \in Threads
    BY <1>1 DEF IInv, FlightsOK, Key, Typed
  <2> QED
    BY <1>5, <1>6, <2>1 DEF Leading, MutationSteps, Key
<1>11. Free' /\ Free
  BY <1>1, <1>5, <1>6 DEF Free, At, Mutating
<1>12. CountsOK'
  <2>1. Cardinality(Locking') = Cardinality(Locking)
    <3>1. ~At(t, "locking") /\ ~At(t, "locking")'
      BY <1>1, <1>5, <1>6 DEF At
    <3>2. \A u \in Threads \ {t} : thread'[u].step = thread[u].step
      BY <1>6
    <3> QED
      BY <1>1, <3>1, <3>2, LockingCount
  <2>2. versions' + Cardinality(Locking') <= MaxVersion
    BY <1>2, <2>1 DEF IInv, CountsOK
  <2>3. /\ clock'.generation + unbumped' + (IF Free' THEN 0 ELSE 1) <= versions'
        /\ clock'.epoch > 0 /\ clock'.epoch <= versions' + 1 /\ NotLater(cursor.count)'
    BY <1>2, <1>11 DEF IInv, CountsOK, NotLater
  <2> QED
    BY <2>2, <2>3 DEF CountsOK
<1>13. ServerOK'
  <2>1. \A k \in Keys : written'[k] <= latest[k]
    BY <1>1, <1>4 DEF IInv, ServerOK, Typed
  <2> QED
    BY <1>2, <2>1 DEF IInv, ServerOK, Absent
<1>14. LockOK'
  <2>1. \A u \in Threads : ~Mutating(u)'
    BY <1>1, <1>5, <1>6 DEF Mutating
  <2> QED
    BY <2>1 DEF LockOK
<1>15. AdmittingOK'
  <2> SUFFICES ASSUME NEW u \in current'
               PROVE  thread'[u].got.version >= written'[thread'[u].key]
    BY DEF AdmittingOK, Key
  <2>1. u = t /\ load
    BY <1>2
  <2> QED
    BY <1>1, <1>3, <1>4, <1>5, <1>6, <2>1 DEF Typed
<1>16. NoticeOK'
  <2>1. \A k \in Keys : ~Outdated(k, local[k])'
    BY <1>7 DEF Outdated, Watched, Absent
  <2>2. \A u \in current' : ~Outdated(Key(u), thread[u].got)'
    <3> SUFFICES ASSUME NEW u \in current' PROVE thread'[u].got.blind
      BY DEF Outdated, Watched
    <3> QED
      BY <1>1, <1>2, <1>5, <1>6
  <2> QED
    BY <2>1, <2>2 DEF NoticeOK, SomeOutdated
<1>17. ReadYourWrites'
  BY <1>7 DEF ReadYourWrites, Absent
<1>18. WatchedOK'
  <2>1. \A u \in Threads : thread'[u].step = "admitting" /\ Watched(thread'[u].got) =>
           thread[u].step = "admitting" /\ thread'[u].got = thread[u].got
    BY <1>1, <1>4, <1>5, <1>6 DEF Watched
  <2> QED
    BY <1>2, <1>7, <2>1, WatchedKept DEF Watched
<1> QED
  BY <1>8, <1>9, <1>10, <1>12, <1>13, <1>14, <1>15, <1>16, <1>17, <1>18 DEF IInv

----------------------------------------------------------------------------
(* Others, and time *)

\* Leases and ages: nobody knows less than before.
LEMMA StillStep ==
    ASSUME IInv, UNCHANGED <<latest, clock, unbumped, versions, cursor, current, flight,
                             thread, written>>,
           entry' \in [Keys -> Values], local' \in [Keys -> Values],
           lease' \in [Keys -> Threads \cup {None, Other}],
           \A k \in Keys : entry'[k] # Absent =>
               /\ entry[k] # Absent /\ entry'[k].version = entry[k].version
               /\ entry'[k].blind = entry[k].blind,
           \A k \in Keys : local'[k] # Absent =>
               /\ local[k] # Absent /\ local'[k].version = local[k].version
               /\ local'[k].blind = local[k].blind
    PROVE  IInv'
<1>1. Typed'
  BY DEF IInv, Typed
<1>2. ThreadsOK' /\ FlightsOK' /\ LockOK' /\ AdmittingOK'
  BY DEF IInv, ThreadsOK, ThreadOK, FlightsOK, LockOK, AdmittingOK, Mutating, At, Key, NotLater,
         Absent
<1>3. Free' = Free /\ Locking' = Locking
  BY DEF Free, Locking, At
<1>4. CountsOK'
  BY <1>3 DEF IInv, CountsOK, NotLater
<1>5. ServerOK'
  BY DEF IInv, ServerOK, Absent
<1>6. ReadYourWrites'
  BY DEF IInv, ReadYourWrites, Absent
<1>7. SomeOutdated' => SomeOutdated
  <2>1. \A k \in Keys : Outdated(k, local[k])' => Outdated(k, local[k])
    BY DEF Outdated, Watched, Absent
  <2>2. \A u \in current : At(u, "admitting")' /\ Outdated(Key(u), thread[u].got)' =>
           At(u, "admitting") /\ Outdated(Key(u), thread[u].got)
    BY DEF Outdated, Watched, Absent, At, Key
  <2> QED
    BY <2>1, <2>2 DEF SomeOutdated
<1>8. NoticeOK'
  BY <1>3, <1>7 DEF IInv, NoticeOK, At
<1>9. WatchedOK'
  BY WatchedKept DEF Watched
<1> QED
  BY <1>1, <1>2, <1>4, <1>5, <1>6, <1>8, <1>9 DEF IInv

\* What is older is the same value or none.
LEMMA OlderType ==
    ASSUME NEW e \in Values
    PROVE  /\ Older(e) \in Values
           /\ Older(e) # Absent =>
                 e # Absent /\ Older(e).version = e.version /\ Older(e).blind = e.blind
<1>1. CASE e.age = "fresh"
  <2> DEFINE d == [e EXCEPT !.age = "stale"]
  <2>1. d = [e EXCEPT !.age = "stale"] /\ Older(e) = d
    BY <1>1 DEF Older
  <2> HIDE DEF d
  <2>2. d = [version |-> e.version, age |-> "stale", blind |-> e.blind]
    BY <2>1 DEF Values
  <2>3. d \in Values
    BY <2>2 DEF Values
  <2> QED
    BY <1>1, <2>1, <2>2, <2>3, RestingType
<1>2. CASE e.age # "fresh"
  BY <1>2, RestingType DEF Older
<1> QED
  BY <1>1, <1>2

\* Leases of others, leases that expire, and entries that age.
LEMMA AgeStep ==
    ASSUME IInv, NEW k \in Keys
    PROVE  /\ OtherLeases(k) => IInv'
           /\ LeaseExpires(k) => IInv'
           /\ Ages(k) => IInv'
           /\ LocalAges(k) => IInv'
<1>1. /\ entry \in [Keys -> Values] /\ local \in [Keys -> Values]
      /\ lease \in [Keys -> Threads \cup {None, Other}]
  BY DEF IInv, Typed
<1>2. ASSUME OtherLeases(k) PROVE IInv'
  <2>1. /\ UNCHANGED <<latest, clock, unbumped, versions, cursor, current, flight, thread,
                       written, entry, local>>
        /\ lease' \in [Keys -> Threads \cup {None, Other}]
    BY <1>1, <1>2 DEF OtherLeases, client
  <2> QED
    BY <1>1, <2>1, StillStep
<1>3. ASSUME LeaseExpires(k) PROVE IInv'
  <2>1. /\ UNCHANGED <<latest, clock, unbumped, versions, cursor, current, flight, thread,
                       written, entry, local>>
        /\ lease' \in [Keys -> Threads \cup {None, Other}]
    BY <1>1, <1>3 DEF LeaseExpires, client
  <2> QED
    BY <1>1, <2>1, StillStep
<1>4. ASSUME Ages(k) PROVE IInv'
  <2>1. /\ UNCHANGED <<latest, clock, unbumped, versions, cursor, current, flight, thread,
                       written, lease, local>>
        /\ entry' = [entry EXCEPT ![k] = Older(entry[k])]
    BY <1>4 DEF Ages, client
  <2>2. /\ Older(entry[k]) \in Values
        /\ Older(entry[k]) # Absent => /\ entry[k] # Absent
              /\ Older(entry[k]).version = entry[k].version
              /\ Older(entry[k]).blind = entry[k].blind
    BY <1>1, OlderType
  <2>3. /\ entry' \in [Keys -> Values]
        /\ \A j \in Keys : entry'[j] # Absent =>
               /\ entry[j] # Absent /\ entry'[j].version = entry[j].version
               /\ entry'[j].blind = entry[j].blind
    BY <1>1, <2>1, <2>2
  <2> QED
    BY <1>1, <2>1, <2>3, StillStep
<1>5. ASSUME LocalAges(k) PROVE IInv'
  <2>1. /\ UNCHANGED <<latest, clock, unbumped, versions, cursor, current, flight, thread,
                       written, lease, entry>>
        /\ local' = [local EXCEPT ![k] = Older(local[k])]
    BY <1>5 DEF LocalAges, server
  <2>2. /\ Older(local[k]) \in Values
        /\ Older(local[k]) # Absent => /\ local[k] # Absent
              /\ Older(local[k]).version = local[k].version
              /\ Older(local[k]).blind = local[k].blind
    BY <1>1, OlderType
  <2>3. /\ local' \in [Keys -> Values]
        /\ \A j \in Keys : local'[j] # Absent =>
               /\ local[j] # Absent /\ local'[j].version = local[j].version
               /\ local'[j].blind = local[j].blind
    BY <1>1, <2>1, <2>2
  <2> QED
    BY <1>1, <2>1, <2>3, StillStep
<1> QED
  BY <1>2, <1>3, <1>4, <1>5

\* There is room for one more mutation, whoever is about to lock.
LEMMA RoomLeft ==
    ASSUME IInv, Room
    PROVE  /\ versions < MaxVersion /\ Cardinality(Locking) \in Nat
           /\ versions + 1 + Cardinality(Locking) <= MaxVersion
<1>1. IsFiniteSet(Locking)
  BY ThreadsAreFinite, FS_Subset DEF Locking
<1>2. Cardinality(Locking) \in Nat
  BY <1>1, FS_CardinalityType
<1>3. versions \in Nat /\ MaxVersion \in Nat
  BY Numbers DEF IInv
<1>4. versions + Cardinality(Locking) < MaxVersion
  BY DEF Room, Locking
<1> QED
  BY <1>2, <1>3, <1>4

\* Somebody else's mutation is stored, and not counted yet.
LEMMA OtherChangesStep ==
    ASSUME IInv, NEW k \in Keys, NEW age \in {"fresh", "none"}, OtherChanges(k, age)
    PROVE  IInv'
<1>1. /\ Mutated(k, age) /\ UNCHANGED <<clock, local, cursor, current, flight, written, thread>>
      /\ unbumped' = unbumped + 1 /\ Room
  BY DEF OtherChanges, client
<1>2. /\ versions < MaxVersion /\ Cardinality(Locking) \in Nat
      /\ versions + 1 + Cardinality(Locking) <= MaxVersion
  BY <1>1, RoomLeft
<1>3. /\ versions' = versions + 1 /\ versions' \in 0..MaxVersion
      /\ entry' \in [Keys -> Values] /\ latest' \in [Keys -> 0..MaxVersion]
      /\ lease' \in [Keys -> Threads \cup {None, Other}]
      /\ \A j \in Keys : latest[j] <= latest'[j]
      /\ ServerOK'
  BY <1>1, <1>2, MutatedKeeps
<1>4. /\ versions \in Nat /\ MaxVersion \in Nat /\ unbumped \in Nat
      /\ clock.generation \in Nat /\ clock.epoch \in Nat
      /\ \A j \in Keys : latest[j] \in Nat
      /\ \A t \in Threads : thread[t].got.version \in Nat
  BY Numbers DEF IInv
<1>5. clock.generation + unbumped + (IF Free THEN 0 ELSE 1) <= versions
  BY DEF IInv, CountsOK
<1>6. unbumped' \in 0..MaxVersion /\ unbumped' # 0
  <2>1. unbumped <= versions
    BY <1>4, <1>5
  <2> QED
    BY <1>1, <1>2, <1>4, <2>1
<1>7. \A j \in Keys : latest'[j] \in Nat
  BY <1>3, <1>4
<1>8. Typed'
  BY <1>1, <1>3, <1>6 DEF IInv, Typed
<1>9. ThreadsOK' /\ FlightsOK' /\ AdmittingOK'
  BY <1>1 DEF IInv, ThreadsOK, ThreadOK, FlightsOK, AdmittingOK, At, Key, NotLater, Absent
<1>10. Free' = Free /\ Locking' = Locking
  BY <1>1 DEF Free, Locking, At
<1>11. CountsOK'
  <2>1. versions' + Cardinality(Locking') <= MaxVersion
    BY <1>2, <1>3, <1>10
  <2>2. clock'.generation + unbumped' + (IF Free' THEN 0 ELSE 1) <= versions'
    BY <1>1, <1>3, <1>4, <1>5, <1>10
  <2>3. clock'.epoch > 0 /\ clock'.epoch <= versions' + 1
    BY <1>1, <1>3, <1>4 DEF IInv, CountsOK
  <2> QED
    BY <1>1, <2>1, <2>2, <2>3 DEF IInv, CountsOK, NotLater
<1>12. LockOK'
  <2>1. \A t \in Threads : Mutating(t) => Key(t) \in Keys
    BY DEF IInv, ThreadsOK, ThreadOK, Mutating, At
  <2>2. \A t \in Threads : Mutating(t) => thread[t].got.version <= latest'[Key(t)]
    BY <1>3, <1>4, <1>7, <2>1 DEF IInv, LockOK
  <2> QED
    BY <1>1, <2>2 DEF IInv, LockOK, Mutating, Key
<1>13. NoticeOK'
  BY <1>6 DEF NoticeOK
<1>14. ReadYourWrites'
  BY <1>1 DEF IInv, ReadYourWrites, Absent
<1>15. WatchedOK'
  BY <1>1, WatchedKept
<1> QED
  BY <1>3, <1>8, <1>9, <1>11, <1>12, <1>13, <1>14, <1>15 DEF IInv

\* Somebody else's mutation is counted.
LEMMA OtherBumpsStep ==
    ASSUME IInv, OtherBumps
    PROVE  IInv'
<1>1. /\ UNCHANGED <<entry, latest, lease, versions, local, cursor, current, flight, written,
                     thread>>
      /\ clock' = [epoch |-> clock.epoch, generation |-> clock.generation + 1]
      /\ unbumped > 0 /\ unbumped' = unbumped - 1
  BY BumpedClock DEF OtherBumps, client
<1>2. /\ versions \in Nat /\ MaxVersion \in Nat /\ unbumped \in Nat
      /\ clock.generation \in Nat /\ clock.epoch \in Nat
      /\ clock.generation + unbumped + (IF Free THEN 0 ELSE 1) <= versions
      /\ versions <= MaxVersion /\ clock.epoch > 0 /\ clock.epoch <= versions + 1
      /\ unbumped <= MaxVersion
  BY Numbers DEF IInv, CountsOK, Typed
<1>3. clock' \in Clocks
  <2>1. clock.generation + 1 <= MaxVersion
    BY <1>1, <1>2
  <2> QED
    BY <1>1, <1>2, <2>1 DEF Clocks
<1>4. unbumped' \in 0..MaxVersion
  BY <1>1, <1>2
<1>5. \A c \in Clocks : NotLater(c) => NotLater(c)' /\ c # clock'
  BY <1>1, ClockMoves
<1>6. \A c \in Clocks : NotLater(c) =>
         \/ c.epoch < clock'.epoch
         \/ c.epoch = clock'.epoch /\ c.generation <= clock'.generation
  BY <1>5 DEF NotLater
<1>7. /\ cursor.count \in Clocks /\ NotLater(cursor.count)
      /\ \A u \in Threads : thread[u].seen \in Clocks /\ NotLater(thread[u].seen)
  BY ServerTypes DEF IInv, CountsOK, Typed, ThreadsOK, ThreadOK, ThreadType
<1>8. Typed'
  BY <1>1, <1>3, <1>4 DEF IInv, Typed
<1>9. ThreadsOK'
  <2> SUFFICES ASSUME NEW u \in Threads PROVE ThreadOK(u)'
    BY DEF ThreadsOK
  <2>1. NotLater(thread[u].seen)'
    BY <1>1, <1>6, <1>7 DEF NotLater
  <2> QED
    BY <1>1, <2>1 DEF IInv, ThreadsOK, ThreadOK, At, Key
<1>10. FlightsOK' /\ AdmittingOK' /\ LockOK' /\ ServerOK' /\ ReadYourWrites'
  BY <1>1 DEF IInv, FlightsOK, AdmittingOK, LockOK, ServerOK, ReadYourWrites, Mutating, At, Key, Absent
<1>11. Free' = Free /\ Locking' = Locking
  BY <1>1 DEF Free, Locking, At
<1>12. CountsOK'
  <2>1. versions' + Cardinality(Locking') <= MaxVersion
    BY <1>1, <1>11 DEF IInv, CountsOK
  <2>2. clock'.generation + unbumped' + (IF Free' THEN 0 ELSE 1) <= versions'
    BY <1>1, <1>2, <1>11
  <2>3. clock'.epoch > 0 /\ clock'.epoch <= versions' + 1
    BY <1>1, <1>2
  <2>4. NotLater(cursor.count)'
    BY <1>1, <1>6, <1>7 DEF NotLater
  <2> QED
    BY <1>1, <2>1, <2>2, <2>3, <2>4 DEF IInv, CountsOK
<1>13. NoticeOK'
  BY <1>1, <1>5, <1>7 DEF NoticeOK, At
<1>14. WatchedOK'
  BY <1>1, WatchedKept
<1> QED
  BY <1>8, <1>9, <1>10, <1>12, <1>13, <1>14 DEF IInv

\* The server starts another epoch, with nothing.
LEMMA RestartStep ==
    ASSUME IInv, Restart
    PROVE  IInv'
<1> DEFINE v == versions + 1
<1>1. /\ versions' = v /\ latest' = [k \in Keys |-> v] /\ Room /\ unbumped' = 0
      /\ clock' = [epoch |-> clock.epoch + 1, generation |-> 0]
      /\ entry' = [k \in Keys |-> Absent] /\ lease' = [k \in Keys |-> None]
      /\ thread' = [t \in Threads |-> IF At(t, "bumping") THEN Failed(t) ELSE thread[t]]
      /\ UNCHANGED <<local, cursor, current, flight, written>>
  BY DEF Restart, client
<1>2. /\ versions < MaxVersion /\ Cardinality(Locking) \in Nat
      /\ v + Cardinality(Locking) <= MaxVersion
  BY <1>1, RoomLeft
<1>3. /\ Typed /\ versions \in Nat /\ MaxVersion \in Nat
      /\ clock.epoch \in Nat /\ clock.epoch <= v /\ clock.epoch > 0
      /\ \A k \in Keys : latest[k] \in Nat /\ written[k] \in Nat
      /\ \A t \in Threads : thread[t].got.version \in Nat
  BY Numbers DEF IInv, CountsOK
<1>4. v \in 0..MaxVersion /\ v \in Nat
  BY <1>2, <1>3
<1>5. \A k \in Keys : latest[k] <= v /\ written[k] <= v
  BY <1>3 DEF IInv, ServerOK
<1> HIDE DEF v
<1>6. clock' \in Clocks
  BY <1>1, <1>3, <1>4 DEF Clocks
<1>7. \A t \in Threads : thread[t].step = "bumping" =>
         /\ thread'[t] \in ThreadType /\ thread'[t].step \in {"leaving", "idle"}
         /\ thread'[t].step # "idle" => thread'[t].key \in Keys
         /\ thread'[t].step = "leaving" => thread'[t].call = "load"
         /\ thread'[t].call = "load" => thread[t].call = "load"
         /\ thread'[t].seen \in {thread[t].seen, NoClock}
         /\ thread[t].call = "load" => /\ thread'[t].key = Key(t) /\ thread'[t].call = "load"
                                       /\ thread'[t].step = "leaving"
  <2> SUFFICES ASSUME NEW t \in Threads, thread[t].step = "bumping"
               PROVE  /\ thread'[t] \in ThreadType /\ thread'[t].step \in {"leaving", "idle"}
                      /\ thread'[t].step # "idle" => thread'[t].key \in Keys
                      /\ thread'[t].step = "leaving" => thread'[t].call = "load"
                      /\ thread'[t].call = "load" => thread[t].call = "load"
                      /\ thread'[t].seen \in {thread[t].seen, NoClock}
                      /\ thread[t].call = "load" =>
                            /\ thread'[t].key = Key(t) /\ thread'[t].call = "load"
                            /\ thread'[t].step = "leaving"
    OBVIOUS
  <2>1. thread'[t] = Failed(t)
    BY <1>1 DEF At
  <2>2. ThreadOK(t) /\ thread[t].step \in MutationSteps
    BY DEF IInv, ThreadsOK, MutationSteps
  <2> QED
    BY <1>3, <2>1, <2>2, FailedType
<1>8. \A t \in Threads : thread[t].step # "bumping" => thread'[t] = thread[t]
  BY <1>1 DEF At
<1>9. Typed'
  <2>1. \A t \in Threads : thread'[t] \in ThreadType
    BY <1>3, <1>7, <1>8 DEF Typed
  <2>2. thread' \in [Threads -> ThreadType]
    BY <1>1, <2>1
  <2>3. /\ entry' \in [Keys -> Values] /\ latest' \in [Keys -> 0..MaxVersion]
        /\ lease' \in [Keys -> Threads \cup {None, Other}]
        /\ unbumped' \in 0..MaxVersion /\ versions' \in 0..MaxVersion
    BY <1>1, <1>3, <1>4, RestingType
  <2> QED
    BY <1>1, <1>3, <1>6, <2>2, <2>3 DEF Typed
<1>10. \A c \in Clocks : NotLater(c) => NotLater(c)' /\ c # clock'
  BY <1>1, ClockMoves
<1>11. \A c \in Clocks : NotLater(c) =>
          \/ c.epoch < clock'.epoch
          \/ c.epoch = clock'.epoch /\ c.generation <= clock'.generation
  BY <1>10 DEF NotLater
<1>12. /\ cursor.count \in Clocks /\ NotLater(cursor.count) /\ NotLater(NoClock) /\ NoClock \in Clocks
       /\ \A u \in Threads : thread[u].seen \in Clocks /\ NotLater(thread[u].seen)
  BY <1>3, ServerTypes, RestingType DEF IInv, CountsOK, Typed, ThreadsOK, ThreadOK, ThreadType
<1>13. \A u \in Threads : thread'[u].seen \in {thread[u].seen, NoClock}
  BY <1>7, <1>8
<1>14. ThreadsOK'
  <2> SUFFICES ASSUME NEW u \in Threads PROVE ThreadOK(u)'
    BY DEF ThreadsOK
  <2>1. NotLater(thread[u].seen)'
    BY <1>11, <1>12, <1>13 DEF NotLater
  <2>2. ThreadOK(u)
    BY DEF IInv, ThreadsOK
  <2>3. CASE thread[u].step # "bumping"
    BY <1>1, <1>8, <2>1, <2>2, <2>3 DEF ThreadOK, At, Key
  <2>4. CASE thread[u].step = "bumping"
    BY <1>1, <1>7, <2>1, <2>2, <2>4 DEF ThreadOK, At, Key, LoadSteps
  <2> QED
    BY <2>3, <2>4
<1>15. FlightsOK'
  <2> SUFFICES ASSUME NEW k \in Keys, flight[k] # None
               PROVE  /\ thread'[flight[k]].key = k /\ thread'[flight[k]].call = "load"
                      /\ thread'[flight[k]].step \in Leading
    BY <1>1 DEF FlightsOK, Key
  <2>1. /\ thread[flight[k]].key = k /\ thread[flight[k]].call = "load"
        /\ thread[flight[k]].step \in Leading /\ flight[k] \in Threads
    BY <1>3 DEF IInv, FlightsOK, Key, Typed
  <2> QED
    BY <1>7, <1>8, <2>1 DEF Leading, MutationSteps, Key
<1>16. Free' /\ Locking' = Locking
  BY <1>7, <1>8 DEF Free, Locking, At
<1>17. CountsOK'
  <2>1. versions' + Cardinality(Locking') <= MaxVersion
    BY <1>1, <1>2, <1>16
  <2>2. clock'.generation + unbumped' + (IF Free' THEN 0 ELSE 1) <= versions'
    BY <1>1, <1>4, <1>16
  <2>3. clock'.epoch > 0 /\ clock'.epoch <= versions' + 1
    BY <1>1, <1>3, <1>4
  <2>4. NotLater(cursor.count)'
    BY <1>1, <1>11, <1>12 DEF NotLater
  <2> QED
    BY <1>1, <2>1, <2>2, <2>3, <2>4 DEF IInv, CountsOK
<1>18. ServerOK'
  BY <1>1, <1>4, <1>5 DEF ServerOK, Absent
<1>19. LockOK'
  <2>1. \A u \in Threads : Mutating(u)' => Mutating(u) /\ thread'[u] = thread[u]
    BY <1>7, <1>8 DEF Mutating
  <2>2. ASSUME NEW u \in Threads, Mutating(u)
        PROVE  Key(u) \in Keys /\ thread[u].got.version <= v
    <3>1. Key(u) \in Keys /\ thread[u].got.version <= latest[Key(u)]
      BY <2>2 DEF IInv, ThreadsOK, ThreadOK, Mutating, At, LockOK
    <3> QED
      BY <1>3, <1>4, <1>5, <3>1
  <2> QED
    BY <1>1, <2>1, <2>2 DEF IInv, LockOK, Key
<1>20. AdmittingOK'
  <2>1. \A u \in current' : At(u, "admitting")' => u \in current /\ At(u, "admitting")
                                                 /\ thread'[u] = thread[u]
    BY <1>1, <1>3, <1>7, <1>8 DEF Typed, At
  <2> QED
    BY <1>1, <2>1 DEF IInv, AdmittingOK, Key, Absent
<1>21. NoticeOK'
  <2>1. \A u \in Threads : thread'[u].seen # clock'
    BY <1>10, <1>12, <1>13
  <2> QED
    BY <1>1, <1>10, <1>12, <2>1 DEF NoticeOK
<1>22. ReadYourWrites'
  BY <1>1 DEF IInv, ReadYourWrites, Absent
<1>23. WatchedOK'
  <2>1. \A u \in Threads : thread'[u].step = "admitting" => thread'[u] = thread[u]
    BY <1>7, <1>8
  <2> QED
    BY <1>1, <2>1, WatchedKept
<1> QED
  BY <1>9, <1>14, <1>15, <1>17, <1>18, <1>19, <1>20, <1>21, <1>22, <1>23 DEF IInv

----------------------------------------------------------------------------
(* The theorems *)

\* Nothing has happened yet.
LEMMA InitIInv == Init => IInv
<1> SUFFICES ASSUME Init PROVE IInv
  OBVIOUS
<1>1. \A t \in Threads : thread[t] = Resting
  BY DEF Init
<1>2. \A k \in Keys : /\ local[k] = Absent /\ entry[k] = Absent /\ flight[k] = None
                      /\ latest[k] = 0 /\ written[k] = 0
  BY DEF Init
<1>3. MaxVersion \in Nat /\ MaxVersion > 0
  BY BoundIsPositive
<1>4. /\ clock = [epoch |-> 1, generation |-> 0] /\ clock.epoch = 1 /\ clock.generation = 0
      /\ unbumped = 0 /\ versions = 0 /\ cursor = NoCursor /\ current = {}
  BY DEF Init
<1>5. Typed
  <2>1. clock \in Clocks
    BY <1>3, <1>4 DEF Clocks
  <2>2. NoCursor \in Cursors
    BY <1>3, RestingType DEF NoCursor, Cursors
  <2> QED
    BY <1>3, <1>4, <2>1, <2>2, RestingType DEF Init, Typed
<1>6. NotLater(NoClock)
  BY <1>4, RestingType DEF NotLater
<1>7. ThreadsOK
  BY <1>1, <1>6, RestingType DEF ThreadsOK, ThreadOK, At, LoadSteps
<1>8. Free /\ Locking = {}
  BY <1>1, RestingType DEF Free, Locking, At
<1>9. CountsOK
  <2>1. Cardinality(Locking) = 0
    BY <1>8, FS_EmptySet
  <2> QED
    BY <1>2, <1>3, <1>4, <1>6, <1>8, <2>1 DEF CountsOK, NoCursor
<1>10. FlightsOK /\ ServerOK
  BY <1>2, <1>4 DEF FlightsOK, ServerOK
<1>11. LockOK /\ AdmittingOK
  BY <1>1, <1>4, RestingType DEF LockOK, AdmittingOK, Mutating
<1>12. NoticeOK /\ WatchedOK /\ ReadYourWrites
  BY <1>1, <1>2, <1>4, RestingType DEF NoticeOK, WatchedOK, Watched, At, SomeOutdated, Outdated,
     ReadYourWrites
<1> QED
  BY <1>5, <1>7, <1>9, <1>10, <1>11, <1>12 DEF IInv

\* Every step keeps it.
LEMMA NextIInv == IInv /\ [Next]_vars => IInv'
<1> SUFFICES ASSUME IInv, [Next]_vars PROVE IInv'
  OBVIOUS
<1>1. ASSUME NEW t \in Threads, Step(t) PROVE IInv'
  <2>1. CASE Send(t)
    BY <2>1, LoadStep, SendStep
  <2>2. CASE ~Send(t)
    BY <1>1, <2>2, CompareStep, CompareCountsStep, MarkStep, MarkCountStep, LookStep, LoadStep,
       AdmitStep, LeaveStep, BumpStep, SucceedStep DEF Step
  <2> QED
    BY <2>1, <2>2
<1>2. ASSUME NEW t \in Threads,
             LeaseAnswers(t) \/ LeaseGranted(t) \/ LeaseBusy(t) \/ LeaseFails(t)
      PROVE  IInv'
  BY <1>2, LeaseStep
<1>3. ASSUME NEW t \in Threads, NEW k \in Keys,
             SkipPoll(t, k) \/ Poll(t, k) \/ Change(t, k, "set") \/ Change(t, k, "delete")
      PROVE  IInv'
  BY <1>3, CallStep
<1>4. ASSUME NEW k \in Keys, NEW age \in {"fresh", "none"}, OtherChanges(k, age) PROVE IInv'
  BY <1>4, OtherChangesStep
<1>5. ASSUME NEW k \in Keys, OtherLeases(k) \/ LeaseExpires(k) \/ Ages(k) \/ LocalAges(k)
      PROVE  IInv'
  BY <1>5, AgeStep
<1>6. CASE OtherBumps \/ Restart
  BY <1>6, OtherBumpsStep, RestartStep
<1>7. CASE UNCHANGED vars
  <2>1. UNCHANGED <<entry, latest, lease, clock, unbumped, versions, local, cursor, current,
                    flight, thread, written>>
    BY <1>7 DEF vars, server, client
  <2>2. /\ entry \in [Keys -> Values] /\ local \in [Keys -> Values]
        /\ lease \in [Keys -> Threads \cup {None, Other}]
    BY DEF IInv, Typed
  <2> QED
    BY <2>1, <2>2, StillStep
<1> QED
  BY <1>1, <1>2, <1>3, <1>4, <1>5, <1>6, <1>7 DEF Next

\* The inductive invariant: locks, counts, and what every thread of the client and
\* the cursor know of the server's mutations.
THEOREM ClientInvariant == Spec => []IInv
BY InitIInv, NextIInv, PTL DEF Spec

\* The next poll clears every outdated L1 entry that was read from the server after
\* the client's first poll, whatever threads of the client poll, load, mutate and fail
\* meanwhile, and whatever others do, unless a generation of one epoch has been taken
\* for that of another: _admit_if_generation and the order in which a poll compares and
\* moves the cursor see to it.
THEOREM ReadsAreNoticed == Spec => []ReadsNoticed
<1>1. IInv => TypeOK
  <2> SUFFICES ASSUME IInv PROVE TypeOK
    OBVIOUS
  <2>1. \A k \in Keys : flight[k] # None => Key(flight[k]) = k /\ ~At(flight[k], "idle")
    BY DEF IInv, FlightsOK, At, Leading, MutationSteps
  <2>2. \A t \in Threads : thread[t].seen \in Clocks /\ thread[t].got \in Values
    BY DEF IInv, Typed, ThreadType
  <2> QED
    BY <2>1, <2>2 DEF IInv, Typed, TypeOK
<1>2. IInv => (~cursor.mixed => \A k \in Keys : Unnoticed(k) => local[k].blind)
  BY DEF IInv, NoticeOK, SomeOutdated, Outdated, Watched, Unnoticed
<1>3. IInv => ReadsNoticed
  BY <1>1, <1>2 DEF ReadsNoticed
<1> QED
  BY <1>3, ClientInvariant, PTL

\* After a mutation of the client has succeeded, in whatever thread, L1 holds nothing
\* older: neither a read nor a load that was under way brings it back.
THEOREM OwnWritesAreRead == Spec => []ReadYourWrites
<1>1. IInv => ReadYourWrites
  BY DEF IInv
<1> QED
  BY <1>1, ClientInvariant, PTL

=============================================================================
