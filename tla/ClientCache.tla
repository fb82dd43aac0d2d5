----------------------------- MODULE ClientCache -----------------------------
(***************************************************************************)
(* The local (L1) cache of one Python client, src/megacache/client.py, and *)
(* the mutation clock of the server it polls, coordination.py: get_or_load *)
(* with its flights and leases, the client's own mutations, invalidation   *)
(* polls, and everybody else who writes to the server.                     *)
(*                                                                         *)
(* A value is the number of the mutation that wrote it.  Commands of the   *)
(* client's threads share one connection and exclude each other.  The      *)
(* server bumps its generation after a mutation, in a step of its own.     *)
(***************************************************************************)
EXTENDS Naturals, FiniteSets, FiniteSetsExt

CONSTANTS
    Threads,       \* of the client
    Keys,
    MaxVersion,    \* bound: mutations at the server, its restarts included
    None, Other    \* nobody; a lease holder that is another client

ASSUME BoundIsPositive == MaxVersion \in Nat \ {0}

ASSUME ThreadsAreFinite == IsFiniteSet(Threads)

ASSUME OthersAreNew == {None, Other} \cap Threads = {} /\ None # Other

VARIABLES
    entry,        \* key -> what the server stores: version and age
    latest,       \* key -> the last mutation of the key (history)
    lease,        \* key -> who has its refresh lease
    clock,        \* the server's epoch and generation
    unbumped,     \* mutations of others that are stored and not yet counted
    versions,     \* mutations so far
    local,        \* key -> the L1 entry: version, age, and whether it is blind: put by
                  \* a load of this client, or read before its first poll
    cursor,       \* the last epoch and generation the client has applied
    current,      \* the threads whose expected generation is _mutation_generation
    flight,       \* key -> the thread that leads its flight
    thread,
    written       \* key -> the client's last successful mutation of it (history)

server == <<entry, latest, lease, clock, unbumped, versions>>
client == <<local, cursor, current, flight, written>>
vars == <<server, client, thread>>

Absent == [version |-> 0, age |-> "none", blind |-> FALSE]
Stored(version, age) == [version |-> version, age |-> age, blind |-> FALSE]
NoClock == [epoch |-> 0, generation |-> 0]
Resting == [step |-> "idle", key |-> None, call |-> "none",
            seen |-> NoClock, got |-> Absent]

\* _cursor, of which only matters if it is set, _cursor_epoch and _cursor_generation:
\* count is the answer the generation was taken from.  mixed is a history: the client
\* has taken the generation of one epoch for that of another.
NoCursor == [known |-> FALSE, epoch |-> 0, count |-> NoClock, mixed |-> FALSE]

Init ==
    /\ entry = [k \in Keys |-> Absent] /\ latest = [k \in Keys |-> 0]
    /\ lease = [k \in Keys |-> None]
    /\ clock = [epoch |-> 1, generation |-> 0] /\ unbumped = 0 /\ versions = 0
    /\ local = [k \in Keys |-> Absent] /\ cursor = NoCursor /\ current = {}
    /\ flight = [k \in Keys |-> None]
    /\ thread = [t \in Threads |-> Resting]
    /\ written = [k \in Keys |-> 0]

At(t, step) == thread[t].step = step
Goto(t, step) == thread' = [thread EXCEPT ![t].step = step]
Key(t) == thread[t].key

\* The thread at another step, with the value it knows then.
With(t, step, e) == [thread[t] EXCEPT !.step = step, !.got = e]

\* Whether the connection is free: a mutation holds it until it is answered.
Free == \A t \in Threads : ~At(t, "bumping")

----------------------------------------------------------------------------
(* The server *)

\* The bound leaves room for the mutations the client is about to send.
Room == versions + Cardinality({t \in Threads : At(t, "locking")}) < MaxVersion

\* A mutation of key k, number v: MutationClock passes it to the storage, which
\* also ends the refresh lease.
Mutated(k, age) ==
    LET v == versions + 1 IN
    /\ versions' = v
    /\ entry' = [entry EXCEPT ![k] = IF age = "none" THEN Absent ELSE Stored(v, age)]
    /\ latest' = [latest EXCEPT ![k] = v]
    /\ lease' = [lease EXCEPT ![k] = None]

Bumped == clock' = [clock EXCEPT !.generation = @ + 1]

----------------------------------------------------------------------------
(* Polling for invalidations *)

\* A thread that has just called get_or_load for key k and goes on at a step.
Calling(t, k, step) ==
    [Resting EXCEPT !.step = step, !.key = k, !.call = "load"]

\* The interval has not passed since the last poll, or since the monotonic clock
\* began if there was none.
SkipPoll(t, k) ==
    /\ At(t, "idle")
    /\ thread' = [thread EXCEPT ![t] = Calling(t, k, "looking")]
    /\ UNCHANGED <<server, client>>

\* MC.INVALIDATIONS
Poll(t, k) ==
    /\ At(t, "idle") /\ Free
    /\ thread' = [thread EXCEPT ![t] = [Calling(t, k, "comparing") EXCEPT !.seen = clock]]
    /\ UNCHANGED <<server, client>>

\* _mutation_succeeded, also of the own mutations.
Cleared == current' = {} /\ local' = [k \in Keys |-> Absent]

\* Mutant: another epoch is adopted like the first.
CompareAdopt(t) ==
    /\ At(t, "comparing")
    /\ Goto(t, IF cursor.known /\ cursor.epoch = thread[t].seen.epoch
                 THEN "comparing counts" ELSE "marking")
    /\ UNCHANGED <<server, client>>

\* The client compares what it has seen with its cursor, the epochs first, and only
\* then moves it.  Nothing of this is done under a lock.
Compare(t) ==
    /\ At(t, "comparing")
    /\ IF cursor.known /\ cursor.epoch # thread[t].seen.epoch THEN Cleared
       ELSE UNCHANGED <<current, local>>
    /\ Goto(t, IF cursor.known /\ cursor.epoch = thread[t].seen.epoch
                 THEN "comparing counts" ELSE "marking")
    /\ UNCHANGED <<server, cursor, flight, written>>

CompareCounts(t) ==
    LET same == cursor.count # NoClock /\ cursor.count.generation = thread[t].seen.generation
    IN  /\ At(t, "comparing counts")
        /\ IF same THEN UNCHANGED <<current, local>> ELSE Cleared
        /\ cursor' = [cursor EXCEPT !.mixed = @ \/ (same /\ cursor.count # thread[t].seen)]
        /\ Goto(t, "marking")
        /\ UNCHANGED <<server, flight, written>>

\* _cursor and _cursor_epoch.  Who compares between the two clears as it does after
\* both: either the cursor was set before, or the generation is still None.
Mark(t) ==
    /\ At(t, "marking")
    /\ cursor' = [cursor EXCEPT !.known = TRUE, !.epoch = thread[t].seen.epoch]
    /\ Goto(t, "marking count")
    /\ UNCHANGED <<server, local, current, flight, written>>

MarkCount(t) ==
    /\ At(t, "marking count")
    /\ cursor' = [cursor EXCEPT !.count = thread[t].seen]
    /\ thread' = [thread EXCEPT ![t] = [@ EXCEPT !.step = "looking", !.seen = NoClock]]
    /\ UNCHANGED <<server, local, current, flight, written>>

----------------------------------------------------------------------------
(* get_or_load *)

\* LocalCache.get: a fresh entry is the answer.
Look(t) ==
    /\ At(t, "looking")
    /\ IF local[Key(t)].age = "fresh" THEN thread' = [thread EXCEPT ![t] = Resting]
       ELSE Goto(t, "joining")
    /\ UNCHANGED <<server, client>>

Join(t) ==
    /\ At(t, "joining")
    /\ IF flight[Key(t)] = None
         THEN flight' = [flight EXCEPT ![Key(t)] = t] /\ Goto(t, "expecting")
         ELSE Goto(t, "following") /\ UNCHANGED flight
    /\ UNCHANGED <<server, local, cursor, current, written>>

\* The generation is read before the lease is asked for.
Expect(t) ==
    /\ At(t, "expecting")
    /\ current' = current \cup {t}
    /\ Goto(t, "leasing")
    /\ UNCHANGED <<server, local, cursor, flight, written>>

\* What it knew is not needed any more.
Leaving(t) ==
    /\ thread' = [thread EXCEPT ![t] = With(t, "leaving", Absent)]
    /\ current' = current \ {t}

Got(t, e) == thread' = [thread EXCEPT ![t] = With(t, "admitting", e)]

\* MC.LEASE: a fresh value, or a stale one while somebody else refreshes it.
LeaseAnswers(t) ==
    LET e == entry[Key(t)] IN
    /\ At(t, "leasing") /\ Free
    /\ e.age = "fresh" \/ (e.age = "stale" /\ lease[Key(t)] # None)
    /\ Got(t, [e EXCEPT !.blind = ~cursor.known])
    /\ UNCHANGED <<server, client>>

\* MC.LEASE: the lease itself, with or without a stale value to fall back on.
LeaseGranted(t) ==
    /\ At(t, "leasing") /\ Free
    /\ entry[Key(t)].age # "fresh" /\ lease[Key(t)] = None
    /\ lease' = [lease EXCEPT ![Key(t)] = t]
    /\ Goto(t, "loading")
    /\ UNCHANGED <<entry, latest, clock, unbumped, versions, client>>

\* MC.LEASE: somebody else is loading; try again.
LeaseBusy(t) ==
    /\ At(t, "leasing") /\ Free
    /\ entry[Key(t)].age = "none" /\ lease[Key(t)] # None
    /\ Goto(t, "expecting")
    /\ UNCHANGED <<server, client>>

\* MC.LEASE fails, or its answer is lost.
LeaseFails(t) ==
    /\ At(t, "leasing") /\ Free
    /\ Leaving(t)
    /\ UNCHANGED <<server, local, cursor, flight, written>>

\* The loader returns or raises; the command may fail too.  A stale value may be
\* the answer then, without any change of state.
Load(t) ==
    /\ At(t, "loading")
    /\ (Room /\ Goto(t, "locking")) \/ Goto(t, "leaving")
    /\ current' = current \ {t}
    /\ UNCHANGED <<server, local, cursor, flight, written>>

\* LocalCache.put, which evicts as many others as its limits on entries and memory
\* take.
Placed(k, e) ==
    {[j \in Keys |-> IF j = k THEN e ELSE IF j \in evicted THEN Absent ELSE local[j]] :
        evicted \in SUBSET (Keys \ {k})}

\* _admit_if_generation; nothing happens either when the value has become too old
\* meanwhile or is too large.
Admit(t) ==
    /\ At(t, "admitting")
    /\ \/ t \in current /\ local' \in Placed(Key(t), thread[t].got)
       \/ UNCHANGED local
    /\ Leaving(t)
    /\ UNCHANGED <<server, cursor, flight, written>>

\* Mutant: followers are left waiting.
LeaveAlone(t) ==
    /\ At(t, "leaving")
    /\ flight' = [flight EXCEPT ![Key(t)] = None]
    /\ thread' = [thread EXCEPT ![t] = Resting]
    /\ UNCHANGED <<server, local, cursor, current, written>>

\* The finally clause: the flight ends and its followers have their answer.
Leave(t) ==
    /\ At(t, "leaving")
    /\ flight' = [flight EXCEPT ![Key(t)] = None]
    /\ thread' = [u \in Threads |->
          IF u = t \/ (At(u, "following") /\ Key(u) = Key(t)) THEN Resting ELSE thread[u]]
    /\ UNCHANGED <<server, local, cursor, current, written>>

----------------------------------------------------------------------------
(* Mutations of the client: set, delete and the put of a loaded value *)

\* set stands for mset and put too; delete for expire and invalidate, which all
\* tell whether they have changed anything.
Change(t, k, call) ==
    /\ At(t, "idle") /\ Room
    /\ thread' = [thread EXCEPT ![t] = [Resting EXCEPT !.step = "locking", !.key = k,
                                                       !.call = call]]
    /\ UNCHANGED <<server, client>>

\* The end of a call that failed.
Failed(t) == IF thread[t].call = "load" THEN With(t, "leaving", Absent) ELSE Resting

\* The server refuses a lost lease, and finds nothing to delete.
Refused(t) ==
    \/ thread[t].call = "load" /\ lease[Key(t)] # t
    \/ thread[t].call = "delete" /\ entry[Key(t)] = Absent

\* The command reaches the server, which stores it.
Sent(t) ==
    /\ At(t, "locking") /\ Free
    /\ IF Refused(t)
         THEN /\ thread' = [thread EXCEPT ![t] = Failed(t)]
              /\ UNCHANGED <<entry, latest, lease, versions>>
         ELSE /\ Mutated(Key(t), IF thread[t].call = "delete" THEN "none" ELSE "fresh")
              /\ thread' = [thread EXCEPT ![t] =
                   With(t, "bumping", [Stored(versions', "fresh") EXCEPT !.blind = TRUE])]
    /\ UNCHANGED <<clock, unbumped, client>>

\* Mutant: _mutation_lock is not taken.
SendUnlocked(t) == Sent(t)

\* _mutation_lock is held from here until _mutation_succeeded.
Send(t) == Sent(t) /\ \A u \in Threads : ~At(u, "answered")

\* The server counts the mutation and answers; the answer may be lost.
Bump(t) ==
    /\ At(t, "bumping")
    /\ Bumped
    /\ Goto(t, "answered") \/ thread' = [thread EXCEPT ![t] = Failed(t)]
    /\ UNCHANGED <<entry, latest, lease, unbumped, versions, local, cursor, current,
                   flight, written>>

\* _mutation_succeeded, still under the lock.  A load goes on to admit its value
\* under the generation it has made.
Succeed(t) ==
    /\ At(t, "answered")
    /\ local' = [k \in Keys |-> Absent]
    /\ written' = [written EXCEPT ![Key(t)] = Max({@, thread[t].got.version})]
    /\ IF thread[t].call = "load"
         THEN Goto(t, "admitting") /\ current' = {t}
         ELSE thread' = [thread EXCEPT ![t] = Resting] /\ current' = {}
    /\ UNCHANGED <<server, cursor, flight>>

----------------------------------------------------------------------------
(* Others, and time *)

OtherChanges(k, age) ==
    /\ Room /\ (age = "none" => entry[k] # Absent)
    /\ Mutated(k, age)
    /\ unbumped' = unbumped + 1
    /\ UNCHANGED <<clock, client, thread>>

OtherBumps ==
    /\ unbumped > 0 /\ unbumped' = unbumped - 1
    /\ Bumped
    /\ UNCHANGED <<entry, latest, lease, versions, client, thread>>

OtherLeases(k) ==
    /\ lease[k] = None /\ entry[k].age # "fresh"
    /\ lease' = [lease EXCEPT ![k] = Other]
    /\ UNCHANGED <<entry, latest, clock, unbumped, versions, client, thread>>

LeaseExpires(k) ==
    /\ lease[k] # None
    /\ lease' = [lease EXCEPT ![k] = None]
    /\ UNCHANGED <<entry, latest, clock, unbumped, versions, client, thread>>

Older(e) == IF e.age = "fresh" THEN [e EXCEPT !.age = "stale"] ELSE Absent

Ages(k) ==
    /\ entry[k].age # "none"
    /\ entry' = [entry EXCEPT ![k] = Older(@)]
    /\ UNCHANGED <<latest, lease, clock, unbumped, versions, client, thread>>

LocalAges(k) ==
    /\ local[k].age # "none"
    /\ local' = [local EXCEPT ![k] = Older(@)]
    /\ UNCHANGED <<server, cursor, current, flight, thread, written>>

\* The server loses everything and starts another epoch; a command under way fails.
Restart ==
    /\ Room /\ versions' = versions + 1 /\ latest' = [k \in Keys |-> versions']
    /\ clock' = [epoch |-> clock.epoch + 1, generation |-> 0] /\ unbumped' = 0
    /\ entry' = [k \in Keys |-> Absent] /\ lease' = [k \in Keys |-> None]
    /\ thread' = [t \in Threads |-> IF At(t, "bumping") THEN Failed(t) ELSE thread[t]]
    /\ UNCHANGED client

----------------------------------------------------------------------------

\* What a thread does next, but for what MC.LEASE answers.
Step(t) ==
    \/ Compare(t) \/ CompareCounts(t) \/ Mark(t) \/ MarkCount(t) \/ Look(t)
    \/ Join(t) \/ Expect(t) \/ Load(t) \/ Admit(t) \/ Leave(t)
    \/ Send(t) \/ Bump(t) \/ Succeed(t)

Next ==
    \/ \E t \in Threads :
         \/ Step(t)
         \/ LeaseAnswers(t) \/ LeaseGranted(t) \/ LeaseBusy(t) \/ LeaseFails(t)
         \/ \E k \in Keys :
              SkipPoll(t, k) \/ Poll(t, k) \/ Change(t, k, "set") \/ Change(t, k, "delete")
    \/ \E k \in Keys :
         \/ \E age \in {"fresh", "none"} : OtherChanges(k, age)
         \/ OtherLeases(k) \/ LeaseExpires(k) \/ Ages(k) \/ LocalAges(k)
    \/ OtherBumps \/ Restart

\* Threads are scheduled, loaders and commands end, by timeouts if need be, and so
\* do leases.  A thread that waits for the mutation lock gets it some time.
Fairness ==
    /\ \A t \in Threads :
         /\ WF_vars(Step(t)) /\ SF_vars(Send(t))
         /\ WF_vars(LeaseBusy(t) \/ LeaseAnswers(t) \/ LeaseGranted(t))
    /\ \A k \in Keys : WF_vars(LeaseExpires(k))

Spec == Init /\ [][Next]_vars /\ Fairness

----------------------------------------------------------------------------
(* Properties *)

Values == [version : 0..MaxVersion, age : {"fresh", "stale", "none"}, blind : BOOLEAN]
Clocks == [epoch : 0..MaxVersion + 1, generation : 0..MaxVersion]
Cursors == [known : BOOLEAN, epoch : 0..MaxVersion + 1, count : Clocks, mixed : BOOLEAN]

\* Every variable has its type, and a flight is led by a thread that calls for its
\* key.
TypeOK ==
    /\ entry \in [Keys -> Values] /\ local \in [Keys -> Values]
    /\ {latest, written} \subseteq [Keys -> 0..MaxVersion]
    /\ lease \in [Keys -> Threads \cup {None, Other}]
    /\ clock \in Clocks /\ cursor \in Cursors
    /\ unbumped \in 0..MaxVersion /\ versions \in 0..MaxVersion
    /\ current \subseteq Threads
    /\ \A k \in Keys : flight[k] # None => Key(flight[k]) = k /\ ~At(flight[k], "idle")
    /\ \A t \in Threads : thread[t].seen \in Clocks /\ thread[t].got \in Values

\* An L1 entry that is no longer the server's and that no later poll would find
\* out about: all mutations are counted, and the client has the server's count.
Unnoticed(k) ==
    /\ local[k] # Absent /\ local[k].version < latest[k]
    /\ unbumped = 0 /\ Free
    /\ cursor.epoch = clock.epoch /\ cursor.count = clock

\* The next poll clears every outdated entry that was read from the server after the
\* client's first poll: it was read under a generation taken before, and admitted
\* under the same one.  The exception are polls of two threads around a restart: they
\* can leave the new epoch with the old generation, which a later poll may find again.
ReadsNoticed ==
    TypeOK /\ (~cursor.mixed => \A k \in Keys : Unnoticed(k) => local[k].blind)

\* "an active client's next read after the default one-second interval clears
\* stale L1 data after one successful network round trip".  The code does not keep
\* this for a value that it read before its first poll, or loaded and put itself.
StaleIsNoticed == \A k \in Keys : ~Unnoticed(k)

\* "Every successful local mutation clears L1", and nothing older than it comes
\* back: neither a read nor a load that was under way, in whatever thread.
ReadYourWrites == \A k \in Keys : local[k] # Absent => local[k].version >= written[k]

\* Every get_or_load and every mutation returns or raises, followers of a flight
\* included, if others do not take a lease again and again without storing a value.
CallsEnd ==
    (\A k \in Keys : <>[](lease[k] # Other)) =>
        \A t \in Threads : []<>At(t, "idle")

=============================================================================
