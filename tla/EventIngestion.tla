--------------------------- MODULE EventIngestion ---------------------------
(***************************************************************************)
(* Freshness events in src/megacache/events.py: EventIngestor, its         *)
(* AtomicCheckpointStore, the dependency graph, dead letters and their     *)
(* retry, and the two ways events arrive: an ordered log read in batches   *)
(* (KafkaRecordAdapter; the database adapters feed the same way) and       *)
(* webhook deliveries with one-use claims (EventAutomation).               *)
(*                                                                         *)
(* Every event id names one change at the source.  stale holds the pairs   *)
(* of a change and a cached entry that is older than it: what the whole    *)
(* component exists to remove.  Entries live in the memory of the process, *)
(* so a crash removes them all.                                            *)
(***************************************************************************)
EXTENDS Naturals, FiniteSets, SequencesExt

CONSTANTS
    Log, Hook,       \* the two streams: sequences of event ids, repeats allowed
    KeysOf,          \* event id -> the keys its rules render
    Tagged,          \* the events whose rules render the tag
    Malformed,       \* the events no schema or template accepts
    Edges,           \* the dependency graph: pairs <<dependency, dependent>>
    MaxDepth, MaxInvalidationNodes,
    MaxSeenEvents, MaxDeadLetters, MaxReplayTokens,
    MaxRecords,      \* of one poll
    MaxFaults,       \* failures of storage, of the state file and of answers
    MaxCrashes

Feed == [log |-> Log, hook |-> Hook]
Streams == DOMAIN Feed
Ids == UNION {{Feed[s][p] : p \in DOMAIN Feed[s]} : s \in Streams}
Keys == UNION {KeysOf[e] : e \in Ids} \cup {k[1] : k \in Edges} \cup {k[2] : k \in Edges}
Tag == "tag"

ASSUME StreamsAreSequences == {Log, Hook} \subseteq Seq(Ids)

----------------------------------------------------------------------------
(* DependencyGraph *)

Children(K) == {e[2] : e \in {e \in Edges : e[1] \in K}}

\* What the traversal from K has visited after each level.
Levels(K) ==
    LET visited[d \in 0 .. Cardinality(Keys) + MaxDepth] ==
            IF d = 0 THEN K ELSE visited[d - 1] \cup Children(visited[d - 1])
    IN visited

Expand(K) == Levels(K)[Cardinality(Keys)]

Closure == [e \in Ids |-> Expand(KeysOf[e])]

\* What the invalidation of an event removes.
Derived(e) == Closure[e] \cup (IF e \in Tagged THEN {Tag} ELSE {})

\* expand raises: a key with dependents at the depth limit, or too many keys.
Oversized ==
    {e \in Ids : LET visited == Levels(KeysOf[e]) IN
        \/ Children(visited[MaxDepth] \ visited[MaxDepth - 1]) # {}
        \/ Cardinality(Closure[e]) > MaxInvalidationNodes}

\* add_dependency refuses a cycle.
Acyclic == \A e \in Edges : e[1] \notin Expand({e[2]})

ASSUME GraphIsAcyclic == Acyclic

ASSUME LimitsArePositive ==
    /\ {MaxDepth, MaxInvalidationNodes, MaxSeenEvents, MaxDeadLetters,
        MaxReplayTokens, MaxRecords} \subseteq Nat \ {0}
    /\ MaxFaults \in Nat /\ MaxCrashes \in Nat

----------------------------------------------------------------------------

VARIABLES
    produced,   \* stream -> the number of its events that have happened
    stale,      \* pairs <<change, cached entry older than it>>
    state,      \* the state file: checkpoint, seen, letters, claims
    ingest,     \* the holder of the ingestor's lock, its step, stream position and event
    connector,  \* the reader of the log: step, next and last position of its batch
    committed,  \* the log's offset as the broker has it
    sender,     \* the webhook sender: step; acked, the last position it is done with
    faults, crashes

vars == <<produced, stale, state, ingest, connector, committed, sender, faults, crashes>>

Idle == [who |-> "none", step |-> "none", pos |-> 0, id |-> "none"]
Down == [step |-> "down", next |-> 1, last |-> 0]

Init ==
    /\ produced = [s \in Streams |-> 0]
    /\ stale = {}
    /\ state = [checkpoint |-> [s \in Streams |-> 0], seen |-> << >>,
                letters |-> {}, claims |-> {}]
    /\ ingest = Idle
    /\ connector = Down /\ committed = 0
    /\ sender = [step |-> "idle", acked |-> 0]
    /\ faults = 0 /\ crashes = 0

\* The source changes: cached entries derived from it are now old.  A repeated
\* record is the same change again.
Produce(s) ==
    LET p == produced[s] + 1
        e == Feed[s][p]
        repeated == \E t \in Streams : \E q \in 1 .. produced[t] : Feed[t][q] = e
    IN
    /\ p \in DOMAIN Feed[s]
    /\ produced' = [produced EXCEPT ![s] = p]
    /\ stale' = IF repeated THEN stale ELSE stale \cup ({e} \X Derived(e))
    /\ UNCHANGED <<state, ingest, connector, committed, sender, faults, crashes>>

Fault == faults < MaxFaults /\ faults' = faults + 1

----------------------------------------------------------------------------
(* How an ingestion ends for the one who asked for it *)

\* It returns a result: the batch goes on, or the sender has its answer.
Acknowledge(s) ==
    IF s = "log"
      THEN /\ connector' = [connector EXCEPT !.next = @ + 1,
                !.step = IF connector.next = connector.last THEN "committing" ELSE @]
           /\ UNCHANGED <<sender, faults>>
      ELSE /\ UNCHANGED connector
           /\ \/ sender' = [step |-> "idle", acked |-> sender.acked + 1] /\ UNCHANGED faults
              \/ sender' = [sender EXCEPT !.step = "idle"] /\ Fault

\* It raises: the batch is abandoned, the sender will send again.
Raise(s) ==
    IF s = "log"
      THEN connector' = Down /\ UNCHANGED sender
      ELSE UNCHANGED connector /\ sender' = [sender EXCEPT !.step = "idle"]

----------------------------------------------------------------------------
(* EventIngestor.ingest, under its lock and the store's *)

\* _remember_seen
Remember(seen, e) ==
    LET rest == Append(RemoveFirst(seen, e), e)
        n == Len(rest)
    IN SubSeq(rest, IF n > MaxSeenEvents THEN n - MaxSeenEvents + 1 ELSE 1, n)

\* _advance_checkpoint and _remember_seen
Recorded(s, p, e) ==
    [state EXCEPT !.checkpoint[s] = p, !.seen = Remember(@, e)]

Seen(e) == \E i \in DOMAIN state.seen : state.seen[i] = e

\* Mutant: events are known by their id only.
KnownById(s, p, e) == Seen(e)

\* An event the store knows by its id or by its position is not applied again.
Known(s, p, e) == Seen(e) \/ p <= state.checkpoint[s]

\* The position the stream's reader asks to ingest.
Asked(s, p) ==
    IF s = "log" THEN connector.step = "ingesting" /\ p = connector.next
                 ELSE sender.step = "claimed" /\ p = sender.acked + 1

Begin(s, p) ==
    LET e == Feed[s][p]
        start == [who |-> s, step |-> "deleting", pos |-> p, id |-> e]
    IN
    /\ ingest = Idle /\ Asked(s, p)
    /\ \/ /\ Known(s, p, e)
          /\ Acknowledge(s) /\ UNCHANGED ingest
       \/ /\ ~Known(s, p, e) /\ e \in Malformed
          /\ ingest' = [start EXCEPT !.step = "failing"]
          /\ UNCHANGED <<connector, sender, faults>>
       \/ /\ ~Known(s, p, e) /\ e \notin Malformed /\ e \in Oversized
          /\ UNCHANGED <<ingest, faults>>
          /\ IF s = "log" THEN Raise(s)
             ELSE UNCHANGED connector
                  /\ sender' = [step |-> "idle", acked |-> sender.acked + 1]
       \/ /\ ~Known(s, p, e) /\ e \notin Malformed /\ e \notin Oversized
          /\ ingest' = start
          /\ UNCHANGED <<connector, sender, faults>>
    /\ UNCHANGED <<produced, stale, state, committed, crashes>>

\* _apply calls the storage twice; each call may raise, before or after its effect.
Invalidate(entries, step, then) ==
    /\ ingest.step = step
    /\ \/ /\ stale' = {x \in stale : x[2] \notin entries}
          /\ ingest' = [ingest EXCEPT !.step = then] /\ UNCHANGED faults
       \/ /\ Fault
          /\ stale' \in {stale, {x \in stale : x[2] \notin entries}}
          /\ ingest' = [ingest EXCEPT !.step = "failing"]
    /\ UNCHANGED <<produced, state, connector, committed, sender, crashes>>

DeleteMany == Invalidate(Closure[ingest.id], "deleting", "tagging")

InvalidateTags ==
    Invalidate(IF ingest.id \in Tagged THEN {Tag} ELSE {}, "tagging", "completing")

\* complete
Complete(s) ==
    /\ ingest.who = s /\ ingest.step = "completing"
    /\ state' = Recorded(s, ingest.pos, ingest.id)
    /\ ingest' = Idle /\ Acknowledge(s)
    /\ UNCHANGED <<produced, stale, committed, crashes>>

\* _validate_dead_letters
RoomFor(e) == e \in state.letters \/ Cardinality(state.letters) < MaxDeadLetters

\* dead_letter: the letter and the checkpoint are one update.
DeadLetter(s) ==
    /\ ingest.who = s /\ ingest.step = "failing"
    /\ RoomFor(ingest.id)
    /\ state' = [Recorded(s, ingest.pos, ingest.id) EXCEPT !.letters = @ \cup {ingest.id}]
    /\ ingest' = Idle /\ Acknowledge(s)
    /\ UNCHANGED <<produced, stale, committed, crashes>>

\* The record of the outcome is refused for lack of room, or cannot be written:
\* the state stays as it was and the call raises.
Unrecorded(s) ==
    /\ ingest.who = s /\ ingest.step \in {"completing", "failing"}
    /\ \/ ingest.step = "failing" /\ ~RoomFor(ingest.id) /\ UNCHANGED faults
       \/ Fault
    /\ ingest' = Idle /\ Raise(s)
    /\ UNCHANGED <<produced, stale, state, committed, crashes>>

----------------------------------------------------------------------------
(* EventIngestor.retry_dead_letters, one due letter at a time *)

Retry(e) ==
    /\ ingest = Idle /\ e \in state.letters
    /\ ingest' = [who |-> "retry", pos |-> 0, id |-> e,
                  step |-> IF e \in Malformed THEN "failing" ELSE "deleting"]
    /\ UNCHANGED <<produced, stale, state, connector, committed, sender, faults, crashes>>

\* remove_dead_letter after a success, update_dead_letter after a failure.
EndRetry ==
    /\ ingest.who = "retry" /\ ingest.step \in {"completing", "failing"}
    /\ ingest' = Idle
    /\ \/ /\ state' = IF ingest.step = "completing"
                        THEN [state EXCEPT !.letters = @ \ {ingest.id}] ELSE state
          /\ UNCHANGED faults
       \/ Fault /\ UNCHANGED state
    /\ UNCHANGED <<produced, stale, connector, committed, sender, crashes>>

----------------------------------------------------------------------------
(* KafkaRecordAdapter.consume_once *)

\* Mutant: offsets are committed when the records are polled.
PollCommitting ==
    /\ connector.step \in {"down", "polling"} /\ committed < produced.log
    /\ committed' = committed + 1
    /\ connector' = [step |-> "ingesting", next |-> committed + 1, last |-> committed + 1]
    /\ UNCHANGED <<produced, stale, state, ingest, sender, faults, crashes>>

\* The driver connects where the broker or the checkpoint says, and polls.
Poll ==
    /\ connector.step \in {"down", "polling"}
    /\ \E from \in IF connector.step = "down" THEN {committed, state.checkpoint.log}
                   ELSE {connector.last} :
         /\ from < produced.log
         /\ \E n \in 1 .. MaxRecords :
              /\ from + n <= produced.log
              /\ connector' = [step |-> "ingesting", next |-> from + 1, last |-> from + n]
    /\ UNCHANGED <<produced, stale, state, ingest, committed, sender, faults, crashes>>

Commit ==
    /\ connector.step = "committing"
    /\ \/ /\ committed' = connector.last
          /\ connector' = [connector EXCEPT !.step = "polling"] /\ UNCHANGED faults
       \/ Fault /\ connector' = Down /\ UNCHANGED committed
    /\ UNCHANGED <<produced, stale, state, ingest, sender, crashes>>

----------------------------------------------------------------------------
(* EventAutomation.ingest_webhook *)

\* authenticate claims the delivery before the event is looked at.  The sender
\* sends an event again, under the same delivery, until it has an answer.
Claim ==
    LET p == sender.acked + 1 IN
    /\ sender.step = "idle" /\ p <= produced.hook
    /\ p \notin state.claims /\ Cardinality(state.claims) < MaxReplayTokens
    /\ state' = [state EXCEPT !.claims = @ \cup {p}]
    /\ sender' = [sender EXCEPT !.step = "claimed"]
    /\ UNCHANGED <<produced, stale, ingest, connector, committed, faults, crashes>>

\* Mutant: expired claims are dropped only when there is no room for another.
ExpireWhenFull ==
    /\ Cardinality(state.claims) = MaxReplayTokens
    /\ \E p \in state.claims : state' = [state EXCEPT !.claims = @ \ {p}]
    /\ UNCHANGED <<produced, stale, ingest, connector, committed, sender, faults, crashes>>

\* A claim outlives its tolerance and the next claim drops it.
Expire ==
    /\ \E p \in state.claims : state' = [state EXCEPT !.claims = @ \ {p}]
    /\ UNCHANGED <<produced, stale, ingest, connector, committed, sender, faults, crashes>>

----------------------------------------------------------------------------

\* The process dies and starts again: _load reads the state file.
Crash ==
    /\ crashes < MaxCrashes /\ crashes' = crashes + 1
    /\ stale' = {} /\ ingest' = Idle /\ connector' = Down
    /\ sender' = [sender EXCEPT !.step = "idle"]
    /\ UNCHANGED <<produced, state, committed, faults>>

\* Everything has happened and nothing old is cached.
Quiet ==
    /\ \A s \in Streams : produced[s] = Len(Feed[s])
    /\ stale = {} /\ UNCHANGED vars

Next ==
    \/ \E s \in Streams :
         \/ Produce(s) \/ Complete(s) \/ DeadLetter(s) \/ Unrecorded(s)
         \/ \E p \in DOMAIN Feed[s] : Begin(s, p)
    \/ DeleteMany \/ InvalidateTags
    \/ \E e \in Ids : Retry(e)
    \/ EndRetry \/ Poll \/ Commit \/ Claim \/ Expire \/ Crash
    \/ Quiet

\* The lock's holder goes on, readers and the sender keep trying, claims expire.
\* A thread that keeps asking for the lock gets it in the end: the lock is free again
\* and again, not for good.  Nothing says that letters are retried: only an
\* administrator does that.
Fairness ==
    /\ \A s \in Streams :
         /\ WF_vars(Complete(s)) /\ WF_vars(DeadLetter(s)) /\ WF_vars(Unrecorded(s))
         /\ SF_vars(\E p \in DOMAIN Feed[s] : Begin(s, p))
    /\ WF_vars(DeleteMany) /\ WF_vars(InvalidateTags) /\ WF_vars(EndRetry)
    /\ WF_vars(Poll) /\ WF_vars(Commit) /\ WF_vars(Claim) /\ WF_vars(Expire)

Spec == Init /\ [][Next]_vars /\ Fairness

----------------------------------------------------------------------------

(* Properties *)

\* Types, the limits on the seen list, the dead letters and the claims, and no
\* position ahead of what its stream has produced.
TypeOK ==
    /\ \A s \in Streams : produced[s] \in 0 .. Len(Feed[s])
    /\ stale \subseteq UNION {{e} \X Derived(e) : e \in Ids}
    /\ state.checkpoint \in [Streams -> Nat]
    /\ \A s \in Streams : state.checkpoint[s] <= produced[s]
    /\ Len(state.seen) <= MaxSeenEvents /\ \A i \in DOMAIN state.seen : state.seen[i] \in Ids
    /\ state.letters \subseteq Ids /\ Cardinality(state.letters) <= MaxDeadLetters
    /\ state.claims \subseteq DOMAIN Hook /\ Cardinality(state.claims) <= MaxReplayTokens
    /\ ingest.who \in Streams \cup {"none", "retry"}
    /\ ingest.step \in {"none", "deleting", "tagging", "completing", "failing"}
    /\ connector.step \in {"down", "polling", "ingesting", "committing"}
    /\ connector.last <= produced.log /\ connector.next <= connector.last + 1
    /\ committed <= produced.log /\ sender.acked <= produced.hook
    /\ sender.step \in {"idle", "claimed"}
    /\ faults \in 0 .. MaxFaults /\ crashes \in 0 .. MaxCrashes

Fresh(e) == \A x \in stale : x[1] # e

\* A change is taken care of: nothing older is cached, or its letter waits.  An
\* oversized closure is refused with an error, which the sender has seen.
Settled(e) == Fresh(e) \/ e \in state.letters \/ e \in Oversized

\* No silent skip: every change at or below a durable checkpoint, an offset
\* committed to the broker or a webhook event the sender has had its answer for is
\* settled, for nobody will deliver it again, whatever failed, crashed, was
\* repeated or fell out of the list of seen events (ingest applies before it
\* records; a letter and its checkpoint are one update).
NoSilentSkip ==
    /\ TypeOK
    /\ \A s \in Streams : \A p \in 1 .. state.checkpoint[s] : Settled(Feed[s][p])
    /\ \A p \in 1 .. committed : Settled(Log[p])
    /\ \A p \in 1 .. sender.acked : Settled(Hook[p])

\* A stream's durable position never goes back, though records and deliveries are
\* repeated, batches begin again where the broker says, the other stream and the
\* retries take turns at the lock, and the list of seen events forgets: no call gets
\* to the branch of _advance_checkpoint that raises for it.
CheckpointsAdvance ==
    [][\A s \in Streams : state'.checkpoint[s] >= state.checkpoint[s]]_vars

\* Every change reaches the cache or the dead letters, whatever failed, crashed or was
\* sent again: what is older than it goes, or its letter waits for an administrator to
\* retry it.  Only a full queue of letters may keep it waiting: the ingestor refuses the
\* event then until an administrator has made room.
ChangesSettle ==
    \A e \in Ids \ Oversized :
        ~Fresh(e) ~> \/ Fresh(e) \/ e \in state.letters
                    \/ Cardinality(state.letters) = MaxDeadLetters

=============================================================================
