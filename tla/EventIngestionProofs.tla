------------------------ MODULE EventIngestionProofs ------------------------
(***************************************************************************)
(* Proofs about EventIngestion for any two streams, rules, dependency      *)
(* graph and limits: no change is skipped silently, whatever fails,        *)
(* crashes, is repeated or falls out of the list of seen events.           *)
(***************************************************************************)
EXTENDS EventIngestion, FiniteSetTheorems, SequenceTheorems, TLAPS

StateType ==
    [checkpoint : [Streams -> Nat], seen : Seq(Ids), letters : SUBSET Ids,
     claims : SUBSET DOMAIN Hook]
IngestType ==
    [who : Streams \cup {"none", "retry"},
     step : {"none", "deleting", "tagging", "completing", "failing"},
     pos : Nat, id : Ids \cup {"none"}]
ConnectorType ==
    [step : {"down", "polling", "ingesting", "committing"}, next : Nat \ {0}, last : Nat]

Typed ==
    /\ produced \in [Streams -> Nat] /\ \A s \in Streams : produced[s] <= Len(Feed[s])
    /\ stale \subseteq UNION {{e} \X Derived(e) : e \in Ids}
    /\ state \in StateType
    /\ Len(state.seen) <= MaxSeenEvents
    /\ IsFiniteSet(state.letters) /\ Cardinality(state.letters) <= MaxDeadLetters
    /\ IsFiniteSet(state.claims) /\ Cardinality(state.claims) <= MaxReplayTokens
    /\ ingest \in IngestType
    /\ connector \in ConnectorType
    /\ committed \in Nat
    /\ sender \in [step : {"idle", "claimed"}, acked : Nat]
    /\ faults \in 0 .. MaxFaults /\ crashes \in 0 .. MaxCrashes

\* The change has happened at its source.
Happened(e) == \E s \in Streams : \E p \in 1 .. produced[s] : Feed[s][p] = e

\* The first n events of a stream have happened and are taken care of.
SettledTo(s, n) == n <= produced[s] /\ \A p \in 1 .. n : Settled(Feed[s][p])

\* Every position that somebody will go on from: the checkpoints, the broker's
\* offset, what the sender is done with and what the batch under way has passed.
PositionsOK ==
    /\ \A s \in Streams : SettledTo(s, state.checkpoint[s])
    /\ SettledTo("log", committed) /\ SettledTo("hook", sender.acked)
    /\ SettledTo("log", connector.next - 1)

\* An event is skipped when its id is among the seen ones: it is settled.
SeenOK ==
    /\ \A i \in DOMAIN state.seen : Happened(state.seen[i]) /\ Settled(state.seen[i])
    /\ \A e \in state.letters : Happened(e)

\* A batch ends where it was polled.
ReadersOK ==
    /\ connector.last <= produced["log"] /\ connector.next <= connector.last + 1
    /\ connector.step \in {"polling", "committing"} => connector.next = connector.last + 1
    /\ connector.step = "ingesting" => connector.next <= connector.last
    /\ sender.step = "claimed" => sender.acked + 1 <= produced["hook"]

\* The lock's holder has the event its reader asked for, and what it has
\* invalidated of it stays so.
IngestOK ==
    /\ ingest.who # "none" => ingest.id \in Ids /\ Happened(ingest.id)
    /\ ingest.who = "none" => ingest.step = "none"
    /\ ingest.who = "log" =>
          /\ connector.step = "ingesting" /\ ingest.pos = connector.next
          /\ ingest.id = Feed["log"][ingest.pos]
    /\ ingest.who = "hook" =>
          /\ sender.step = "claimed" /\ ingest.pos = sender.acked + 1
          /\ ingest.id = Feed["hook"][ingest.pos]
    /\ ingest.step = "tagging" =>
          \A x \in stale : x[1] = ingest.id => x[2] \notin Closure[ingest.id]
    /\ ingest.step = "completing" => Fresh(ingest.id)

IInv == Typed /\ PositionsOK /\ SeenOK /\ ReadersOK /\ IngestOK

----------------------------------------------------------------------------
(* Streams, positions and the list of seen events *)

\* The two streams, and limits that are numbers.
LEMMA Constants ==
    /\ Streams = {"log", "hook"} /\ Feed["log"] = Log /\ Feed["hook"] = Hook
    /\ \A s \in Streams : /\ Feed[s] \in Seq(Ids) /\ Len(Feed[s]) \in Nat
                          /\ DOMAIN Feed[s] = 1 .. Len(Feed[s])
    /\ DOMAIN Hook = 1 .. Len(Hook) /\ Len(Hook) \in Nat
    /\ {MaxSeenEvents, MaxDeadLetters, MaxReplayTokens, MaxRecords} \subseteq Nat \ {0}
    /\ MaxFaults \in Nat /\ MaxCrashes \in Nat
<1>1. Streams = {"log", "hook"} /\ Feed["log"] = Log /\ Feed["hook"] = Hook
  BY DEF Streams, Feed
<1>2. Log \in Seq(Ids) /\ Hook \in Seq(Ids)
  BY StreamsAreSequences
<1>3. /\ Len(Log) \in Nat /\ DOMAIN Log = 1 .. Len(Log)
      /\ Len(Hook) \in Nat /\ DOMAIN Hook = 1 .. Len(Hook)
  BY <1>2
<1> QED
  BY <1>1, <1>2, <1>3, LimitsArePositive

\* The smallest of some positions.
LEMMA FirstPosition ==
    ASSUME NEW S \in SUBSET Nat, S # {}
    PROVE  Min(S) \in S
<1>1. PICK x \in S : \A y \in S : ~(<<y, x>> \in OpToRel(<, Nat))
  BY NatLessThanWellFounded, WFMin
<1>2. \A y \in S : ~(y < x)
  BY <1>1 DEF OpToRel
<1>3. \A y \in S : x =< y
  BY <1>2
<1> QED
  BY <1>3 DEF Min

\* _remember_seen keeps its limit and adds nothing but the event.
LEMMA RememberType ==
    ASSUME NEW seen \in Seq(Ids), NEW e \in Ids
    PROVE  /\ Remember(seen, e) \in Seq(Ids) /\ Len(Remember(seen, e)) <= MaxSeenEvents
           /\ \A i \in DOMAIN Remember(seen, e) :
                 \/ Remember(seen, e)[i] = e
                 \/ \E j \in DOMAIN seen : Remember(seen, e)[i] = seen[j]
<1> DEFINE removed == RemoveFirst(seen, e)
           rest == Append(removed, e)
           n == Len(rest)
           from == IF n > MaxSeenEvents THEN n - MaxSeenEvents + 1 ELSE 1
<1>1. /\ removed \in Seq(Ids)
      /\ \A i \in DOMAIN removed : \E j \in DOMAIN seen : removed[i] = seen[j]
  <2>1. CASE ~(\E i \in 1 .. Len(seen) : seen[i] = e)
    BY <2>1 DEF RemoveFirst
  <2>2. CASE \E i \in 1 .. Len(seen) : seen[i] = e
    <3> DEFINE I == {i \in 1 .. Len(seen) : seen[i] = e}
               m == Min(I)
    <3>1. I # {} /\ I \in SUBSET Nat
      BY <2>2
    <3>2. m \in I
      BY <3>1, FirstPosition
    <3>3. SelectInSeq(seen, LAMBDA v : v = e) = m
      BY <3>1 DEF SelectInSeq
    <3> HIDE DEF m
    <3>4. m \in 1 .. Len(seen)
      BY <3>2
    <3>5. removed = SubSeq(seen, 1, m - 1) \o SubSeq(seen, m + 1, Len(seen))
      BY <2>2, <3>3 DEF RemoveFirst, RemoveAt
    <3> HIDE DEF removed, I
    <3>6. /\ SubSeq(seen, 1, m - 1) \in Seq(Ids) /\ SubSeq(seen, m + 1, Len(seen)) \in Seq(Ids)
          /\ Len(SubSeq(seen, 1, m - 1)) = m - 1
          /\ Len(SubSeq(seen, m + 1, Len(seen))) = Len(seen) - m
          /\ \A i \in 1 .. m - 1 : SubSeq(seen, 1, m - 1)[i] = seen[i]
          /\ \A i \in 1 .. Len(seen) - m : SubSeq(seen, m + 1, Len(seen))[i] = seen[m + i]
      BY <3>4
    <3>7. removed \in Seq(Ids) /\ Len(removed) = Len(seen) - 1
      <4> DEFINE before == SubSeq(seen, 1, m - 1)
                 after == SubSeq(seen, m + 1, Len(seen))
      <4>1. /\ before \in Seq(Ids) /\ after \in Seq(Ids) /\ removed = before \o after
            /\ Len(before) = m - 1 /\ Len(after) = Len(seen) - m
            /\ m \in Nat /\ Len(seen) \in Nat
        BY <3>4, <3>5, <3>6
      <4> HIDE DEF before, after
      <4>2. removed \in Seq(Ids) /\ Len(removed) = Len(before) + Len(after)
        BY <4>1, ConcatProperties
      <4> QED
        BY <4>1, <4>2
    <3>8. ASSUME NEW i \in DOMAIN removed PROVE \E j \in DOMAIN seen : removed[i] = seen[j]
      <4>1. i \in 1 .. Len(seen) - 1
        BY <3>4, <3>7
      <4>2. CASE i <= m - 1
        <5>1. removed[i] = seen[i] /\ i \in DOMAIN seen
          BY <3>4, <3>5, <3>6, <4>1, <4>2
        <5> QED
          BY <5>1
      <4>3. CASE i > m - 1
        <5>1. removed[i] = seen[i + 1] /\ i + 1 \in DOMAIN seen
          BY <3>4, <3>5, <3>6, <4>1, <4>3
        <5> QED
          BY <5>1
      <4> QED
        BY <3>4, <4>1, <4>2, <4>3
    <3> QED
      BY <3>7, <3>8
  <2> QED
    BY <2>1, <2>2
<1> HIDE DEF removed
<1>2. /\ rest \in Seq(Ids) /\ n = Len(removed) + 1 /\ n \in Nat /\ rest[n] = e
      /\ \A i \in 1 .. Len(removed) : rest[i] = removed[i]
  BY <1>1
<1>3. /\ from \in 1 .. n /\ n - from + 1 <= MaxSeenEvents
  BY <1>2, Constants
<1>4. Remember(seen, e) = SubSeq(rest, from, n)
  BY DEF Remember, removed
<1> HIDE DEF rest, n, from
<1>5. /\ SubSeq(rest, from, n) \in Seq(Ids) /\ Len(SubSeq(rest, from, n)) = n - from + 1
      /\ \A i \in 1 .. n - from + 1 : SubSeq(rest, from, n)[i] = rest[from + i - 1]
  <2>1. n = Len(rest)
    BY DEF n
  <2> QED
    BY <1>2, <1>3, <2>1
<1>6. ASSUME NEW i \in DOMAIN SubSeq(rest, from, n)
      PROVE  \/ SubSeq(rest, from, n)[i] = e
             \/ \E j \in DOMAIN seen : SubSeq(rest, from, n)[i] = seen[j]
  <2> DEFINE j == from + i - 1
  <2>1. SubSeq(rest, from, n)[i] = rest[j] /\ j \in 1 .. n
    BY <1>2, <1>3, <1>5
  <2>2. rest[j] = e \/ (j \in DOMAIN removed /\ rest[j] = removed[j])
    BY <1>1, <1>2, <2>1
  <2> QED
    BY <1>1, <2>1, <2>2
<1> QED
  BY <1>3, <1>4, <1>5, <1>6

\* What has happened stays so, and positions stay settled when changes do.
LEMMA PositionsKept ==
    ASSUME Typed, produced' \in [Streams -> Nat],
           \A s \in Streams : produced[s] <= produced'[s],
           \A e \in Ids : Happened(e) /\ Settled(e) => Settled(e)'
    PROVE  /\ \A e \in Ids : Happened(e) => Happened(e)'
           /\ \A s \in Streams : \A n \in Nat : SettledTo(s, n) => SettledTo(s, n)'
<1>1. \A s \in Streams : produced[s] \in Nat /\ produced'[s] \in Nat
  BY DEF Typed
<1>2. \A e \in Ids : Happened(e) => Happened(e)'
  BY <1>1 DEF Happened
<1>3. ASSUME NEW s \in Streams, NEW n \in Nat, SettledTo(s, n) PROVE SettledTo(s, n)'
  <2>1. n <= produced'[s]
    BY <1>1, <1>3 DEF SettledTo
  <2>2. ASSUME NEW p \in 1 .. n PROVE Settled(Feed[s][p])'
    <3>1. p \in 1 .. produced[s] /\ p \in DOMAIN Feed[s]
      BY <1>1, <1>3, Constants DEF SettledTo, Typed
    <3>2. Feed[s][p] \in Ids
      BY <3>1, Constants, ElementOfSeq
    <3>3. Happened(Feed[s][p])
      BY <3>1 DEF Happened
    <3>4. Settled(Feed[s][p])
      BY <1>3 DEF SettledTo
    <3> QED
      BY <3>2, <3>3, <3>4
  <2> QED
    BY <2>1, <2>2 DEF SettledTo
<1> QED
  BY <1>2, <1>3

\* The reader of a stream at a position it has asked for.
ReaderAt(s, p) ==
    /\ s = "log" => connector.step = "ingesting" /\ p = connector.next
    /\ s = "hook" => sender.step = "claimed" /\ p = sender.acked + 1

\* What the readers are between two steps.
ReadersTyped ==
    /\ connector \in ConnectorType /\ faults \in 0 .. MaxFaults
    /\ sender \in [step : {"idle", "claimed"}, acked : Nat]
    /\ SettledTo("log", connector.next - 1) /\ SettledTo("hook", sender.acked)
    /\ ReadersOK

\* A failure counts.
LEMMA FaultCounts ==
    ASSUME Typed, Fault
    PROVE  faults' \in 0 .. MaxFaults
BY Constants DEF Typed, Fault

\* An acknowledgement moves a reader past an event that is settled.
LEMMA AcknowledgeKeeps ==
    ASSUME IInv, NEW s \in Streams, NEW p \in Nat, Acknowledge(s), ReaderAt(s, p),
           produced' = produced, SettledTo(s, p)',
           \A t \in Streams : \A n \in Nat : SettledTo(t, n) => SettledTo(t, n)'
    PROVE  ReadersTyped'
<1>1. /\ Typed /\ connector \in ConnectorType /\ faults \in 0 .. MaxFaults
      /\ sender \in [step : {"idle", "claimed"}, acked : Nat]
      /\ connector.next \in Nat \ {0} /\ connector.last \in Nat /\ sender.acked \in Nat
      /\ produced \in [Streams -> Nat] /\ "log" \in Streams /\ "hook" \in Streams
  BY Constants DEF IInv, Typed, ConnectorType
<1>2. /\ SettledTo("log", connector.next - 1)' \/ connector' # connector
      /\ SettledTo("hook", sender.acked)' \/ sender' # sender
  <2>1. SettledTo("log", connector.next - 1) /\ connector.next - 1 \in Nat
    BY <1>1 DEF IInv, PositionsOK
  <2>2. SettledTo("hook", sender.acked)
    BY DEF IInv, PositionsOK
  <2>3. connector' = connector => SettledTo("log", connector.next - 1)'
    BY <1>1, <2>1 DEF SettledTo
  <2>4. sender' = sender => SettledTo("hook", sender.acked)'
    BY <1>1, <2>2 DEF SettledTo
  <2> QED
    BY <2>3, <2>4
<1>3. CASE s = "log"
  <2>1. /\ sender' = sender /\ faults' = faults
        /\ connector' = [connector EXCEPT !.next = @ + 1,
                !.step = IF connector.next = connector.last THEN "committing" ELSE @]
    BY <1>3 DEF Acknowledge
  <2>2. connector' = [step |-> IF connector.next = connector.last THEN "committing"
                               ELSE connector.step,
                      next |-> connector.next + 1, last |-> connector.last]
    BY <1>1, <2>1 DEF ConnectorType
  <2>3. connector.step = "ingesting" /\ connector.next = p
    BY <1>3 DEF ReaderAt
  <2>4. connector' \in ConnectorType
    BY <1>1, <2>2 DEF ConnectorType
  <2>5. SettledTo("log", connector.next - 1)'
    <3>1. connector'.next - 1 = p
      BY <1>1, <2>2, <2>3
    <3> QED
      BY <1>3, <3>1 DEF SettledTo
  <2>6. ReadersOK'
    <3>1. connector.next <= connector.last /\ connector.last <= produced["log"]
      BY <2>3 DEF IInv, ReadersOK
    <3>2. connector'.last = connector.last /\ connector'.next = connector.next + 1
      BY <2>2
    <3>3. /\ connector.next = connector.last => connector'.step = "committing"
          /\ connector.next # connector.last => connector'.step = "ingesting"
      BY <2>2, <2>3
    <3> QED
      BY <1>1, <2>1, <3>1, <3>2, <3>3 DEF IInv, ReadersOK
  <2> QED
    BY <1>1, <1>2, <2>1, <2>4, <2>5, <2>6 DEF ReadersTyped
<1>4. CASE s = "hook"
  <2>1. connector' = connector /\ sender.step = "claimed" /\ p = sender.acked + 1
    BY <1>4 DEF Acknowledge, ReaderAt
  <2>2. CASE sender' = [step |-> "idle", acked |-> sender.acked + 1] /\ UNCHANGED faults
    <3>1. sender'.acked = p /\ SettledTo("hook", sender.acked)'
      BY <1>4, <2>1, <2>2 DEF SettledTo
    <3>2. ReadersOK'
      BY <2>1, <2>2 DEF IInv, ReadersOK
    <3>3. sender' \in [step : {"idle", "claimed"}, acked : Nat]
      BY <1>1, <2>2
    <3> QED
      BY <1>1, <1>2, <2>1, <2>2, <3>1, <3>2, <3>3 DEF ReadersTyped
  <2>3. CASE sender' = [sender EXCEPT !.step = "idle"] /\ Fault
    <3>1. sender' = [step |-> "idle", acked |-> sender.acked]
      BY <1>1, <2>3
    <3>2. SettledTo("hook", sender.acked)'
      <4>1. SettledTo("hook", sender.acked) /\ sender'.acked = sender.acked
        BY <3>1 DEF IInv, PositionsOK
      <4> QED
        BY <1>1, <4>1 DEF SettledTo
    <3>3. ReadersOK'
      BY <2>1, <3>1 DEF IInv, ReadersOK
    <3>4. faults' \in 0 .. MaxFaults
      BY <1>1, <2>3, FaultCounts
    <3>5. sender' \in [step : {"idle", "claimed"}, acked : Nat]
      BY <1>1, <3>1
    <3> QED
      BY <1>1, <1>2, <2>1, <3>2, <3>3, <3>4, <3>5 DEF ReadersTyped
  <2> QED
    BY <1>4, <2>2, <2>3 DEF Acknowledge
<1> QED
  BY <1>3, <1>4, Constants

\* An error takes the reader of the log back to the broker's offset or the
\* checkpoint, and the sender back to the event it has no answer for.
LEMMA RaiseKeeps ==
    ASSUME IInv, NEW s \in Streams, Raise(s), faults' \in 0 .. MaxFaults,
           produced' = produced,
           \A t \in Streams : \A n \in Nat : SettledTo(t, n) => SettledTo(t, n)'
    PROVE  ReadersTyped'
<1>1. /\ Typed /\ connector \in ConnectorType
      /\ sender \in [step : {"idle", "claimed"}, acked : Nat]
      /\ connector.next \in Nat \ {0} /\ connector.last \in Nat /\ sender.acked \in Nat
      /\ produced \in [Streams -> Nat] /\ "log" \in Streams /\ "hook" \in Streams
      /\ produced["log"] \in Nat
  BY Constants DEF IInv, Typed, ConnectorType
<1>2. \/ connector' = connector
      \/ connector' = [step |-> "down", next |-> 1, last |-> 0]
  BY DEF Raise, Down
<1>3. \/ sender' = sender
      \/ sender' = [step |-> "idle", acked |-> sender.acked]
  BY <1>1 DEF Raise
<1>4. /\ connector' \in ConnectorType
      /\ sender' \in [step : {"idle", "claimed"}, acked : Nat] /\ sender'.acked = sender.acked
      /\ sender'.step = "claimed" => sender.step = "claimed"
      /\ connector' = connector \/ (connector'.next = 1 /\ connector'.last = 0
                                    /\ connector'.step = "down")
  BY <1>1, <1>2, <1>3 DEF ConnectorType
<1>5. ReadersOK'
  BY <1>1, <1>4 DEF IInv, ReadersOK
<1>6. SettledTo("hook", sender.acked)'
  <2>1. SettledTo("hook", sender.acked)
    BY DEF IInv, PositionsOK
  <2> QED
    BY <1>1, <1>4, <2>1 DEF SettledTo
<1>7. SettledTo("log", connector.next - 1)'
  <2>1. SettledTo("log", connector.next - 1) /\ connector.next - 1 \in Nat
    BY <1>1 DEF IInv, PositionsOK
  <2>2. CASE connector' = connector
    BY <1>1, <2>1, <2>2 DEF SettledTo
  <2>3. CASE connector'.next = 1
    BY <1>1, <2>3 DEF SettledTo
  <2> QED
    BY <1>4, <2>2, <2>3
<1> QED
  BY <1>4, <1>5, <1>6, <1>7 DEF ReadersTyped

\* Entries only leave the cache, and letters only when nothing old is cached:
\* changes stay settled.
LEMMA SettledKept ==
    ASSUME stale' \subseteq stale, \A e \in state.letters : e \in state'.letters \/ Fresh(e)
    PROVE  \A e \in Ids : Settled(e) => Settled(e)'
BY DEF Settled, Fresh

\* The parts of the invariant, when the readers and the lock's holder are as they
\* should be and nothing was produced.
LEMMA Together ==
    ASSUME IInv, produced' = produced,
           stale' \subseteq stale, \A e \in state.letters : e \in state'.letters \/ Fresh(e),
           state' \in StateType, Len(state'.seen) <= MaxSeenEvents,
           IsFiniteSet(state'.letters), Cardinality(state'.letters) <= MaxDeadLetters,
           IsFiniteSet(state'.claims), Cardinality(state'.claims) <= MaxReplayTokens,
           \A s \in Streams : \/ state'.checkpoint[s] = state.checkpoint[s]
                              \/ SettledTo(s, state.checkpoint[s])',
           committed' \in Nat, committed' = committed \/ SettledTo("log", committed)',
           \A i \in DOMAIN state'.seen :
              \/ \E j \in DOMAIN state.seen : state'.seen[i] = state.seen[j]
              \/ Happened(state.seen[i])' /\ Settled(state.seen[i])',
           \A e \in state'.letters : e \in state.letters \/ Happened(e),
           crashes' \in 0 .. MaxCrashes, ingest' \in IngestType,
           ReadersTyped', IngestOK'
    PROVE  IInv'
<1>1. Typed' /\ Typed
  BY DEF IInv, Typed, ReadersTyped
<1>2. \A e \in Ids : Settled(e) => Settled(e)'
  BY SettledKept
<1>3. \A s \in Streams : produced[s] <= produced'[s]
  BY DEF IInv, Typed
<1>4. /\ \A e \in Ids : Happened(e) => Happened(e)'
      /\ \A s \in Streams : \A n \in Nat : SettledTo(s, n) => SettledTo(s, n)'
  BY <1>1, <1>2, <1>3, PositionsKept DEF Typed
<1>5. PositionsOK'
  <2>1. \A s \in Streams : state.checkpoint[s] \in Nat /\ SettledTo(s, state.checkpoint[s])
    BY <1>1 DEF IInv, PositionsOK, Typed, StateType
  <2>2. committed \in Nat /\ SettledTo("log", committed) /\ "log" \in Streams
    BY <1>1, Constants DEF IInv, PositionsOK, Typed
  <2>3. ASSUME NEW s \in Streams PROVE SettledTo(s, state.checkpoint[s])'
    <3>1. CASE state'.checkpoint[s] = state.checkpoint[s]
      BY <1>4, <2>1, <3>1 DEF SettledTo
    <3> QED
      BY <3>1
  <2>4. SettledTo("log", committed)'
    <3>1. CASE committed' = committed
      BY <1>4, <2>2, <3>1 DEF SettledTo
    <3> QED
      BY <3>1
  <2> QED
    BY <2>3, <2>4 DEF PositionsOK, ReadersTyped
<1>6. SeenOK'
  <2>1. ASSUME NEW i \in DOMAIN state'.seen PROVE Happened(state.seen[i])' /\ Settled(state.seen[i])'
    <3>1. CASE \E j \in DOMAIN state.seen : state'.seen[i] = state.seen[j]
      <4>1. PICK j \in DOMAIN state.seen : state'.seen[i] = state.seen[j]
        BY <3>1
      <4>2. Happened(state.seen[j]) /\ Settled(state.seen[j])
        BY DEF IInv, SeenOK
      <4>3. state.seen \in Seq(Ids)
        BY <1>1 DEF Typed, StateType
      <4>4. PICK e \in Ids : state.seen[j] = e
        BY <4>3, ElementOfSeq
      <4>5. Happened(e)' /\ Settled(e)' /\ state'.seen[i] = e
        BY <1>2, <1>4, <4>1, <4>2, <4>4
      <4> QED
        BY <4>5 DEF Happened, Settled, Fresh
    <3> QED
      BY <3>1
  <2>2. ASSUME NEW e \in state'.letters PROVE Happened(e)'
    <3>1. e \in Ids
      BY DEF StateType
    <3>2. Happened(e)
      BY DEF IInv, SeenOK
    <3> QED
      BY <1>4, <3>1, <3>2
  <2> QED
    BY <2>1, <2>2 DEF SeenOK
<1> QED
  BY <1>1, <1>5, <1>6 DEF IInv, ReadersTyped

\* The same when the state file stays as it is.
LEMMA TogetherUnstored ==
    ASSUME IInv, produced' = produced, stale' \subseteq stale, state' = state,
           committed' \in Nat, committed' = committed \/ SettledTo("log", committed)',
           crashes' \in 0 .. MaxCrashes, ingest' \in IngestType, ReadersTyped', IngestOK'
    PROVE  IInv'
<1>1. /\ state' \in StateType /\ Len(state'.seen) <= MaxSeenEvents
      /\ IsFiniteSet(state'.letters) /\ Cardinality(state'.letters) <= MaxDeadLetters
      /\ IsFiniteSet(state'.claims) /\ Cardinality(state'.claims) <= MaxReplayTokens
  BY DEF IInv, Typed
<1> QED
  BY <1>1, Together

\* Nobody acknowledges anything: the readers stay where they are.
LEMMA ReadersStay ==
    ASSUME IInv, produced' = produced, connector' = connector, sender' = sender,
           stale' \subseteq stale, \A e \in state.letters : e \in state'.letters \/ Fresh(e),
           faults' \in 0 .. MaxFaults
    PROVE  ReadersTyped'
<1>1. \A e \in Ids : Settled(e) => Settled(e)'
  BY SettledKept
<1>2. /\ Typed /\ connector.next - 1 \in Nat /\ sender.acked \in Nat
      /\ "log" \in Streams /\ "hook" \in Streams
      /\ produced \in [Streams -> Nat] /\ \A s \in Streams : produced[s] <= produced'[s]
  BY Constants DEF IInv, Typed, ConnectorType
<1>3. \A s \in Streams : \A n \in Nat : SettledTo(s, n) => SettledTo(s, n)'
  BY <1>1, <1>2, PositionsKept
<1>4. SettledTo("log", connector.next - 1)' /\ SettledTo("hook", sender.acked)'
  BY <1>2, <1>3 DEF IInv, PositionsOK, SettledTo
<1> QED
  BY <1>4 DEF IInv, Typed, ReadersTyped, ReadersOK

\* The event a reader asks for has happened, and all before it are settled.
LEMMA ReaderPosition ==
    ASSUME IInv, NEW s \in Streams, NEW p, ReaderAt(s, p)
    PROVE  /\ p \in Nat \ {0} /\ p <= produced[s] /\ p \in DOMAIN Feed[s]
           /\ Feed[s][p] \in Ids /\ Happened(Feed[s][p]) /\ SettledTo(s, p - 1)
           /\ Settled(Feed[s][p]) => SettledTo(s, p)
<1>1. /\ connector.next \in Nat \ {0} /\ sender.acked \in Nat /\ produced \in [Streams -> Nat]
      /\ connector.last \in Nat /\ "log" \in Streams /\ "hook" \in Streams
      /\ produced[s] <= Len(Feed[s])
  BY Constants DEF IInv, Typed, ConnectorType
<1>2. p \in Nat \ {0} /\ p <= produced[s] /\ SettledTo(s, p - 1)
  <2>1. CASE s = "log"
    <3>1. p = connector.next /\ connector.next <= connector.last /\ connector.last <= produced["log"]
      BY <2>1 DEF ReaderAt, IInv, ReadersOK
    <3>2. SettledTo("log", connector.next - 1)
      BY DEF IInv, PositionsOK
    <3> QED
      BY <1>1, <2>1, <3>1, <3>2
  <2>2. CASE s = "hook"
    <3>1. p = sender.acked + 1 /\ sender.acked + 1 <= produced["hook"]
      BY <2>2 DEF ReaderAt, IInv, ReadersOK
    <3>2. SettledTo("hook", sender.acked) /\ p - 1 = sender.acked
      BY <1>1, <3>1 DEF IInv, PositionsOK
    <3> QED
      BY <1>1, <2>2, <3>1, <3>2
  <2> QED
    BY <2>1, <2>2, Constants
<1>3. produced[s] \in Nat /\ Len(Feed[s]) \in Nat /\ Feed[s] \in Seq(Ids)
      /\ DOMAIN Feed[s] = 1 .. Len(Feed[s])
  BY <1>1, Constants
<1>4. p \in DOMAIN Feed[s]
  BY <1>1, <1>2, <1>3
<1>5. Feed[s][p] \in Ids
  BY <1>3, <1>4, ElementOfSeq
<1>6. Happened(Feed[s][p])
  <2>1. p \in 1 .. produced[s]
    BY <1>2, <1>3
  <2> QED
    BY <2>1 DEF Happened
<1>7. Settled(Feed[s][p]) => SettledTo(s, p)
  BY <1>2, <1>3 DEF SettledTo
<1> QED
  BY <1>2, <1>4, <1>5, <1>6, <1>7

\* Nobody holds the lock.
LEMMA IdleOK ==
    ASSUME ingest' = Idle
    PROVE  ingest' \in IngestType /\ IngestOK'
BY Constants DEF Idle, IngestType, IngestOK

----------------------------------------------------------------------------
(* The steps *)

\* An event that is known, or refused, or whose ingestion begins.
LEMMA BeginStep ==
    ASSUME IInv, NEW s \in Streams, NEW p \in DOMAIN Feed[s], Begin(s, p)
    PROVE  IInv'
<1> DEFINE e == Feed[s][p]
<1>1. /\ ingest = Idle /\ Asked(s, p)
      /\ UNCHANGED <<produced, stale, state, committed, crashes>>
  BY DEF Begin
<1>2. ReaderAt(s, p)
  BY <1>1, Constants DEF Asked, ReaderAt
<1>3. /\ p \in Nat \ {0} /\ p <= produced[s] /\ e \in Ids /\ Happened(e)
      /\ Settled(e) => SettledTo(s, p)
  BY <1>2, ReaderPosition
<1>4. /\ committed \in Nat /\ crashes \in 0 .. MaxCrashes /\ faults \in 0 .. MaxFaults
      /\ sender \in [step : {"idle", "claimed"}, acked : Nat]
  BY DEF IInv, Typed
<1>5. \A t \in Streams : \A n \in Nat : SettledTo(t, n) => SettledTo(t, n)'
  BY <1>1 DEF SettledTo, Settled, Fresh
<1>6. CASE Known(s, p, e) /\ Acknowledge(s) /\ UNCHANGED ingest
  <2>1. Settled(e)
    <3>1. CASE Seen(e)
      BY <3>1 DEF Seen, IInv, SeenOK
    <3>2. CASE p <= state.checkpoint[s]
      <4>1. SettledTo(s, state.checkpoint[s]) /\ state.checkpoint[s] \in Nat
        BY DEF IInv, PositionsOK, Typed, StateType
      <4> QED
        BY <1>3, <3>2, <4>1 DEF SettledTo
    <3> QED
      BY <1>6, <3>1, <3>2 DEF Known
  <2>2. ReadersTyped'
    <3>1. SettledTo(s, p)'
      BY <1>3, <1>5, <2>1
    <3> QED
      BY <1>1, <1>2, <1>3, <1>5, <1>6, <3>1, AcknowledgeKeeps
  <2>3. ingest' = Idle
    BY <1>1, <1>6
  <2> QED
    BY <1>1, <1>4, <2>2, <2>3, IdleOK, TogetherUnstored
<1>7. CASE /\ e \notin Malformed /\ e \in Oversized /\ UNCHANGED <<ingest, faults>>
           /\ IF s = "log" THEN Raise(s)
              ELSE UNCHANGED connector /\ sender' = [step |-> "idle", acked |-> sender.acked + 1]
  <2>1. ingest' = Idle /\ faults' \in 0 .. MaxFaults
    BY <1>1, <1>4, <1>7
  <2>2. CASE s = "log"
    <3>1. ReadersTyped'
      BY <1>1, <1>5, <1>7, <2>1, <2>2, RaiseKeeps
    <3> QED
      BY <1>1, <1>4, <2>1, <3>1, IdleOK, TogetherUnstored
  <2>3. CASE s # "log"
    <3>1. s = "hook" /\ Acknowledge(s)
      BY <1>7, <2>3, Constants DEF Acknowledge
    <3>2. SettledTo(s, p)'
      BY <1>3, <1>5, <1>7 DEF Settled
    <3>3. ReadersTyped'
      BY <1>1, <1>2, <1>3, <1>5, <3>1, <3>2, AcknowledgeKeeps
    <3> QED
      BY <1>1, <1>4, <2>1, <3>3, IdleOK, TogetherUnstored
  <2> QED
    BY <2>2, <2>3
<1>8. CASE /\ UNCHANGED <<connector, sender, faults>>
           /\ \E step \in {"deleting", "failing"} :
                 ingest' = [who |-> s, step |-> step, pos |-> p, id |-> e]
  <2>1. ReadersTyped'
    BY <1>1, <1>4, <1>8, ReadersStay
  <2>2. PICK step \in {"deleting", "failing"} :
           ingest' = [who |-> s, step |-> step, pos |-> p, id |-> e]
    BY <1>8
  <2>3. ingest' \in IngestType
    BY <1>3, <2>2 DEF IngestType
  <2>4. IngestOK'
    <3>1. Happened(ingest.id)' /\ ingest'.id \in Ids
      BY <1>1, <1>3, <2>2 DEF Happened
    <3>2. /\ ingest'.who = s /\ ingest'.pos = p /\ ingest'.id = Feed[s][p]
          /\ ingest'.step \in {"deleting", "failing"}
      BY <2>2
    <3> QED
      BY <1>2, <1>8, <3>1, <3>2, Constants DEF IngestOK, ReaderAt
  <2> QED
    BY <1>1, <1>4, <2>1, <2>3, <2>4, TogetherUnstored
<1> QED
  <2>1. CASE /\ ~Known(s, p, e) /\ e \in Malformed
             /\ ingest' = [[who |-> s, step |-> "deleting", pos |-> p, id |-> e]
                             EXCEPT !.step = "failing"]
             /\ UNCHANGED <<connector, sender, faults>>
    <3>1. ingest' = [who |-> s, step |-> "failing", pos |-> p, id |-> e]
      BY <2>1
    <3> QED
      BY <1>8, <2>1, <3>1
  <2>2. CASE /\ ingest' = [who |-> s, step |-> "deleting", pos |-> p, id |-> e]
             /\ UNCHANGED <<connector, sender, faults>>
    BY <1>8, <2>2
  <2> QED
    BY <1>6, <1>7, <2>1, <2>2 DEF Begin

\* The storage is called: what it has removed of the event stays removed, for a
\* change happens once.
LEMMA InvalidateStep ==
    ASSUME IInv
    PROVE  /\ DeleteMany => IInv'
           /\ InvalidateTags => IInv'
<1>1. /\ committed \in Nat /\ crashes \in 0 .. MaxCrashes /\ faults \in 0 .. MaxFaults
      /\ Typed /\ ingest \in IngestType /\ stale \subseteq UNION {{e} \X Derived(e) : e \in Ids}
  BY DEF IInv, Typed
<1>2. ASSUME NEW entries, NEW step \in {"deleting", "tagging"},
             NEW then \in {"tagging", "completing"}, Invalidate(entries, step, then),
             then = "tagging" => entries = Closure[ingest.id],
             then = "completing" => /\ step = "tagging"
                                    /\ entries = IF ingest.id \in Tagged THEN {Tag} ELSE {}
      PROVE  IInv'
  <2>1. /\ UNCHANGED <<produced, state, connector, committed, sender, crashes>>
        /\ ingest.step = step /\ stale' \subseteq stale /\ faults' \in 0 .. MaxFaults
        /\ \/ ingest' = [ingest EXCEPT !.step = "failing"]
           \/ /\ ingest' = [ingest EXCEPT !.step = then]
              /\ stale' = {x \in stale : x[2] \notin entries}
    BY <1>1, <1>2, FaultCounts DEF Invalidate
  <2>2. /\ ingest' \in IngestType /\ ingest'.who = ingest.who /\ ingest'.pos = ingest.pos
        /\ ingest'.id = ingest.id /\ ingest'.step \in {"failing", then}
        /\ ingest'.step = "failing" \/ stale' = {x \in stale : x[2] \notin entries}
    BY <1>1, <2>1 DEF IngestType
  <2>3. ReadersTyped'
    BY <2>1, ReadersStay
  <2>4. IngestOK'
    <3>1. /\ ingest'.who # "none" => ingest'.id \in Ids /\ Happened(ingest.id)'
          /\ ingest'.who = "none" => ingest'.step = "none"
      BY <2>1, <2>2 DEF IInv, IngestOK, Happened
    <3>2. /\ ingest'.who = "log" =>
                /\ connector'.step = "ingesting" /\ ingest'.pos = connector'.next
                /\ ingest'.id = Feed["log"][ingest'.pos]
          /\ ingest'.who = "hook" =>
                /\ sender'.step = "claimed" /\ ingest'.pos = sender'.acked + 1
                /\ ingest'.id = Feed["hook"][ingest'.pos]
      BY <2>1, <2>2 DEF IInv, IngestOK
    <3>3. ingest'.step = "tagging" =>
             \A x \in stale' : x[1] = ingest'.id => x[2] \notin Closure[ingest'.id]
      BY <1>2, <2>2
    <3>4. ASSUME ingest'.step = "completing" PROVE Fresh(ingest.id)'
      <4>1. /\ stale' = {x \in stale : x[2] \notin entries} /\ ingest.step = "tagging"
            /\ entries = IF ingest.id \in Tagged THEN {Tag} ELSE {}
        BY <1>2, <2>1, <2>2, <3>4
      <4>2. ASSUME NEW x \in stale', x[1] = ingest.id PROVE FALSE
        <5>1. x \in stale /\ x[2] \notin entries /\ x[2] \notin Closure[ingest.id]
          BY <4>1, <4>2 DEF IInv, IngestOK
        <5>2. x[2] \in Derived(ingest.id)
          BY <1>1, <4>2, <5>1
        <5> QED
          BY <4>1, <5>1, <5>2 DEF Derived
      <4> QED
        BY <2>2, <4>2 DEF Fresh
    <3> QED
      BY <3>1, <3>2, <3>3, <3>4 DEF IngestOK
  <2> QED
    BY <1>1, <2>1, <2>2, <2>3, <2>4, TogetherUnstored
<1>3. ASSUME DeleteMany PROVE IInv'
  BY <1>2, <1>3 DEF DeleteMany
<1>4. ASSUME InvalidateTags PROVE IInv'
  BY <1>2, <1>4 DEF InvalidateTags
<1> QED
  BY <1>3, <1>4

\* The state after an event is recorded.
LEMMA RecordedType ==
    ASSUME state \in StateType, NEW s \in Streams, NEW p \in Nat, NEW e \in Ids
    PROVE  Recorded(s, p, e) = [checkpoint |-> [state.checkpoint EXCEPT ![s] = p],
                                seen |-> Remember(state.seen, e), letters |-> state.letters,
                                claims |-> state.claims]
<1> DEFINE c == [state.checkpoint EXCEPT ![s] = p]
           n == Remember(state.seen, e)
           d == [state EXCEPT !.checkpoint = c, !.seen = n]
<1>1. Recorded(s, p, e) = d
  BY DEF Recorded, StateType
<1>2. d = [state EXCEPT !.checkpoint = c, !.seen = n]
  OBVIOUS
<1> HIDE DEF c, n, d
<1>3. d = [checkpoint |-> c, seen |-> n, letters |-> state.letters, claims |-> state.claims]
  BY <1>2 DEF StateType
<1> QED
  BY <1>1, <1>3 DEF c, n

\* An event is recorded, applied or with a letter, and its reader told.
LEMMA RecordStep ==
    ASSUME IInv, NEW s \in Streams, NEW L \in SUBSET {ingest.id},
           ingest.who = s, Fresh(ingest.id) \/ L # {},
           state' = [checkpoint |-> [state.checkpoint EXCEPT ![s] = ingest.pos],
                     seen |-> Remember(state.seen, ingest.id),
                     letters |-> state.letters \cup L, claims |-> state.claims],
           RoomFor(ingest.id) \/ L = {},
           ingest' = Idle, Acknowledge(s), UNCHANGED <<produced, stale, committed, crashes>>
    PROVE  IInv'
<1>1. /\ Typed /\ state \in StateType /\ state.seen \in Seq(Ids) /\ state.letters \subseteq Ids
      /\ state.checkpoint \in [Streams -> Nat] /\ state.claims \subseteq DOMAIN Hook
      /\ committed \in Nat /\ crashes \in 0 .. MaxCrashes
  BY DEF IInv, Typed, StateType
<1>2. ReaderAt(s, ingest.pos) /\ ingest.id = Feed[s][ingest.pos]
  BY Constants DEF IInv, IngestOK, ReaderAt
<1>3. /\ ingest.pos \in Nat /\ ingest.id \in Ids /\ Happened(ingest.id)
      /\ Settled(ingest.id) => SettledTo(s, ingest.pos)
      /\ ingest.pos <= produced[s] /\ SettledTo(s, ingest.pos - 1)
  BY <1>2, ReaderPosition
<1>4. /\ Remember(state.seen, ingest.id) \in Seq(Ids)
      /\ Len(Remember(state.seen, ingest.id)) <= MaxSeenEvents
      /\ \A i \in DOMAIN Remember(state.seen, ingest.id) :
            \/ Remember(state.seen, ingest.id)[i] = ingest.id
            \/ \E j \in DOMAIN state.seen : Remember(state.seen, ingest.id)[i] = state.seen[j]
  BY <1>1, <1>3, RememberType
<1>5. /\ state'.checkpoint = [state.checkpoint EXCEPT ![s] = ingest.pos]
      /\ state'.seen = Remember(state.seen, ingest.id)
      /\ state'.letters = state.letters \cup L /\ state'.claims = state.claims
  OBVIOUS
<1>6. state' \in StateType
  BY <1>1, <1>3, <1>4 DEF StateType
<1>7. IsFiniteSet(state'.letters) /\ Cardinality(state'.letters) <= MaxDeadLetters
  <2>1. IsFiniteSet(state.letters) /\ Cardinality(state.letters) <= MaxDeadLetters
    BY DEF IInv, Typed
  <2>2. CASE L = {} \/ ingest.id \in state.letters
    <3>1. state'.letters = state.letters
      BY <1>5, <2>2
    <3> QED
      BY <2>1, <3>1
  <2>3. CASE L # {} /\ ingest.id \notin state.letters
    <3>1. state'.letters = state.letters \cup {ingest.id}
      BY <1>5, <2>3
    <3>2. Cardinality(state.letters) < MaxDeadLetters
      BY <2>3 DEF RoomFor
    <3>3. IsFiniteSet(state'.letters) /\ Cardinality(state'.letters) = Cardinality(state.letters) + 1
      BY <2>1, <2>3, <3>1, FS_AddElement
    <3>4. Cardinality(state.letters) \in Nat /\ MaxDeadLetters \in Nat
      BY <2>1, FS_CardinalityType, Constants
    <3> QED
      BY <3>2, <3>3, <3>4
  <2> QED
    BY <2>2, <2>3
<1>8. \A e \in Ids : Settled(e) => Settled(e)'
  BY <1>5, SettledKept
<1>9. \A t \in Streams : \A n \in Nat : SettledTo(t, n) => SettledTo(t, n)'
  <2>1. produced' \in [Streams -> Nat] /\ \A t \in Streams : produced[t] <= produced'[t]
    BY <1>1 DEF Typed
  <2> QED
    BY <1>1, <1>8, <2>1, PositionsKept
<1>10. PICK e \in Ids : e = ingest.id
  BY <1>3
<1>11. PICK p \in Nat : p = ingest.pos
  BY <1>3
<1>12. Settled(e)' /\ Happened(e)'
  BY <1>3, <1>5, <1>10 DEF Settled, Fresh, Happened
<1>13. SettledTo(s, p)'
  <2>1. SettledTo(s, p - 1) /\ p <= produced[s] /\ Feed[s][p] = e
    BY <1>2, <1>3, <1>10, <1>11
  <2>2. p # 0 => SettledTo(s, p - 1)'
    BY <1>9, <2>1
  <2> QED
    BY <1>1, <1>12, <2>1, <2>2 DEF SettledTo, Typed
<1>14. ReadersTyped'
  BY <1>2, <1>9, <1>11, <1>13, AcknowledgeKeeps
<1>15. \A t \in Streams : \/ state'.checkpoint[t] = state.checkpoint[t]
                          \/ SettledTo(t, state.checkpoint[t])'
  <2>1. state'.checkpoint[s] = p
    BY <1>1, <1>5, <1>11
  <2>2. SettledTo(s, state.checkpoint[s])'
    BY <1>13, <2>1 DEF SettledTo
  <2>3. \A t \in Streams \ {s} : state'.checkpoint[t] = state.checkpoint[t]
    BY <1>1, <1>5
  <2> QED
    BY <2>2, <2>3
<1>16. ASSUME NEW i \in DOMAIN state'.seen
       PROVE  \/ \E j \in DOMAIN state.seen : state'.seen[i] = state.seen[j]
              \/ Happened(state.seen[i])' /\ Settled(state.seen[i])'
  <2>1. CASE state'.seen[i] = e
    BY <1>12, <2>1 DEF Happened, Settled, Fresh
  <2> QED
    BY <1>4, <1>5, <1>10, <2>1
<1>17. \A d \in state'.letters : d \in state.letters \/ Happened(d)
  BY <1>3, <1>5
<1>18. /\ IsFiniteSet(state'.claims) /\ Cardinality(state'.claims) <= MaxReplayTokens
       /\ Len(state'.seen) <= MaxSeenEvents
  BY <1>1, <1>4, <1>5 DEF Typed
<1> QED
  BY <1>1, <1>5, <1>6, <1>7, <1>14, <1>15, <1>16, <1>17, <1>18, IdleOK, Together

\* A letter joins the others.
LEMMA LetterFields ==
    ASSUME NEW a, NEW c, NEW n, NEW l, NEW m, NEW L,
           a = [checkpoint |-> c, seen |-> n, letters |-> l, claims |-> m]
    PROVE  [a EXCEPT !.letters = @ \cup L]
               = [checkpoint |-> c, seen |-> n, letters |-> l \cup L, claims |-> m]
OBVIOUS

\* complete and dead_letter, or neither: the call raises and nothing is recorded.
LEMMA EndStep ==
    ASSUME IInv, NEW s \in Streams
    PROVE  /\ Complete(s) => IInv'
           /\ DeadLetter(s) => IInv'
           /\ Unrecorded(s) => IInv'
<1>1. /\ Typed /\ state \in StateType /\ committed \in Nat /\ crashes \in 0 .. MaxCrashes
      /\ ingest \in IngestType /\ ingest.pos \in Nat /\ faults \in 0 .. MaxFaults
  BY DEF IInv, Typed, IngestType
<1>2. ingest.who = s => ingest.id \in Ids
  BY Constants DEF IInv, IngestOK
<1>3. ASSUME Complete(s) PROVE IInv'
  <2>1. /\ ingest.who = s /\ Fresh(ingest.id)
        /\ state' = Recorded(s, ingest.pos, ingest.id)
        /\ ingest' = Idle /\ Acknowledge(s) /\ UNCHANGED <<produced, stale, committed, crashes>>
    BY <1>3 DEF Complete, IInv, IngestOK
  <2>2. state' = [checkpoint |-> [state.checkpoint EXCEPT ![s] = ingest.pos],
                  seen |-> Remember(state.seen, ingest.id),
                  letters |-> state.letters \cup {}, claims |-> state.claims]
    BY <1>1, <1>2, <2>1, RecordedType
  <2>3. {} \in SUBSET {ingest.id}
    OBVIOUS
  <2> QED
    BY <2>1, <2>2, <2>3, RecordStep
<1>4. ASSUME DeadLetter(s) PROVE IInv'
  <2>1. /\ ingest.who = s /\ RoomFor(ingest.id)
        /\ ingest' = Idle /\ Acknowledge(s) /\ UNCHANGED <<produced, stale, committed, crashes>>
        /\ state' = [Recorded(s, ingest.pos, ingest.id) EXCEPT !.letters = @ \cup {ingest.id}]
    BY <1>4 DEF DeadLetter
  <2>2. Recorded(s, ingest.pos, ingest.id)
           = [checkpoint |-> [state.checkpoint EXCEPT ![s] = ingest.pos],
              seen |-> Remember(state.seen, ingest.id),
              letters |-> state.letters, claims |-> state.claims]
    BY <1>1, <1>2, <2>1, RecordedType
  <2>3. state' = [checkpoint |-> [state.checkpoint EXCEPT ![s] = ingest.pos],
                  seen |-> Remember(state.seen, ingest.id),
                  letters |-> state.letters \cup {ingest.id}, claims |-> state.claims]
    BY <2>1, <2>2, LetterFields
  <2>4. {ingest.id} \in SUBSET {ingest.id} /\ {ingest.id} # {}
    OBVIOUS
  <2> QED
    BY <2>1, <2>3, <2>4, RecordStep
<1>5. ASSUME Unrecorded(s) PROVE IInv'
  <2>1. /\ ingest' = Idle /\ Raise(s) /\ UNCHANGED <<produced, stale, state, committed, crashes>>
        /\ faults' \in 0 .. MaxFaults
    BY <1>1, <1>5, FaultCounts DEF Unrecorded
  <2>2. \A t \in Streams : \A n \in Nat : SettledTo(t, n) => SettledTo(t, n)'
    BY <2>1 DEF SettledTo, Settled, Fresh
  <2>3. ReadersTyped'
    BY <2>1, <2>2, RaiseKeeps
  <2> QED
    BY <1>1, <2>1, <2>3, IdleOK, TogetherUnstored
<1> QED
  BY <1>3, <1>4, <1>5

\* A letter is retried, and removed when nothing older than its change is cached.
LEMMA RetryStep ==
    ASSUME IInv
    PROVE  /\ \A e \in Ids : Retry(e) => IInv'
           /\ EndRetry => IInv'
<1>1. /\ Typed /\ state \in StateType /\ committed \in Nat /\ crashes \in 0 .. MaxCrashes
      /\ faults \in 0 .. MaxFaults
  BY DEF IInv, Typed
<1>2. ASSUME NEW e \in Ids, Retry(e) PROVE IInv'
  <2>1. /\ UNCHANGED <<produced, stale, state, connector, committed, sender, faults, crashes>>
        /\ ingest' = [who |-> "retry", pos |-> 0, id |-> e,
                      step |-> IF e \in Malformed THEN "failing" ELSE "deleting"]
        /\ Happened(e)
    BY <1>2 DEF Retry, IInv, SeenOK
  <2>2. ReadersTyped'
    BY <1>1, <2>1, ReadersStay
  <2>3. ingest' \in IngestType
    BY <2>1 DEF IngestType
  <2>4. IngestOK'
    <3>1. Happened(ingest.id)' /\ ingest'.id \in Ids
      BY <2>1 DEF Happened
    <3> QED
      BY <2>1, <3>1 DEF IngestOK
  <2> QED
    BY <1>1, <2>1, <2>2, <2>3, <2>4, TogetherUnstored
<1>3. ASSUME EndRetry PROVE IInv'
  <2>1. /\ UNCHANGED <<produced, stale, connector, committed, sender, crashes>>
        /\ ingest' = Idle /\ faults' \in 0 .. MaxFaults
        /\ \/ state' = state
           \/ /\ Fresh(ingest.id)
              /\ state' = [state EXCEPT !.letters = @ \ {ingest.id}]
    BY <1>1, <1>3, FaultCounts DEF EndRetry, IInv, IngestOK
  <2>2. CASE state' = state
    <3>1. ReadersTyped'
      BY <2>1, <2>2, ReadersStay
    <3> QED
      BY <1>1, <2>1, <2>2, <3>1, IdleOK, TogetherUnstored
  <2>3. CASE Fresh(ingest.id) /\ state' = [state EXCEPT !.letters = @ \ {ingest.id}]
    <3>1. /\ state' \in StateType /\ state'.letters = state.letters \ {ingest.id}
          /\ state'.seen = state.seen /\ state'.checkpoint = state.checkpoint
          /\ state'.claims = state.claims
      BY <1>1, <2>3 DEF StateType
    <3>2. \A e \in state.letters : e \in state'.letters \/ Fresh(e)
      BY <2>3, <3>1
    <3>3. ReadersTyped'
      BY <2>1, <3>2, ReadersStay
    <3>4. IsFiniteSet(state'.letters) /\ Cardinality(state'.letters) <= MaxDeadLetters
      <4>1. IsFiniteSet(state.letters) /\ Cardinality(state.letters) <= MaxDeadLetters
        BY <1>1 DEF Typed
      <4>2. /\ IsFiniteSet(state'.letters) /\ Cardinality(state'.letters) <= Cardinality(state.letters)
            /\ Cardinality(state'.letters) \in Nat /\ Cardinality(state.letters) \in Nat
        BY <3>1, <4>1, FS_Subset, FS_CardinalityType
      <4> QED
        BY <4>1, <4>2, Constants
    <3>5. /\ IsFiniteSet(state'.claims) /\ Cardinality(state'.claims) <= MaxReplayTokens
          /\ Len(state'.seen) <= MaxSeenEvents
      BY <1>1, <3>1 DEF Typed
    <3> QED
      BY <1>1, <2>1, <3>1, <3>2, <3>3, <3>4, <3>5, IdleOK, Together
  <2> QED
    BY <2>1, <2>2, <2>3
<1> QED
  BY <1>2, <1>3

\* A batch begins after a settled position, and its offset is committed when all of
\* it is settled.
LEMMA ReadStep ==
    ASSUME IInv
    PROVE  /\ Poll => IInv'
           /\ Commit => IInv'
<1>1. /\ Typed /\ state \in StateType /\ committed \in Nat /\ crashes \in 0 .. MaxCrashes
      /\ faults \in 0 .. MaxFaults /\ ingest \in IngestType /\ connector \in ConnectorType
      /\ connector.next \in Nat \ {0} /\ connector.last \in Nat
      /\ state.checkpoint["log"] \in Nat /\ produced["log"] \in Nat
      /\ "log" \in Streams /\ "hook" \in Streams
      /\ sender \in [step : {"idle", "claimed"}, acked : Nat]
  BY Constants DEF IInv, Typed, StateType, ConnectorType
<1>2. /\ SettledTo("log", committed) /\ SettledTo("log", state.checkpoint["log"])
      /\ SettledTo("log", connector.next - 1) /\ SettledTo("hook", sender.acked)
  BY <1>1 DEF IInv, PositionsOK
<1>3. ASSUME UNCHANGED <<produced, stale, state>>
      PROVE  \A t \in Streams : \A n \in Nat : SettledTo(t, n) => SettledTo(t, n)'
  BY <1>3 DEF SettledTo, Settled, Fresh
<1>4. ASSUME UNCHANGED <<produced, stale, ingest, sender>>, ingest.who # "log"
      PROVE  IngestOK' /\ ingest' \in IngestType
  <2>1. Happened(ingest.id) => Happened(ingest.id)'
    BY <1>4 DEF Happened
  <2> QED
    BY <1>1, <1>4, <2>1 DEF IInv, IngestOK, Fresh
<1>5. ASSUME Poll PROVE IInv'
  <2>1. /\ connector.step \in {"down", "polling"} /\ ingest.who # "log"
        /\ UNCHANGED <<produced, stale, state, ingest, committed, sender, faults, crashes>>
    BY <1>5 DEF Poll, IInv, IngestOK
  <2>2. PICK from \in IF connector.step = "down" THEN {committed, state.checkpoint.log}
                      ELSE {connector.last}, n \in 1 .. MaxRecords :
           /\ from + n <= produced["log"]
           /\ connector' = [step |-> "ingesting", next |-> from + 1, last |-> from + n]
    BY <1>5 DEF Poll
  <2>3. SettledTo("log", from) /\ from \in Nat
    <3>1. connector.step = "polling" => connector.next - 1 = connector.last
      BY <1>1 DEF IInv, ReadersOK
    <3> QED
      BY <1>1, <1>2, <2>1, <2>2, <3>1
  <2>4. n \in Nat /\ n >= 1
    BY <2>2, Constants
  <2>5. /\ connector' \in ConnectorType /\ connector'.step = "ingesting"
        /\ connector'.next = from + 1 /\ connector'.last = from + n
    BY <2>2, <2>3, <2>4 DEF ConnectorType
  <2>6. SettledTo("log", connector.next - 1)'
    <3>1. connector'.next - 1 = from /\ SettledTo("log", from)'
      BY <1>1, <1>3, <2>1, <2>3, <2>5
    <3> QED
      BY <3>1 DEF SettledTo
  <2>7. SettledTo("hook", sender.acked)'
    BY <1>1, <1>2, <1>3, <2>1 DEF SettledTo
  <2>8. ReadersOK'
    BY <2>1, <2>2, <2>3, <2>4, <2>5 DEF ReadersOK, IInv
  <2>9. ReadersTyped'
    BY <1>1, <2>1, <2>5, <2>6, <2>7, <2>8 DEF ReadersTyped
  <2> QED
    BY <1>1, <1>4, <2>1, <2>9, TogetherUnstored
<1>6. ASSUME Commit PROVE IInv'
  <2>1. /\ connector.step = "committing" /\ ingest.who # "log"
        /\ UNCHANGED <<produced, stale, state, ingest, sender, crashes>>
    BY <1>6 DEF Commit, IInv, IngestOK
  <2>2. CASE /\ committed' = connector.last /\ UNCHANGED faults
             /\ connector' = [connector EXCEPT !.step = "polling"]
    <3>1. /\ connector' \in ConnectorType /\ connector'.step = "polling"
          /\ connector'.next = connector.next /\ connector'.last = connector.last
      BY <1>1, <2>2 DEF ConnectorType
    <3>2. connector.next = connector.last + 1
      BY <2>1 DEF IInv, ReadersOK
    <3>3. SettledTo("log", connector.next - 1)' /\ SettledTo("hook", sender.acked)'
      <4>1. connector.next - 1 \in Nat /\ sender.acked \in Nat
        BY <1>1
      <4>2. SettledTo("log", connector.next - 1)'
        BY <1>1, <1>2, <1>3, <2>1, <3>1, <4>1 DEF SettledTo
      <4>3. SettledTo("hook", sender.acked)'
        BY <1>1, <1>2, <1>3, <2>1, <4>1 DEF SettledTo
      <4> QED
        BY <4>2, <4>3
    <3>4. ReadersOK'
      BY <1>1, <2>1, <3>1, <3>2 DEF IInv, ReadersOK
    <3>5. ReadersTyped'
      BY <1>1, <2>1, <2>2, <3>1, <3>3, <3>4 DEF ReadersTyped
    <3>6. committed' \in Nat /\ SettledTo("log", committed)'
      <4>1. committed' = connector'.next - 1
        BY <1>1, <2>2, <3>1, <3>2
      <4> QED
        BY <1>1, <2>2, <3>3, <4>1 DEF SettledTo
    <3> QED
      BY <1>1, <1>4, <2>1, <3>5, <3>6, TogetherUnstored
  <2>3. CASE Fault /\ connector' = Down /\ UNCHANGED committed
    <3>1. Raise("log") /\ faults' \in 0 .. MaxFaults
      BY <1>1, <2>1, <2>3, FaultCounts DEF Raise
    <3>2. ReadersTyped'
      BY <1>1, <1>3, <2>1, <3>1, RaiseKeeps
    <3> QED
      BY <1>1, <1>4, <2>1, <2>3, <3>2, TogetherUnstored
  <2> QED
    BY <1>6, <2>2, <2>3 DEF Commit
<1> QED
  BY <1>5, <1>6

\* A delivery is claimed, or a claim forgotten.
LEMMA ClaimStep ==
    ASSUME IInv
    PROVE  /\ Claim => IInv'
           /\ Expire => IInv'
<1>1. /\ Typed /\ state \in StateType /\ committed \in Nat /\ crashes \in 0 .. MaxCrashes
      /\ faults \in 0 .. MaxFaults /\ ingest \in IngestType /\ produced["hook"] \in Nat
      /\ sender \in [step : {"idle", "claimed"}, acked : Nat] /\ sender.acked \in Nat
      /\ produced["hook"] <= Len(Hook) /\ connector \in ConnectorType
      /\ "log" \in Streams /\ "hook" \in Streams /\ connector.next \in Nat \ {0}
      /\ IsFiniteSet(state.letters) /\ Cardinality(state.letters) <= MaxDeadLetters
      /\ IsFiniteSet(state.claims) /\ Cardinality(state.claims) <= MaxReplayTokens
      /\ Len(state.seen) <= MaxSeenEvents
  BY Constants DEF IInv, Typed, ConnectorType
<1>2. Cardinality(state.claims) \in Nat /\ MaxReplayTokens \in Nat
  BY <1>1, FS_CardinalityType, Constants
<1>3. ASSUME NEW C \in SUBSET DOMAIN Hook, IsFiniteSet(C), Cardinality(C) <= MaxReplayTokens,
             state' = [state EXCEPT !.claims = C],
             UNCHANGED <<produced, stale, ingest, connector, committed, faults, crashes>>,
             ReadersTyped', IngestOK'
      PROVE  IInv'
  <2>1. /\ state' \in StateType /\ state'.letters = state.letters /\ state'.seen = state.seen
        /\ state'.checkpoint = state.checkpoint /\ state'.claims = C
    BY <1>1, <1>3 DEF StateType
  <2>2. /\ IsFiniteSet(state'.letters) /\ Cardinality(state'.letters) <= MaxDeadLetters
        /\ IsFiniteSet(state'.claims) /\ Cardinality(state'.claims) <= MaxReplayTokens
        /\ Len(state'.seen) <= MaxSeenEvents
    BY <1>1, <1>3, <2>1
  <2> QED
    BY <1>1, <1>3, <2>1, <2>2, Together
<1>4. ASSUME Claim PROVE IInv'
  <2> DEFINE p == sender.acked + 1
             C == state.claims \cup {p}
  <2>1. /\ sender.step = "idle" /\ p <= produced["hook"]
        /\ p \notin state.claims /\ Cardinality(state.claims) < MaxReplayTokens
        /\ state' = [state EXCEPT !.claims = C]
        /\ sender' = [sender EXCEPT !.step = "claimed"]
        /\ UNCHANGED <<produced, stale, ingest, connector, committed, faults, crashes>>
    BY <1>4 DEF Claim
  <2>2. p \in DOMAIN Hook
    <3>1. DOMAIN Hook = 1 .. Len(Hook) /\ Len(Hook) \in Nat
      BY Constants
    <3> QED
      BY <1>1, <2>1, <3>1
  <2>3. C \in SUBSET DOMAIN Hook
    BY <1>1, <2>2 DEF StateType
  <2>4. IsFiniteSet(C) /\ Cardinality(C) = Cardinality(state.claims) + 1
    BY <1>1, <2>1, FS_AddElement
  <2>5. Cardinality(C) <= MaxReplayTokens
    BY <1>2, <2>1, <2>4
  <2>6. sender' = [step |-> "claimed", acked |-> sender.acked]
    BY <1>1, <2>1
  <2>7. state'.letters = state.letters
    BY <1>1, <2>1 DEF StateType
  <2>8. /\ \A n \in Nat : SettledTo("log", n) => SettledTo("log", n)'
        /\ \A n \in Nat : SettledTo("hook", n) => SettledTo("hook", n)'
    BY <2>1, <2>7 DEF SettledTo, Settled, Fresh
  <2>9. ReadersTyped'
    <3>1. ReadersOK'
      BY <2>1, <2>6 DEF IInv, ReadersOK
    <3>2. SettledTo("log", connector.next - 1)'
      <4>1. SettledTo("log", connector.next - 1) /\ connector.next - 1 \in Nat
        BY <1>1 DEF IInv, PositionsOK
      <4> QED
        BY <2>1, <2>8, <4>1 DEF SettledTo
    <3>3. SettledTo("hook", sender.acked)'
      <4>1. SettledTo("hook", sender.acked) /\ sender'.acked = sender.acked
        BY <2>6 DEF IInv, PositionsOK
      <4> QED
        BY <1>1, <2>1, <2>8, <4>1 DEF SettledTo
    <3>4. sender' \in [step : {"idle", "claimed"}, acked : Nat]
      BY <1>1, <2>6
    <3> QED
      BY <1>1, <2>1, <3>1, <3>2, <3>3, <3>4 DEF ReadersTyped
  <2>10. IngestOK'
    <3>1. Happened(ingest.id) => Happened(ingest.id)'
      BY <2>1 DEF Happened
    <3> QED
      BY <2>1, <3>1 DEF IInv, IngestOK, Fresh
  <2> HIDE DEF C
  <2> QED
    BY <1>3, <2>1, <2>3, <2>4, <2>5, <2>9, <2>10
<1>5. ASSUME Expire PROVE IInv'
  <2>1. UNCHANGED <<produced, stale, ingest, connector, committed, sender, faults, crashes>>
    BY <1>5 DEF Expire
  <2>2. PICK p \in state.claims : state' = [state EXCEPT !.claims = state.claims \ {p}]
    BY <1>5 DEF Expire
  <2> DEFINE C == state.claims \ {p}
  <2>3. C \in SUBSET DOMAIN Hook
    BY <1>1 DEF StateType
  <2>4. IsFiniteSet(C) /\ Cardinality(C) = Cardinality(state.claims) - 1
    BY <1>1, FS_RemoveElement
  <2>5. Cardinality(C) <= MaxReplayTokens
    BY <1>1, <1>2, <2>4
  <2>6. state'.letters = state.letters
    BY <1>1, <2>2 DEF StateType
  <2>7. ReadersTyped'
    BY <1>1, <2>1, <2>6, ReadersStay
  <2>8. IngestOK'
    <3>1. Happened(ingest.id) => Happened(ingest.id)'
      BY <2>1 DEF Happened
    <3> QED
      BY <2>1, <3>1 DEF IInv, IngestOK, Fresh
  <2> QED
    BY <1>3, <2>1, <2>2, <2>3, <2>4, <2>5, <2>7, <2>8
<1> QED
  BY <1>4, <1>5

\* The process dies: the cache is empty, the state file is not.
LEMMA CrashStep ==
    ASSUME IInv, Crash
    PROVE  IInv'
<1>1. /\ UNCHANGED <<produced, state, committed, faults>> /\ stale' \subseteq stale
      /\ ingest' = Idle /\ connector' = Down /\ sender' = [sender EXCEPT !.step = "idle"]
      /\ crashes < MaxCrashes /\ crashes' = crashes + 1
  BY DEF Crash
<1>2. /\ Typed /\ committed \in Nat /\ crashes \in 0 .. MaxCrashes /\ MaxCrashes \in Nat
      /\ sender \in [step : {"idle", "claimed"}, acked : Nat] /\ sender.acked \in Nat
      /\ faults \in 0 .. MaxFaults /\ "log" \in Streams /\ "hook" \in Streams
      /\ produced \in [Streams -> Nat]
  BY Constants DEF IInv, Typed
<1>3. crashes' \in 0 .. MaxCrashes
  BY <1>1, <1>2
<1>4. /\ connector' \in ConnectorType /\ connector'.step = "down" /\ connector'.next = 1
      /\ connector'.last = 0
  BY <1>1 DEF Down, ConnectorType
<1>5. sender' = [step |-> "idle", acked |-> sender.acked]
  BY <1>1, <1>2
<1>6. \A e \in Ids : Settled(e) => Settled(e)'
  BY <1>1, SettledKept
<1>7. SettledTo("hook", sender.acked)' /\ SettledTo("log", connector.next - 1)'
  <2>1. \A s \in Streams : \A n \in Nat : SettledTo(s, n) => SettledTo(s, n)'
    <3>1. produced' \in [Streams -> Nat] /\ \A s \in Streams : produced[s] <= produced'[s]
      BY <1>1, <1>2
    <3> QED
      BY <1>2, <1>6, <3>1, PositionsKept
  <2>2. SettledTo("hook", sender.acked) /\ sender'.acked = sender.acked
    BY <1>5 DEF IInv, PositionsOK
  <2>3. SettledTo("hook", sender.acked)'
    BY <1>2, <2>1, <2>2 DEF SettledTo
  <2>4. SettledTo("log", connector.next - 1)'
    BY <1>1, <1>2, <1>4 DEF SettledTo
  <2> QED
    BY <2>3, <2>4
<1>8. ReadersTyped'
  <2>1. ReadersOK'
    BY <1>1, <1>2, <1>4, <1>5 DEF ReadersOK
  <2>2. sender' \in [step : {"idle", "claimed"}, acked : Nat]
    BY <1>2, <1>5
  <2> QED
    BY <1>1, <1>2, <1>4, <1>7, <2>1, <2>2 DEF ReadersTyped
<1> QED
  BY <1>1, <1>2, <1>3, <1>8, IdleOK, TogetherUnstored

\* A change happens: it is new, or nothing is older because of it.
LEMMA ProduceStep ==
    ASSUME IInv, NEW s \in Streams, Produce(s)
    PROVE  IInv'
<1> DEFINE p == produced[s] + 1
           e == Feed[s][p]
<1>1. /\ p \in DOMAIN Feed[s] /\ produced' = [produced EXCEPT ![s] = p]
      /\ stale' = IF Happened(e) THEN stale ELSE stale \cup ({e} \X Derived(e))
      /\ UNCHANGED <<state, ingest, connector, committed, sender, faults, crashes>>
  BY DEF Produce, Happened
<1>2. /\ Typed /\ produced \in [Streams -> Nat] /\ Feed[s] \in Seq(Ids)
      /\ DOMAIN Feed[s] = 1 .. Len(Feed[s]) /\ Len(Feed[s]) \in Nat
      /\ \A t \in Streams : produced[t] <= Len(Feed[t])
      /\ "log" \in Streams /\ "hook" \in Streams
  BY Constants DEF IInv, Typed
<1>3. e \in Ids
  BY <1>1, <1>2, ElementOfSeq
<1>4. /\ produced' \in [Streams -> Nat] /\ \A t \in Streams : produced'[t] <= Len(Feed[t])
      /\ \A t \in Streams : produced[t] <= produced'[t]
  BY <1>1, <1>2
<1>5. PICK d \in Ids : d = e
  BY <1>3
<1>6. \A x \in stale' : x \in stale \/ (x \in {d} \X Derived(d) /\ ~Happened(d))
  BY <1>1, <1>5
<1>7. Typed'
  <2>1. stale' \subseteq UNION {{c} \X Derived(c) : c \in Ids}
    BY <1>2, <1>5, <1>6 DEF Typed
  <2> QED
    BY <1>1, <1>2, <1>4, <2>1 DEF Typed
<1>8. \A c \in Ids : Happened(c) /\ Fresh(c) => Fresh(c)'
  <2> SUFFICES ASSUME NEW c \in Ids, Happened(c), Fresh(c), NEW x \in stale', x[1] = c PROVE FALSE
    BY DEF Fresh
  <2>1. x \notin stale
    BY DEF Fresh
  <2>2. x \in {d} \X Derived(d) /\ ~Happened(d)
    BY <1>6, <2>1
  <2>3. x[1] = d
    BY <2>2
  <2> QED
    BY <2>2, <2>3
<1>9. \A c \in Ids : Happened(c) /\ Settled(c) => Settled(c)'
  BY <1>1, <1>8 DEF Settled
<1>10. /\ \A c \in Ids : Happened(c) => Happened(c)'
       /\ \A t \in Streams : \A n \in Nat : SettledTo(t, n) => SettledTo(t, n)'
  BY <1>2, <1>4, <1>9, PositionsKept
<1>11. PositionsOK'
  <2>1. /\ \A t \in Streams : state.checkpoint[t] \in Nat
        /\ committed \in Nat /\ sender.acked \in Nat /\ connector.next - 1 \in Nat
    BY <1>2 DEF Typed, StateType, ConnectorType
  <2>2. /\ \A t \in Streams : SettledTo(t, state.checkpoint[t])
        /\ SettledTo("log", committed) /\ SettledTo("hook", sender.acked)
        /\ SettledTo("log", connector.next - 1)
    BY DEF IInv, PositionsOK
  <2>3. \A t \in Streams : SettledTo(t, state.checkpoint[t])'
    BY <1>1, <1>10, <2>1, <2>2 DEF SettledTo
  <2>4. SettledTo("log", committed)' /\ SettledTo("hook", sender.acked)'
    BY <1>1, <1>2, <1>10, <2>1, <2>2 DEF SettledTo
  <2>5. SettledTo("log", connector.next - 1)'
    BY <1>1, <1>2, <1>10, <2>1, <2>2 DEF SettledTo
  <2> QED
    BY <2>3, <2>4, <2>5 DEF PositionsOK
<1>12. SeenOK'
  <2>1. ASSUME NEW i \in DOMAIN state.seen PROVE Happened(state.seen[i])' /\ Settled(state.seen[i])'
    <3>1. state.seen \in Seq(Ids)
      BY <1>2 DEF Typed, StateType
    <3>2. PICK c \in Ids : state.seen[i] = c
      BY <3>1, ElementOfSeq
    <3>3. Happened(c) /\ Settled(c)
      BY <3>2 DEF IInv, SeenOK
    <3>4. Happened(c)' /\ Settled(c)' /\ state'.seen[i] = c
      BY <1>1, <1>9, <1>10, <3>2, <3>3
    <3> QED
      BY <3>4 DEF Happened, Settled, Fresh
  <2>2. ASSUME NEW c \in state.letters PROVE Happened(c)'
    <3>1. c \in Ids /\ Happened(c)
      BY <1>2 DEF Typed, StateType, IInv, SeenOK
    <3> QED
      BY <1>10, <3>1
  <2> QED
    BY <1>1, <2>1, <2>2 DEF SeenOK
<1>13. ReadersOK'
  <2>1. /\ produced["log"] \in Nat /\ produced'["log"] \in Nat /\ produced["log"] <= produced'["log"]
        /\ produced["hook"] \in Nat /\ produced'["hook"] \in Nat
        /\ produced["hook"] <= produced'["hook"]
        /\ connector.last \in Nat /\ sender.acked \in Nat
    BY <1>2, <1>4 DEF Typed, ConnectorType
  <2> QED
    BY <1>1, <2>1 DEF IInv, ReadersOK
<1>14. IngestOK'
  <2>1. ASSUME ingest.who # "none"
        PROVE  /\ Happened(ingest.id)'
               /\ Fresh(ingest.id) => Fresh(ingest.id)'
               /\ \A x \in stale' : x[1] = ingest.id => x \in stale
    <3>1. PICK c \in Ids : c = ingest.id
      BY <2>1 DEF IInv, IngestOK
    <3>2. Happened(c)
      BY <2>1, <3>1 DEF IInv, IngestOK
    <3>3. Happened(c)' /\ (Fresh(c) => Fresh(c)')
      BY <1>8, <1>10, <3>2
    <3>4. \A x \in stale' : x[1] = c => x \in stale
      BY <1>6, <3>2
    <3> QED
      BY <1>1, <3>1, <3>3, <3>4 DEF Happened, Fresh
  <2>2. CASE ingest.who = "none"
    BY <1>1, <2>2 DEF IInv, IngestOK
  <2>3. CASE ingest.who # "none"
    BY <1>1, <2>1, <2>3 DEF IInv, IngestOK
  <2> QED
    BY <2>2, <2>3
<1> QED
  BY <1>7, <1>11, <1>12, <1>13, <1>14 DEF IInv

----------------------------------------------------------------------------
(* The theorems *)

\* Nothing has happened yet.
LEMMA InitIInv == Init => IInv
<1> SUFFICES ASSUME Init PROVE IInv
  OBVIOUS
<1>1. /\ produced = [s \in Streams |-> 0] /\ stale = {}
      /\ state = [checkpoint |-> [s \in Streams |-> 0], seen |-> << >>,
                  letters |-> {}, claims |-> {}]
      /\ ingest = Idle /\ connector = [step |-> "down", next |-> 1, last |-> 0] /\ committed = 0
      /\ sender = [step |-> "idle", acked |-> 0] /\ faults = 0 /\ crashes = 0
  BY DEF Init, Down
<1>2. Typed
  <2>1. state \in StateType /\ Len(state.seen) = 0 /\ state.letters = {} /\ state.claims = {}
    BY <1>1 DEF StateType
  <2>2. ingest \in IngestType
    BY <1>1, Constants DEF Idle, IngestType
  <2>3. connector \in ConnectorType
    BY <1>1 DEF ConnectorType
  <2>4. /\ produced \in [Streams -> Nat] /\ \A s \in Streams : produced[s] <= Len(Feed[s])
    BY <1>1, Constants
  <2>5. IsFiniteSet({}) /\ Cardinality({}) = 0
    BY FS_EmptySet
  <2> QED
    BY <1>1, <2>1, <2>2, <2>3, <2>4, <2>5, Constants DEF Typed
<1>3. \A s \in Streams : SettledTo(s, 0)
  BY <1>1 DEF SettledTo
<1>4. PositionsOK
  <2>1. /\ \A s \in Streams : state.checkpoint[s] = 0
        /\ connector.next - 1 = 0 /\ sender.acked = 0 /\ committed = 0
    BY <1>1
  <2> QED
    BY <1>3, <2>1, Constants DEF PositionsOK
<1>5. SeenOK
  <2>1. DOMAIN state.seen = {} /\ state.letters = {}
    BY <1>1
  <2> QED
    BY <2>1 DEF SeenOK
<1>6. ReadersOK
  BY <1>1, Constants DEF ReadersOK
<1>7. IngestOK
  BY <1>1 DEF IngestOK, Idle
<1> QED
  BY <1>2, <1>4, <1>5, <1>6, <1>7 DEF IInv

\* Every step keeps it.
LEMMA NextIInv == IInv /\ [Next]_vars => IInv'
<1> SUFFICES ASSUME IInv, [Next]_vars PROVE IInv'
  OBVIOUS
<1>1. ASSUME NEW s \in Streams, Produce(s) \/ Complete(s) \/ DeadLetter(s) \/ Unrecorded(s)
      PROVE  IInv'
  BY <1>1, ProduceStep, EndStep
<1>2. ASSUME NEW s \in Streams, NEW p \in DOMAIN Feed[s], Begin(s, p) PROVE IInv'
  BY <1>2, BeginStep
<1>3. CASE DeleteMany \/ InvalidateTags \/ EndRetry \/ Poll \/ Commit \/ Claim \/ Expire \/ Crash
  BY <1>3, InvalidateStep, RetryStep, ReadStep, ClaimStep, CrashStep
<1>4. ASSUME NEW e \in Ids, Retry(e) PROVE IInv'
  BY <1>4, RetryStep
<1>5. CASE UNCHANGED vars
  <2>1. UNCHANGED <<produced, stale, state, ingest, connector, committed, sender, faults, crashes>>
    BY <1>5 DEF vars
  <2> QED
    BY <2>1 DEF IInv, Typed, PositionsOK, SeenOK, ReadersOK, IngestOK, SettledTo, Happened,
                Settled, Fresh
<1> QED
  BY <1>1, <1>2, <1>3, <1>4, <1>5 DEF Next, Quiet

\* The inductive invariant: every position somebody goes on from, and every id that
\* is skipped, stands for changes that are settled.
THEOREM IngestionInvariant == Spec => []IInv
BY InitIInv, NextIInv, PTL DEF Spec

\* No change is skipped silently: ingest applies before it records, a letter and its
\* checkpoint are one update, and offsets are committed after their batch.
THEOREM NothingIsSkipped == Spec => []NoSilentSkip
<1>1. IInv => NoSilentSkip
  <2> SUFFICES ASSUME IInv PROVE NoSilentSkip
    OBVIOUS
  <2>1. /\ \A s \in Streams : SettledTo(s, state.checkpoint[s])
        /\ SettledTo("log", committed) /\ SettledTo("hook", sender.acked)
    BY DEF IInv, PositionsOK
  <2>2. TypeOK
    <3>1. /\ \A s \in Streams : produced[s] \in 0 .. Len(Feed[s])
          /\ \A s \in Streams : state.checkpoint[s] <= produced[s]
          /\ committed <= produced["log"] /\ sender.acked <= produced["hook"]
      BY <2>1, Constants DEF SettledTo, IInv, Typed
    <3>2. /\ state.seen \in Seq(Ids) /\ state.checkpoint \in [Streams -> Nat]
          /\ state.letters \subseteq Ids /\ state.claims \subseteq DOMAIN Hook
      BY DEF IInv, Typed, StateType
    <3>3. \A i \in DOMAIN state.seen : state.seen[i] \in Ids
      BY <3>2, ElementOfSeq
    <3>4. /\ ingest.who \in Streams \cup {"none", "retry"}
          /\ ingest.step \in {"none", "deleting", "tagging", "completing", "failing"}
          /\ connector.step \in {"down", "polling", "ingesting", "committing"}
          /\ sender.step \in {"idle", "claimed"}
      BY DEF IInv, Typed, IngestType, ConnectorType
    <3> QED
      BY <3>1, <3>2, <3>3, <3>4 DEF TypeOK, IInv, Typed, ReadersOK
  <2> QED
    BY <2>1, <2>2, Constants DEF NoSilentSkip, SettledTo
<1> QED
  BY <1>1, IngestionInvariant, PTL

----------------------------------------------------------------------------
(* Positions only advance *)

\* The lock's holder works on an event ahead of its stream's checkpoint.
Ahead == ingest.who \in Streams => ingest.pos > state.checkpoint[ingest.who]

\* Recording an outcome moves one checkpoint, and that one forward.
LEMMA RecordedAdvances ==
    ASSUME IInv, Ahead, NEW s \in Streams, ingest.who = s,
           state'.checkpoint = Recorded(s, ingest.pos, ingest.id).checkpoint
    PROVE  \A t \in Streams : state'.checkpoint[t] >= state.checkpoint[t]
<1>1. state \in StateType /\ ingest \in IngestType
  BY DEF IInv, Typed
<1>2. state.checkpoint \in [Streams -> Nat] /\ ingest.pos \in Nat
  BY <1>1 DEF StateType, IngestType
<1>3. state'.checkpoint = [state.checkpoint EXCEPT ![s] = ingest.pos]
  BY <1>1 DEF Recorded, StateType
<1>4. ingest.pos > state.checkpoint[s]
  BY DEF Ahead
<1> QED
  BY <1>2, <1>3, <1>4

\* Only an outcome of ingest moves a checkpoint: no other step of the component,
\* crashes and retries included, writes one.
LEMMA StepAdvances ==
    ASSUME IInv, Ahead, [Next]_vars
    PROVE  /\ Ahead'
           /\ \A s \in Streams : state'.checkpoint[s] >= state.checkpoint[s]
<1>1. /\ state \in StateType /\ state.checkpoint \in [Streams -> Nat] /\ ingest \in IngestType
      /\ Streams = {"log", "hook"} /\ \A t \in Streams : DOMAIN Feed[t] \subseteq Nat
  <2>1. state \in StateType /\ ingest \in IngestType
    BY DEF IInv, Typed
  <2>2. \A t \in Streams : DOMAIN Feed[t] = 1 .. Len(Feed[t])
    BY Constants
  <2>3. Streams = {"log", "hook"}
    BY Constants
  <2> QED
    BY <2>1, <2>2, <2>3 DEF StateType
<1>2. ASSUME state'.checkpoint = state.checkpoint,
             ingest'.who \in Streams => ingest'.who = ingest.who /\ ingest'.pos = ingest.pos
      PROVE  Ahead' /\ \A s \in Streams : state'.checkpoint[s] >= state.checkpoint[s]
  <2>1. Ahead'
    BY <1>2 DEF Ahead
  <2>2. \A s \in Streams : state.checkpoint[s] \in Nat
    BY <1>1
  <2> QED
    BY <1>2, <2>1, <2>2
<1>3. ASSUME NEW s \in Streams, Complete(s) \/ DeadLetter(s)
      PROVE  Ahead' /\ \A t \in Streams : state'.checkpoint[t] >= state.checkpoint[t]
  <2>1. ingest.who = s /\ ingest' = Idle
    BY <1>3 DEF Complete, DeadLetter
  <2>2. state'.checkpoint = Recorded(s, ingest.pos, ingest.id).checkpoint
    BY <1>1, <1>3, <2>1 DEF Complete, DeadLetter, Recorded, StateType
  <2> QED
    BY <1>1, <2>1, <2>2, RecordedAdvances DEF Ahead, Idle
<1>4. ASSUME NEW s \in Streams, NEW p \in DOMAIN Feed[s], Begin(s, p)
      PROVE  Ahead' /\ \A t \in Streams : state'.checkpoint[t] >= state.checkpoint[t]
  <2>1. state' = state
    BY <1>4 DEF Begin
  <2>2. CASE ingest' = ingest
    BY <1>2, <2>1, <2>2
  <2>3. CASE ingest' # ingest
    <3>1. ~Known(s, p, Feed[s][p]) /\ ingest'.who = s /\ ingest'.pos = p
      BY <1>4, <2>3 DEF Begin
    <3>2. p > state.checkpoint[s]
      BY <1>1, <3>1 DEF Known
    <3> QED
      BY <1>1, <2>1, <3>1, <3>2 DEF Ahead
  <2> QED
    BY <2>2, <2>3
<1>5. ASSUME NEW s \in Streams, Produce(s) \/ Unrecorded(s)
      PROVE  state' = state /\ (ingest' = ingest \/ ingest'.who = "none")
  BY <1>5 DEF Produce, Unrecorded, Idle
<1>6. CASE DeleteMany \/ InvalidateTags
  <2>1. state' = state /\ ingest'.who = ingest.who /\ ingest'.pos = ingest.pos
    BY <1>1, <1>6 DEF DeleteMany, InvalidateTags, Invalidate, IngestType
  <2> QED
    BY <1>2, <2>1
<1>7. ASSUME NEW e \in Ids, Retry(e) PROVE state' = state /\ ingest'.who = "retry"
  BY <1>7 DEF Retry
<1>8. CASE EndRetry
  <2>1. state'.checkpoint = state.checkpoint /\ ingest'.who = "none"
    BY <1>1, <1>8 DEF EndRetry, Idle, StateType
  <2> QED
    BY <1>1, <1>2, <2>1
<1>9. CASE Poll \/ Commit \/ Quiet \/ UNCHANGED vars
  BY <1>2, <1>9 DEF Poll, Commit, Quiet, vars
<1>10. CASE Claim \/ Expire
  <2>1. state'.checkpoint = state.checkpoint /\ ingest' = ingest
    BY <1>1, <1>10 DEF Claim, Expire, StateType
  <2> QED
    BY <1>2, <2>1
<1>11. CASE Crash
  <2>1. state' = state /\ ingest'.who = "none"
    BY <1>11 DEF Crash, Idle
  <2> QED
    BY <1>1, <1>2, <2>1
<1>12. ASSUME NEW s \in Streams, Produce(s) \/ Unrecorded(s)
       PROVE  Ahead' /\ \A t \in Streams : state'.checkpoint[t] >= state.checkpoint[t]
  BY <1>1, <1>2, <1>5, <1>12
<1>13. ASSUME NEW e \in Ids, Retry(e)
       PROVE  Ahead' /\ \A t \in Streams : state'.checkpoint[t] >= state.checkpoint[t]
  BY <1>1, <1>2, <1>7, <1>13
<1> QED
  BY <1>3, <1>4, <1>6, <1>8, <1>9, <1>10, <1>11, <1>12, <1>13 DEF Next

\* A durable position never goes back: what ingest works on is ahead of its stream's
\* checkpoint from the moment it was not known, since the lock keeps every other
\* recording out, and _advance_checkpoint never has reason to raise.
THEOREM CheckpointsOnlyAdvance == Spec => CheckpointsAdvance
<1>1. Init => Ahead
  BY Constants DEF Init, Ahead, Idle
<1>2. IInv /\ Ahead /\ [Next]_vars => Ahead'
  BY StepAdvances
<1>3. IInv /\ Ahead /\ [Next]_vars =>
          [\A s \in Streams : state'.checkpoint[s] >= state.checkpoint[s]]_vars
  BY StepAdvances
<1> QED
  BY <1>1, <1>2, <1>3, IngestionInvariant, PTL DEF Spec, CheckpointsAdvance

=============================================================================
