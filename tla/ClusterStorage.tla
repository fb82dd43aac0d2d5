--------------------------- MODULE ClusterStorage ---------------------------
(***************************************************************************)
(* The in-process cluster coordinator of src/megacache/cluster.py: values  *)
(* replicated over the owners a hash ring assigns to each key, versioned   *)
(* records and tombstones, read repair, tombstone collection, hot copies,  *)
(* snapshots, membership changes and rebalancing.  One reentrant lock      *)
(* guards every method, so a method is one action.                         *)
(*                                                                         *)
(* A version (term, sequence, leader) is its sequence number: the term     *)
(* never decreases and a sequence number is reused only when every trace   *)
(* of it has been rolled back, so both orders agree.  The version (0, 0,   *)
(* node) given to an entry without a record is the node's own number,      *)
(* below every sequence number.  A value is named by the version that      *)
(* wrote it, a tag index by the keys listed under the one tag.             *)
(*                                                                         *)
(* Refresh leases, fence tokens and snapshot chunks are not part of this   *)
(* module; metrics are left out.                                           *)
(***************************************************************************)
EXTENDS Integers, FiniteSets, FiniteSetsExt, Functions, SequencesExt

CONSTANTS
    Nodes,             \* node identities, in their sorted order
    Keys,
    InitialNodes,      \* the members of the first ring; the others may join
    Distance,          \* key -> node -> its place on the ring, from the key on
    ReplicaCount,
    Consistency,       \* the configured profile: "one", "majority" or "all"
    MaxRetainedTombstones, MaxHotReplicaKeys,
    MaxSequence,       \* bound: the versions ever issued
    SlowNodes,         \* bound: the nodes whose heartbeat may be late
    FaultyNodes,       \* bound: the nodes marked down and those losing entries
    FailingNodes,      \* bound: the nodes whose storage may raise or refuse
    HotExtras,         \* bound: how many hot copies a caller asks for
    SnapshotNodes,     \* bound: the nodes a caller takes snapshots of
    LeavingNodes,      \* bound: the nodes a caller drains or removes
    TxKeys,            \* bound: the key sets of one transaction
    Profiles           \* bound: the profiles a caller asks for

ASSUME NodesAreNumbered == Nodes \subseteq Nat \ {0} /\ IsFiniteSet(Nodes)

ASSUME RingIsInhabited == InitialNodes \subseteq Nodes /\ InitialNodes # {}

ASSUME RingIsOrdered ==
    \A k \in Keys : \A m, n \in Nodes :
        /\ Distance[k][n] \in Nat
        /\ Distance[k][m] = Distance[k][n] => m = n

ASSUME LimitsArePositive ==
    /\ ReplicaCount \in Nat \ {0}
    /\ MaxRetainedTombstones \in Nat \ {0} /\ MaxHotReplicaKeys \in Nat \ {0}
    /\ MaxSequence \in Nat

ASSUME ProfileIsKnown == Consistency \in {"one", "majority", "all"}

VARIABLE cluster   \* the coordinator's fields, see Init

vars == cluster

Serving == {"active", "joining", "draining"}

Statuses == Serving \cup {"absent", "down", "drained", "removing", "removed"}

NoSession == [k \in {} |-> 0]

----------------------------------------------------------------------------
(* Ring, health and quorums.  Operators take and return the whole state c. *)

\* ConsistentHashRing.owners: walking on from the key, the first distinct
\* members met.
Owners(k, members) ==
    {n \in members :
        Cardinality({m \in members : Distance[k][m] < Distance[k][n]})
            < ReplicaCount}

Nearest(k, S) == CHOOSE n \in S : \A m \in S : Distance[k][n] <= Distance[k][m]

Up(c) == {n \in Nodes : c.status[n] \in Serving /\ n \notin c.late}

Available(c, k) == Owners(k, c.ring) \cap Up(c)

Required(profile, replicas) ==
    CASE profile = "one" -> 1
      [] profile = "all" -> replicas
      [] OTHER -> replicas \div 2 + 1

\* The available owners that do not raise make a quorum.
HasQuorum(c, k, profile, failing) ==
    Cardinality(Available(c, k) \ failing)
        >= Required(profile, Cardinality(Owners(k, c.ring)))

----------------------------------------------------------------------------
(* Records.  Version 0 stands for no record, value 0 for no entry. *)

Record(version, deleted) == [version |-> version, deleted |-> deleted]

NoRecord == Record(0, FALSE)

Version(sequence) == Max(Nodes) + sequence

Latest(c, k) ==
    LET held == {c.meta[n][k] : n \in Nodes} IN
    CHOOSE r \in held : \A x \in held : x.version <= r.version

HasRecord(c, n, k, expected) ==
    /\ c.meta[n][k].version = expected.version
    /\ c.meta[n][k].deleted <=> c.disk[n][k] = 0

\* Write value and record of key k on the nodes of S.
OnNodes(c, k, S, value, record) ==
    [c EXCEPT !.disk = [n \in Nodes |-> IF n \in S THEN [c.disk[n] EXCEPT ![k] = value]
                                                   ELSE c.disk[n]],
              !.meta = [n \in Nodes |-> IF n \in S THEN [c.meta[n] EXCEPT ![k] = record]
                                                   ELSE c.meta[n]]]

\* Mutant: unavailable owners are not asked for the tombstone.
CollectibleWithoutQuorum(c, k) ==
    LET latest == Latest(c, k) IN
    /\ latest.deleted
    /\ \A n \in Available(c, k) : HasRecord(c, n, k, latest)

\* A tombstone goes once every owner is healthy and has it, with all records
\* of its key; the watermark keeps its version.
Collectible(c, k) ==
    LET latest == Latest(c, k) IN
    /\ latest.deleted
    /\ \A n \in Owners(k, c.ring) : n \in Up(c) /\ HasRecord(c, n, k, latest)

Forgotten(c, gone) ==
    [c EXCEPT !.meta = [n \in Nodes |-> [k \in Keys |->
                            IF k \in gone THEN NoRecord ELSE c.meta[n][k]]],
              !.watermark = Max({c.watermark} \cup
                                {Latest(c, k).version : k \in gone}),
              !.catalog = c.catalog \ gone,
              !.known = c.known \ gone,
              !.index = c.index \ gone]

\* _gc_tombstones_locked on the keys K.
Collected(c, K) == Forgotten(c, {k \in K : Collectible(c, k)})

Tombstones(c) == {k \in c.catalog : Latest(c, k).deleted}

----------------------------------------------------------------------------
(* Failure detection and leadership *)

\* A lost leader ends the term, and with it every open snapshot session.
Elected(c) ==
    LET candidates == c.ring \cap Up(c) IN
    IF c.leader \in candidates THEN c
    ELSE [c EXCEPT !.leader = IF candidates = {} THEN c.leader ELSE Min(candidates),
                   !.session = NoSession]

\* _detect_failures_locked, with which most methods begin.
Detected(c) ==
    LET failed == {n \in c.late : c.status[n] \in Serving} IN
    IF failed = {} THEN c
    ELSE Elected([c EXCEPT !.status = [n \in Nodes |->
                              IF n \in failed THEN "down" ELSE c.status[n]]])

\* Time passes without a heartbeat of n.
BecomeLate(n) ==
    /\ cluster.status[n] # "absent" /\ n \notin cluster.late
    /\ cluster' = [cluster EXCEPT !.late = cluster.late \cup {n}]

DetectFailures == cluster' = Detected(cluster)

MarkNodeDown(n) ==
    /\ cluster.status[n] # "absent"
    /\ cluster' = Elected([cluster EXCEPT !.status[n] = "down"])

\* A heartbeat brings a node back and collects tombstones.
Recovered(c, n) ==
    [c EXCEPT !.late = c.late \ {n},
              !.status[n] = IF c.status[n] # "down" THEN c.status[n]
                            ELSE IF n \in c.ring THEN "active" ELSE "joining"]

Heartbeat(n) ==
    /\ cluster.status[n] # "absent"
    /\ cluster' = LET c == Elected(Recovered(cluster, n)) IN Collected(c, c.catalog)

----------------------------------------------------------------------------
(* Reads *)

\* The hot copies a read may use; it prunes the others.
UsableHot(c, k) ==
    LET latest == Latest(c, k) IN
    {n \in c.hot[k] : /\ n \in Up(c)
                      /\ latest # NoRecord /\ c.meta[n][k] = latest
                      /\ ~latest.deleted /\ c.disk[n][k] # 0}

KeepHot(c, k, kept) ==
    [OnNodes(c, k, c.hot[k] \ kept, 0, NoRecord) EXCEPT !.hot[k] = kept]

Pruned(c, k) == KeepHot(c, k, UsableHot(c, k))

Responders(c, k, profile) ==
    UsableHot(c, k) \cup (IF profile = "one" THEN {Nearest(k, Available(c, k))}
                                             ELSE Available(c, k))

\* The version a response counts with, then what makes it win a tie.
Stamp(c, n, k) == IF c.meta[n][k] = NoRecord THEN n ELSE c.meta[n][k].version

Weight(c, n, k) == CASE c.meta[n][k].deleted -> 2
                     [] ~c.meta[n][k].deleted /\ c.disk[n][k] # 0 -> 1
                     [] OTHER -> 0

Winner(c, k, S) ==
    CHOOSE w \in S : \A n \in S :
        \/ Stamp(c, n, k) < Stamp(c, w, k)
        \/ Stamp(c, n, k) = Stamp(c, w, k) /\ Weight(c, n, k) <= Weight(c, w, k)

Entry(c, k, w) == IF c.meta[w][k].deleted THEN 0 ELSE c.disk[w][k]

ReadValue(c, k, profile) == Entry(c, k, Winner(c, k, Responders(c, k, profile)))

\* The winner's record and entry go to the responders S behind it, those whose
\* storage refuses the entry excepted.
Repaired(c, k, S, refusing, w) ==
    LET record == c.meta[w][k]
        entry == Entry(c, k, w)
        current(n) == /\ c.meta[n][k].version = record.version
                      /\ record.deleted <=> c.disk[n][k] = 0
        behind == {n \in S \ {w} : ~current(n) /\ (entry # 0 => n \notin refusing)}
    IN IF record = NoRecord THEN c ELSE OnNodes(c, k, behind, entry, record)

\* A miss leaves the indexes.
Missed(c, K) == [c EXCEPT !.known = c.known \ K, !.index = c.index \ K]

\* What a read that asked the nodes S, w the winner, does after its answer.
AfterAnswer(c, k, S, refusing, w) ==
    Missed(Collected(Repaired(c, k, S, refusing, w), {k}),
           {x \in {k} : Entry(c, k, w) = 0})

AfterResponses(c, k, S, refusing) ==
    AfterAnswer(c, k, S, refusing, Winner(c, k, S))

\* _read_locked: detected failures and pruned hot copies and, unless it asked
\* for one replica only, repaired replicas, a collected tombstone, a forgotten
\* miss.
AfterPruning(c, k, profile, refusing) ==
    IF profile = "one" THEN c
    ELSE AfterResponses(c, k, Responders(c, k, profile), refusing)

AfterRead(c, k, profile, refusing) ==
    IF HasQuorum(c, k, profile, {})
      THEN AfterPruning(Pruned(Detected(c), k), k, profile, refusing)
      ELSE Detected(c)

\* get, ttl, exists, keys and export_entries read one key at a time.
Get(k, profile, refusing) == cluster' = AfterRead(cluster, k, profile, refusing)

\* An entry expires or is evicted on one node.
Lose(n, k) ==
    /\ cluster.disk[n][k] # 0
    /\ cluster' = [cluster EXCEPT !.disk[n][k] = 0]

----------------------------------------------------------------------------
(* Writes.  committed, carries and orphaned are history: the version of the   *)
(* last acknowledged write of each key, 0 after a delete, the keys whose last *)
(* write carried the tag, and those an abandoned plan took from the catalog.  *)

\* _replicate_put_locked on the owners that do not raise; journals restore the
\* others exactly, and all of them when the quorum is missed.
Replicated(c, k, failing) ==
    LET v == Version(c.sequence + 1) IN
    [OnNodes(c, k, Available(c, k) \ failing, v, Record(v, FALSE))
        EXCEPT !.sequence = c.sequence + 1, !.committed[k] = v]

Listed(c, K, tagged) ==
    [c EXCEPT !.known = c.known \cup K,
              !.catalog = c.catalog \cup K,
              !.index = IF tagged THEN c.index \cup K ELSE c.index \ K,
              !.carries = IF tagged THEN c.carries \cup K ELSE c.carries \ K]

MayWrite(n) == cluster.sequence + n <= MaxSequence

Put(k, profile, tagged, failing) ==
    LET c == Detected(cluster) IN
    /\ MayWrite(1)
    /\ cluster' = IF HasQuorum(c, k, profile, failing)
                    THEN Listed(Replicated(c, k, failing), {k}, tagged) ELSE c

\* Several keys: every key reaches its quorum or all of them are rolled back.
\* Failures are not detected first.
StoreMany(order, tagged, failing) ==
    /\ MayWrite(Len(order))
    /\ \A k \in Range(order) : HasQuorum(cluster, k, Consistency, failing)
    /\ cluster' = Listed(FoldLeft(LAMBDA c, k : Replicated(c, k, failing),
                                  cluster, order),
                         Range(order), tagged)

MSet(order, failing) == StoreMany(order, FALSE, failing)

\* restore_entries, of entries with the tag; without it they are written as by mset.
RestoreEntries(order, failing) == StoreMany(order, TRUE, failing)

\* expire rewrites the entry it reads; catalog and indexes stay.
Expire(k, refusing, failing) ==
    LET r == AfterRead(cluster, k, Consistency, refusing) IN
    /\ MayWrite(1)
    /\ cluster' =
         IF /\ HasQuorum(cluster, k, Consistency, failing)
            /\ ReadValue(Pruned(Detected(cluster), k), k, Consistency) # 0
           THEN Replicated(r, k, failing) ELSE r

----------------------------------------------------------------------------
(* Deletes *)

\* A deletion of k, with its version, on the owners that do not raise.
Buried(c, k, failing) ==
    LET v == Version(c.sequence + 1) IN
    [OnNodes(c, k, Available(c, k) \ failing, 0, Record(v, TRUE))
        EXCEPT !.sequence = c.sequence + 1, !.committed[k] = 0]

\* Hot copies of k are dropped, the key leaves the indexes.
Unlisted(c, k) ==
    LET d == OnNodes(c, k, c.hot[k], 0, NoRecord) IN
    [d EXCEPT !.hot[k] = {}, !.known = d.known \ {k}, !.index = d.index \ {k},
              !.catalog = d.catalog \cup {k}]

\* The deletes that would have to be retained: an owner is unavailable.
Risky(c, K) ==
    {k \in K : ~Latest(c, k).deleted /\ Available(c, k) # Owners(k, c.ring)}

\* Mutant: a missed quorum keeps the tombstones that were written.
UndoneNothing(c, g, K) ==
    [c EXCEPT !.sequence = g.sequence, !.committed = g.committed]

\* What a failed transaction leaves of c, begun in g: hot copies are not
\* journaled, detected failures stay detected.
Undone(c, g, K) ==
    LET journaled == UNION {Available(g, k) : k \in K} IN
    [c EXCEPT !.disk = [n \in Nodes |-> IF n \in journaled THEN g.disk[n]
                                                           ELSE c.disk[n]],
              !.meta = g.meta, !.sequence = g.sequence, !.watermark = g.watermark,
              !.known = g.known, !.catalog = g.catalog, !.index = g.index,
              !.committed = g.committed]

\* Quorums and the tombstone backlog are checked before anything is written.
Admitted(g, K, profile) ==
    /\ \A k \in K : HasQuorum(g, k, profile, {})
    /\ Cardinality(Tombstones(g)) + Cardinality(Risky(g, K)) <= MaxRetainedTombstones

AllRead(g, order, profile, failing) ==
    FoldLeft(LAMBDA c, k : AfterRead(c, k, profile, failing), g, order)

\* A node that raises gets back what it had of the keys K in g.
PutBack(c, g, S, K) ==
    LET part(new, old) == [n \in Nodes |-> [k \in Keys |->
            IF n \in S /\ k \in K THEN old[n][k] ELSE new[n][k]]]
    IN [c EXCEPT !.disk = part(c.disk, g.disk), !.meta = part(c.meta, g.meta)]

AllBuried(c, g, order, failing) ==
    PutBack(FoldLeft(LAMBDA x, k : Buried(x, k, failing), c, order), g,
            failing \cap UNION {Available(g, k) : k \in Range(order)}, Range(order))

AllUnlisted(c, order) == Collected(FoldLeft(Unlisted, c, order), Range(order))

\* Mutant: the tombstone backlog is not limited.
WithinBacklogAlways(c, g, K) == c

\* The backlog is checked again at the end.
WithinBacklog(c, g, K) ==
    IF Cardinality(Tombstones(c)) > MaxRetainedTombstones THEN Undone(c, g, K) ELSE c

Settled(c, g, order, profile, failing) ==
    IF \E k \in Range(order) : ~HasQuorum(g, k, profile, failing)
      THEN Undone(c, g, Range(order))
      ELSE WithinBacklog(AllUnlisted(c, order), g, Range(order))

\* The transaction begun in g: read, bury, then commit or undo.
Transacted(g, order, profile, failing) ==
    Settled(AllBuried(AllRead(g, order, profile, failing), g, order, failing),
            g, order, profile, failing)

Attempted(g, order, profile, failing) ==
    IF Admitted(g, Range(order), profile) THEN Transacted(g, order, profile, failing)
                                          ELSE g

\* _delete_keys_transaction_locked, after a collection.
Deleted(c, order, profile, failing) ==
    Attempted(Collected(c, c.catalog), order, profile, failing)

\* delete, delete_many
DeleteMany(order, profile, failing) ==
    /\ MayWrite(Len(order))
    /\ cluster' = Deleted(Detected(cluster), order, profile, failing)

\* invalidate_tags deletes what the index lists.
InvalidateTag(order, failing) ==
    /\ order # <<>> /\ Range(order) = cluster.index
    /\ MayWrite(Len(order))
    /\ cluster' = Deleted(cluster, order, Consistency, failing)

\* Nodes that were removed keep what they have.  flush counts the keys, and so
\* reads each, first.
Flushed(c) ==
    [c EXCEPT !.disk = [n \in Nodes |-> IF c.status[n] = "removed" THEN c.disk[n]
                                        ELSE [k \in Keys |-> 0]],
              !.meta = [n \in Nodes |-> IF c.status[n] = "removed" THEN c.meta[n]
                                        ELSE [k \in Keys |-> NoRecord]],
              !.sequence = c.sequence + 1, !.watermark = Version(c.sequence + 1),
              !.known = {}, !.catalog = {}, !.index = {},
              !.hot = [k \in Keys |-> {}], !.committed = [k \in Keys |-> 0]]

Flush ==
    LET c == Detected(cluster) IN
    /\ MayWrite(1)
    /\ cluster' = IF c.ring \subseteq Up(c)
                    THEN Flushed(AllRead(c, SetToSeq(c.known), Consistency, {}))
                    ELSE c

----------------------------------------------------------------------------
(* Hot copies *)

HotIsFull(c, k) ==
    /\ c.hot[k] = {}
    /\ Cardinality({x \in Keys : c.hot[x] # {}}) >= MaxHotReplicaKeys

HotTargets(c, k, extra) ==
    LET idle == {n \in Up(c) : c.status[n] = "active"} \ Owners(k, c.ring) IN
    {n \in idle : Cardinality({m \in idle : m < n}) < extra}

Spread(c, k, S, value, record) ==
    IF value = 0 \/ record = NoRecord \/ HotIsFull(c, k) THEN c
    ELSE [OnNodes(c, k, S, value, record) EXCEPT !.hot[k] = c.hot[k] \cup S]

\* replicate_hot_key: best effort copies on active nodes that are not owners of
\* what the read, which found p, returned.
Copied(p, c, k, extra, refusing, w) ==
    Spread(c, k, HotTargets(c, k, extra) \ refusing, Entry(p, k, w), p.meta[w][k])

ReplicateHotKey(k, extra, refusing) ==
    LET p == Pruned(Detected(cluster), k) IN
    cluster' = IF HasQuorum(cluster, k, Consistency, {})
                 THEN Copied(p, AfterRead(cluster, k, Consistency, refusing), k, extra,
                             refusing, Winner(p, k, Responders(p, k, Consistency)))
                 ELSE Detected(cluster)

ReleaseHotKey(k) ==
    cluster' = [OnNodes(cluster, k, cluster.hot[k] \ Owners(k, cluster.ring),
                        0, NoRecord)
                   EXCEPT !.hot[k] = {}]

----------------------------------------------------------------------------
(* Snapshots *)

\* The records of the keys K in a snapshot of node n.
SnapshotOf(c, n, K) ==
    [k \in {x \in K : c.meta[n][x] # NoRecord \/ c.disk[n][x] # 0} |->
        [version |-> Stamp(c, n, k),
         deleted |-> c.meta[n][k].deleted \/ c.disk[n][k] = 0,
         value |-> c.disk[n][k]]]

\* _bootstrap_locked takes the records that are news to node n.
Accepts(c, n, k, s) ==
    LET current == c.meta[n][k]
        latest == Latest(c, k)
    IN /\ ~ (latest = NoRecord /\ s.version <= c.watermark)
       /\ current.version <= s.version /\ latest.version <= s.version
       /\ latest.version = s.version => latest.deleted = s.deleted
       /\ current.version = s.version =>
             /\ current.deleted = s.deleted
             /\ current.deleted \/ ~HasRecord(c, n, k, current)

Bootstrapped(c, n, records) ==
    LET news == {k \in DOMAIN records : Accepts(c, n, k, records[k])}
        b == [c EXCEPT !.disk[n] = [k \in Keys |->
                   IF k \notin news THEN c.disk[n][k]
                   ELSE IF records[k].deleted THEN 0 ELSE records[k].value],
                       !.meta[n] = [k \in Keys |->
                   IF k \notin news THEN c.meta[n][k]
                   ELSE Record(records[k].version, records[k].deleted)]]
    IN Collected(b, {k \in news : records[k].deleted})

\* One session at a time; its records are the whole node's.
CreateSnapshot(n) ==
    /\ cluster.status[n] # "absent" /\ cluster.session = NoSession
    /\ cluster' = [cluster EXCEPT !.session = SnapshotOf(cluster, n, Keys)]

\* A session is pulled once.
BootstrapNode(n) ==
    /\ cluster.status[n] # "absent" /\ cluster.session # NoSession
    /\ cluster' = [Bootstrapped(cluster, n, cluster.session)
                      EXCEPT !.session = NoSession]

----------------------------------------------------------------------------
(* Membership and rebalancing *)

\* A quorum of the owners has the latest record of k and no entry.
Absent(c, k) ==
    LET latest == Latest(c, k)
        missing == {n \in Available(c, k) : /\ c.meta[n][k] = latest
                                            /\ c.disk[n][k] = 0}
    IN /\ latest # NoRecord /\ ~latest.deleted
       /\ Cardinality(missing) >= Required(Consistency, Cardinality(Owners(k, c.ring)))

\* Mutant: planning drops the absent keys, too, without deleting them.
ReconciledByDropping(c) ==
    LET d == Detected(c) IN
    [d EXCEPT !.catalog = {k \in d.catalog : Latest(d, k) # NoRecord /\ ~Absent(d, k)}]

\* Planning drops the keys of the catalog that have no record and deletes the
\* absent ones; the first delete that is refused ends it.
Reconciled(c) ==
    LET deleted(x, d) == [ok |-> d.sequence > x.data.sequence, data |-> d]
        step(x, k) ==
          CASE ~x.ok -> x
            [] x.ok /\ Latest(x.data, k) = NoRecord ->
                 [x EXCEPT !.data.catalog = x.data.catalog \ {k}]
            [] x.ok /\ Absent(x.data, k) ->
                 deleted(x, Deleted(x.data, <<k>>, Consistency, {}))
            [] OTHER -> x
    IN FoldLeft(step, [ok |-> TRUE, data |-> Detected(c)], SetToSeq(c.catalog)).data

Departing(c) == {n \in Nodes : c.status[n] \in {"draining", "removing"}}

Joining(c) == {n \in Nodes : c.status[n] = "joining"}

TargetRing(c) == (c.ring \cup Joining(c)) \ Departing(c)

Sources(c, k) == {n \in Available(c, k) : HasRecord(c, n, k, Latest(c, k))}

\* A plan needs a member and, for every key, a healthy latest source; deletes
\* of absent keys that the tombstone backlog refuses end it, too.
Plannable(c) ==
    /\ TargetRing(c) # {}
    /\ \A k \in c.catalog : Latest(c, k) # NoRecord /\ ~Absent(c, k)
                            /\ Sources(c, k) # {}

\* The copies a plan makes, key by key, nearest target first.
Moves(c) ==
    LET needs(k) == {n \in Owners(k, TargetRing(c)) :
                        n \notin Owners(k, c.ring) \/ ~HasRecord(c, n, k, Latest(c, k))}
        targets(k) == SetToSortSeq(needs(k),
                                   LAMBDA m, n : Distance[k][m] < Distance[k][n])
        copies(k) == [i \in DOMAIN targets(k) |->
                        [key |-> k, source |-> Nearest(k, Sources(c, k)),
                         target |-> targets(k)[i]]]
        keys == SetToSeq(c.catalog)
    IN FlattenSeq([i \in DOMAIN keys |-> copies(keys[i])])

Movable(c, move, refusing) ==
    LET latest == Latest(c, move.key) IN
    /\ latest # NoRecord
    /\ move.source \in Up(c) /\ HasRecord(c, move.source, move.key, latest)
    /\ move.target \in Up(c)
    /\ ~latest.deleted => move.target \notin refusing

\* One move: a snapshot of the key from its source, bootstrapped on its target.
\* The first move that cannot be made ends the plan.
Transferred(c, refusing) ==
    LET step(x, move) ==
          IF x.ok /\ Movable(x.data, move, refusing)
            THEN [ok |-> TRUE,
                  data |-> Bootstrapped(x.data, move.target,
                               SnapshotOf(x.data, move.source, {move.key}))]
            ELSE [ok |-> FALSE, data |-> x.data]
    IN FoldLeft(step, [ok |-> TRUE, data |-> c], Moves(c))

\* Every new owner holds the latest record of every key in the catalog.
Verified(c, members) ==
    \A k \in c.catalog : \A n \in Owners(k, members) :
        Latest(c, k) # NoRecord => HasRecord(c, n, k, Latest(c, k))

\* Mutants: old members keep their copies; old members drop every copy.
PublishedKeepingCopies(c) ==
    LET st == [n \in Nodes |-> CASE c.status[n] = "joining" -> "active"
                                 [] c.status[n] = "draining" -> "drained"
                                 [] c.status[n] = "removing" -> "removed"
                                 [] OTHER -> c.status[n]]
    IN [c EXCEPT !.ring = TargetRing(c), !.session = NoSession, !.status = st,
                 !.hot = [k \in Keys |-> {n \in c.hot[k] \ Owners(k, TargetRing(c)) :
                                             st[n] = "active"}]]

PublishedDroppingAll(c) ==
    LET p == PublishedKeepingCopies(c) IN
    [p EXCEPT !.disk = [n \in Nodes |-> [k \in Keys |->
                           IF n \in c.ring THEN 0 ELSE c.disk[n][k]]]]

\* The new ring and statuses; nodes that no longer own a key drop it.
Published(c) ==
    LET members == TargetRing(c)
        st == [n \in Nodes |-> CASE c.status[n] = "joining" -> "active"
                                 [] c.status[n] = "draining" -> "drained"
                                 [] c.status[n] = "removing" -> "removed"
                                 [] OTHER -> c.status[n]]
        dropped(n, k) == k \in c.catalog /\ n \in c.ring \ Owners(k, members)
    IN [c EXCEPT !.ring = members, !.status = st, !.session = NoSession,
                 !.disk = [n \in Nodes |-> [k \in Keys |->
                              IF dropped(n, k) THEN 0 ELSE c.disk[n][k]]],
                 !.meta = [n \in Nodes |-> [k \in Keys |->
                              IF dropped(n, k) THEN NoRecord ELSE c.meta[n][k]]],
                 !.hot = [k \in Keys |-> {n \in c.hot[k] \ Owners(k, members) :
                                             st[n] = "active"}]]

\* A failed plan puts replicas, records, ring and statuses back; the catalog,
\* the watermark and the indexes stay as they are.
Abandoned(c, planned) ==
    LET affected == planned.ring \cup Joining(planned) IN
    [c EXCEPT !.disk = [n \in Nodes |-> IF n \in affected THEN planned.disk[n]
                                                          ELSE c.disk[n]],
              !.meta = [n \in Nodes |-> IF n \in affected THEN planned.meta[n]
                                                          ELSE c.meta[n]],
              !.orphaned = c.orphaned \cup (planned.catalog \ c.catalog)]

\* Old members drop the keys they no longer own; one of them may raise.
Droppable(c, members, failing) ==
    \A k \in c.catalog : (c.ring \ Owners(k, members)) \cap failing = {}

Concluded(moved, planned, failing) ==
    IF /\ moved.ok /\ Verified(moved.data, TargetRing(planned))
       /\ Droppable(moved.data, TargetRing(planned), failing)
      THEN LET published == Published(moved.data) IN
           Elected(Collected(published, published.catalog))
      ELSE Abandoned(moved.data, planned)

\* apply_rebalance recomputes its plan and goes on only if it is the same.
Rebalanced(planned, refusing, failing) ==
    IF Plannable(planned) THEN Concluded(Transferred(planned, refusing), planned, failing)
                          ELSE planned

ApplyRebalance(refusing, failing) ==
    /\ MayWrite(Cardinality(cluster.catalog))
    /\ cluster' = Rebalanced(Reconciled(cluster), refusing, failing)

\* plan_rebalance by itself, or apply_rebalance of a stale plan.
PlanRebalance ==
    /\ MayWrite(Cardinality(cluster.catalog))
    /\ cluster' = Reconciled(cluster)

\* add_node, drain_node and remove_node give a node its new status and make a
\* plan; if there is none, they take the status back.
KeptIfPlannable(planned, n, old) ==
    IF Plannable(planned) THEN planned ELSE [planned EXCEPT !.status[n] = old]

ChangeStatus(n, new) ==
    /\ MayWrite(Cardinality(cluster.catalog))
    /\ cluster' = KeptIfPlannable(Reconciled([cluster EXCEPT !.status[n] = new]),
                                  n, cluster.status[n])

AddNode(n) == cluster.status[n] = "absent" /\ ChangeStatus(n, "joining")

DrainNode(n) ==
    /\ n \in cluster.ring /\ Cardinality(cluster.ring) > 1
    /\ ChangeStatus(n, "draining")

RemoveNode(n) ==
    /\ n \in cluster.ring /\ Cardinality(cluster.ring) > 1
    /\ ChangeStatus(n, "removing")

----------------------------------------------------------------------------
Init ==
    cluster = [status |-> [n \in Nodes |-> IF n \in InitialNodes THEN "active"
                                                                 ELSE "absent"],
               late |-> {}, leader |-> Min(InitialNodes), ring |-> InitialNodes,
               session |-> NoSession,
               disk |-> [n \in Nodes |-> [k \in Keys |-> 0]],
               meta |-> [n \in Nodes |-> [k \in Keys |-> NoRecord]],
               known |-> {}, catalog |-> {}, index |-> {},
               hot |-> [k \in Keys |-> {}],
               watermark |-> 0, sequence |-> 0,
               committed |-> [k \in Keys |-> 0], carries |-> {}, orphaned |-> {}]

Failure == \/ \E n \in SlowNodes : BecomeLate(n)
           \/ \E n \in FaultyNodes : MarkNodeDown(n)
           \/ \E n \in Nodes : Heartbeat(n)
           \/ DetectFailures
           \/ \E n \in FaultyNodes, k \in Keys : Lose(n, k)

Orders == {SetToSeq(K) : K \in TxKeys}

Single == \E k \in Keys, failing \in SUBSET FailingNodes :
    \/ \E profile \in Profiles : Get(k, profile, failing)
    \/ \E profile \in Profiles, tagged \in BOOLEAN : Put(k, profile, tagged, failing)
    \/ Expire(k, failing, failing)

Several == \E order \in Orders, failing \in SUBSET FailingNodes :
    \/ MSet(order, failing) \/ RestoreEntries(order, failing)
    \/ \E profile \in Profiles : DeleteMany(order, profile, failing)
    \/ InvalidateTag(order, failing)

Hot == \E k \in Keys :
    \/ \E extra \in HotExtras, failing \in SUBSET FailingNodes :
          ReplicateHotKey(k, extra, failing)
    \/ HotExtras # {} /\ ReleaseHotKey(k)

Snapshot == \/ \E n \in SnapshotNodes : CreateSnapshot(n)
            \/ \E n \in Nodes : BootstrapNode(n)

Membership ==
    \/ \E n \in Nodes : AddNode(n)
    \/ \E n \in LeavingNodes : DrainNode(n) \/ RemoveNode(n)
    \/ PlanRebalance
    \/ \E refusing \in SUBSET FailingNodes, failing \in SUBSET FailingNodes :
          ApplyRebalance(refusing, failing)

Next == Failure \/ Single \/ Several \/ Flush \/ Hot \/ Snapshot \/ Membership

Spec == Init /\ [][Next]_vars

----------------------------------------------------------------------------
(* Properties *)

Versions == 1..Version(MaxSequence)

\* Every part of the coordinator's state has its type.
TypeOK ==
    /\ cluster.status \in [Nodes -> Statuses]
    /\ cluster.late \subseteq Nodes
    /\ cluster.leader \in Nodes
    /\ cluster.ring \subseteq Nodes /\ cluster.ring # {}
    /\ DOMAIN cluster.session \subseteq Keys
    /\ cluster.disk \in [Nodes -> [Keys -> {0} \cup Versions]]
    /\ \A n \in Nodes, k \in Keys :
          cluster.meta[n][k] \in {NoRecord} \cup
              [version : Versions, deleted : BOOLEAN]
    /\ cluster.known \subseteq Keys /\ cluster.catalog \subseteq Keys
    /\ cluster.index \subseteq Keys /\ cluster.carries \subseteq Keys
    /\ cluster.orphaned \subseteq Keys
    /\ cluster.hot \in [Keys -> SUBSET Nodes]
    /\ cluster.watermark \in {0} \cup Versions
    /\ cluster.sequence \in 0..MaxSequence
    /\ cluster.committed \in [Keys -> {0} \cup Versions]

\* What a read under the configured profile returns now.
Answer(k) == ReadValue(Pruned(Detected(cluster), k), k, Consistency)

Answers == {k \in Keys : HasQuorum(cluster, k, Consistency, {})}

\* A quorum read returns the last acknowledged write or, once that is deleted,
\* expired or evicted, nothing: a deleted or an overwritten value never comes
\* back, whatever failed, was repaired, collected, copied or moved to another ring.
\* The exception are the keys an abandoned plan has struck off the catalog, which
\* later plans overlook.
ReadsCommitted ==
    \A k \in Answers \ cluster.orphaned : Answer(k) \in {0, cluster.committed[k]}

\* The architecture notes say that a missing owner's tombstone is retained "so
\* stale data cannot be resurrected" and that the watermark keeps snapshots from
\* resurrecting a collected deletion: a deleted key reads as a miss.
NoResurrection ==
    \A k \in Answers : cluster.committed[k] = 0 => Answer(k) = 0

\* "Prefer a live copy": as long as an available owner stores the last
\* acknowledged write, a quorum read finds it.
LiveCopyFound ==
    \A k \in Answers :
        (\E n \in Available(cluster, k) :
            cluster.committed[k] # 0 /\ cluster.disk[n][k] = cluster.committed[k])
        => Answer(k) = cluster.committed[k]

\* A record describes what its node stores: no entry under a tombstone, and
\* under a live record the entry of that version or none.
RecordsDescribe ==
    \A n \in Nodes, k \in Keys :
        LET r == cluster.meta[n][k] IN
        r # NoRecord => cluster.disk[n][k] \in {0} \cup {x \in {r.version} : ~r.deleted}

\* Deletes that wait for an unavailable owner are bounded by their limit.
TombstonesBounded == Cardinality(Tombstones(cluster)) <= MaxRetainedTombstones

\* A key some owner still has a record of is in the catalog, so that a rebalance moves
\* it and tombstone collection finds it.  The exception are keys whose tombstone an
\* abandoned plan has collected, and so struck off the catalog, and then put back: see
\* NoResurrection.
CatalogComplete ==
    \A k \in Keys \ cluster.orphaned :
        (\E n \in Owners(k, cluster.ring) : cluster.meta[n][k] # NoRecord)
        => k \in cluster.catalog

\* Hot copies are extra: an owner is never listed as one, so that a copy never
\* stands in for an owner in a quorum, and their number keeps to its limit.
HotAreExtra ==
    /\ \A k \in Keys : cluster.hot[k] \cap Owners(k, cluster.ring) = {}
    /\ Cardinality({k \in Keys : cluster.hot[k] # {}}) <= MaxHotReplicaKeys

\* The coordinator's catalogs and the nodes' records fit each other through failed
\* writes, repairs, moves, published and abandoned plans, and evictions, the keys that
\* an abandoned plan has taken from the catalog excepted.
Bookkeeping == TypeOK /\ RecordsDescribe /\ CatalogComplete /\ HotAreExtra

\* An owner serves the key: what only a hot copy still answers with, after all
\* owners have evicted it, may go at any time.
Served(k) ==
    Answer(k) # 0 /\ \E n \in Available(cluster, k) : cluster.disk[n][k] = Answer(k)

\* Publishing a ring loses no value an owner served before, if the new owners have a
\* quorum, but for those a quorum of owners has evicted: these planning deletes, the
\* copies that are left included (see PlanningKeepsServed).  The keys an abandoned plan
\* has struck off the catalog are not moved at all.
RebalanceKeepsValues ==
    [][cluster'.ring # cluster.ring =>
          \A k \in (Answers \cap Answers') \ cluster.orphaned :
              Served(k) /\ ~Absent(cluster, k) => Answer(k)' = Answer(k)]_vars

\* The architecture notes say that planning turns the absence of "an expired or fully
\* evicted" entry into a deletion: a plan made now would leave what an owner serves.
\* The code does not keep this: a quorum of evictions is enough.
PlanningKeepsServed ==
    \A k \in Answers : Served(k) =>
        ReadValue(Pruned(Reconciled(cluster), k), k, Consistency) = Answer(k)

\* Invalidating the tag reaches every entry that carries it and is still read.  The
\* code does not keep this: see the README.
IndexComplete ==
    \A k \in Answers : Answer(k) # 0 /\ k \in cluster.carries => k \in cluster.index
=============================================================================
