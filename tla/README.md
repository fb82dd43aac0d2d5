# Verification of MegaCache

MegaCache is a cache server in Python: a bounded in-memory engine, an in-process
cluster coordinator that replicates over several engines, and around them an
origin fetcher, event-driven invalidation, a multi-tenant control plane, HTTP and
RESP servers and client SDKs. This directory holds TLA+ models of its core, the
TLC runs that check them and TLAPS proofs. Paths below are relative to the
repository; line references are in `PROJECT.json` ("map").

## 1. Inventory

| Component | State | Operations | Hard behaviour | What makes it correct |
|---|---|---|---|---|
| Cache engine, `engine.py` | entries in access order, reverse tag index, lease table, two byte counters, open journal | put, get, mset, delete, expire, flush, invalidate_tags, restore/export, acquire/release/renew lease, begin/commit/restore mutation | the clock is read before the lock; eviction under limits shared with leases; rollback after evictions | counters are exact, limits hold, index and order match the entries, a void token never works, rollback is exact |
| Single flight, `engine.py`, `cluster.py` | flight table, result/error and event per flight | get_or_load, coordinate | loader runs outside the lock; waiters have no timeout | one loader per key; every waiter wakes with an outcome |
| Cluster coordinator, `cluster.py` | per node: status, heartbeat, storage, versioned records; ring, known keys, catalog, tag index, hot copies, watermark, sequence | replicated get/put/mset/expire/delete/flush/invalidate, heartbeats, failure detection, add/drain/remove, plan/apply rebalance, hot copies, snapshots | nodes that miss writes and return, raise, refuse or forget entries; tombstone collection; abandoned plans | a quorum read returns the last acknowledged write or nothing; deleted values stay deleted; a ring change loses nothing that a quorum has |
| Leadership and leases, `cluster.py` | leader, term, cluster leases and their bytes, incarnations | election, assert_fence, acquire/renew/release, guarded put | term change under a running refresh; failed transactions that put leases back | no write with a stale fence or token; a leader is found again |
| Snapshot transfer, `cluster.py` | session cursor, window, receiver buffer | next_chunk, acknowledge, receive, records | backpressure, order | complete exactly when all chunks arrived intact |
| Mutation clock, `coordination.py`; client, `client.py`; SDKs | generation and epoch; L1 entries, cursor, flights | every mutation; poll, get_or_load | value fetched before an invalidation admitted after it; generation counted after the mutation | a poll notices outdated entries; the client reads its own writes; calls end |
| Origin cache, `origin.py` | breaker, probes, admission and retry budgets, flights, refresh queue | fetch, background refresh, shutdown | late results of an earlier breaker period; barging at admission; lost leases | bounded concurrency and probes; no lost slot; every follower returns |
| Event automation, `events.py` | durable checkpoints, seen list, dead letters | ingest, retry, Kafka batch, webhooks | crash between apply and record; duplicates, reordering | at least once; checkpoint never goes back |
| Control plane, `controlplane.py` | durable state, artifacts, operation queue, maintenance flag, meters | enqueue/run/requeue, backup, restore, drill, retention, delete tenant, metering | restart in the middle of an operation; requests admitted before a window; partial file updates | records have artifacts; an operation ends and leaves one record; restore is atomic, deletion is for good |
| Audit log, `controlplane.py` | segment files, anchor, checkpoint of the head; records in memory | append, export, prune, verify at start | a crash or failed write between durable steps | nothing is lost; the log starts again; pruning makes room |
| `intelligence.py`, `server.py`, `resp.py`, `auth.py`, `config.py`, `storage.py`, `transport.py`, `observability.py`, `integrations.py`, `cli.py` | telemetry, connections, settings | routing, parsing, formatting | – | mostly I/O and pure checks; not modelled |

The servers call one storage object. Normally that is a `ClusterStorage` whose
nodes hold `CacheEngine`s, wrapped by the origin cache, intelligence, event
automation and the mutation clock. The cluster opens an engine's mutation journal
around each replica write and rolls the replicas back when it misses its quorum:
this is where the first and the third component meet.

## 2. Modules

| Module | Models | Composes or uses |
|---|---|---|
| `CacheEngine`, `MCCacheEngine`, `CacheEngineProofs` | `engine.py`: the store | |
| `SingleFlight`, `LoaderPermit`, `MCSingleFlight` | `get_or_load`, `coordinate` of engine and cluster | implements `LoaderPermit` |
| `ClusterStorage`, `MCClusterStorage` | `cluster.py`: replication, membership, rebalancing | nodes are engines that may forget, refuse or raise |
| `ClusterLeases`, `ClusterLeasesProofs` | `cluster.py`: leadership, terms, leases | reads and writes are only their quorum |
| `OriginRuntime`, `MCOriginRuntime`, `OriginRuntimeProofs` | `origin.py`: breaker, budgets, request loop | |
| `OriginCache`, `OriginCacheProofs` | `origin.py`: fetch, flights, refresh workers, pause, shutdown | a request is its outcome; storage is one entry and one lease |
| `EventIngestion`, `MCEventIngestion`, `EventIngestionProofs` | `events.py`: ingestion and connectors | composes connector, sender, ingestor, checkpoint store and cache |
| `ControlPlane`, `ControlPlaneProofs` | `controlplane.py`: operations of one tenant | composes API, scheduler, worker, data plane and files |
| `AuditLog`, `AuditLogProofs` | `controlplane.py`: the audit log and its checkpoint | |
| `ClientCache`, `ClientCacheProofs` | `client.py`, `coordination.py`, parts of `resp.py` | composes client threads, server, mutation clock and other clients |

* **CacheEngine.** The state is the record `store` (entries, LRU order, tag index,
  leases, counters), the clock, the time each thread read before it asked for the
  lock, the open journal, and the history of granted tokens. A method body under
  the lock is one action; `put`, `acquire_lease` and `renew_lease` are two, because
  they read the clock first. The LRU list is the function `older`: which keys were
  used less recently. Values are their sizes. The cost policy's scores are
  abstracted to an arbitrary order of victims.
* **SingleFlight.** Split at the lock: look up and lead or follow, load, store,
  close, wake. `Elsewhere` is any other operation that makes the key appear or
  disappear meanwhile. `LoaderPermit` is the abstract promise: one permit per key,
  taken and given back.
* **ClusterStorage.** One reentrant lock guards every method, so a method is one
  action; the state is one record and operators take and return it, in the order
  in which the private `_..._locked` methods are called. A version is a sequence
  number, a value the version that wrote it, the ring the constant order in which
  each key's walk meets the nodes. `committed`, `carries` and `orphaned` are history
  variables: the last acknowledged write of a key, whether it carried the tag, and the
  keys an abandoned plan has taken out of the catalog. A node that refuses may fail each
  write of a plan's moves and each delete of the clean-up after the ring is set.
* **ClusterLeases.** Node status and heartbeats, leader and term, the lease table
  and its byte count. All leases have one size. `history` knows which tokens were
  ended, so that `NoLateWrite` can be said of a table into which a failed
  transaction puts leases back, and the bytes of leases that were written over.
* **OriginRuntime.** A step is one critical section of the breaker's lock, a
  budget's condition or the retry budget. A waiter of a condition is asleep or
  notified, and races newcomers for the slot. Open periods, refills and deadlines
  are nondeterministic. The outcomes of a transport are those the loop's handlers tell
  apart: a connection that breaks counts as a failure on a closed runtime, too, where
  every other error only cancels the probe.
* **OriginCache.** One key under several paths: the entry belongs to the path it
  was fetched from (its lineage), the lease to the key. `entry.outdated` is a
  history: the value was requested before another user's put or delete.
* **EventIngestion.** Two streams feed one ingestor: a log with offsets, polled in
  batches and committed, and webhooks with durable one-use claims. `stale` holds
  pairs of a change and a cached entry older than it. The closure of the dependency
  graph is a recursive function over its levels. A crash loses the cache, which is
  in memory, and everything but the checkpoint store's file, the broker's offset
  and what the sender knows.
* **ControlPlane.** One tenant. Each write of the state file, each artifact file
  written or removed, and each change of the runtime's flags is a step, with a
  crash or a failing write possible at each but those that undo a refused request
  (below). A file that cannot be removed fails the operation that trims its list, and
  stops a round of retention. The queue has as many places as the state file has
  operations; what finds it full is failed (`PutFull`). A request may repeat the
  idempotency key of an earlier operation and gets that operation (`Repeat`). The cache
  is one value. Flushing and restoring it may fail, as they do without a quorum, and so
  may the handler that puts the earlier contents back (`Undo`).
* **AuditLog.** Every append, anchor and unlink is a durable step. A hash is a
  number, a chain verifies if each record names the one before it. The lines of a file
  are the set of its records, in the order of their writing, which the hash is.
* **ClientCache.** The client's commands share one connection. A value is the
  number of the mutation that wrote it; the server counts it in a later step. A poll is
  skipped at any time, before there is a cursor, too; one that runs compares the epoch
  and the generation, clears, and sets the two, each in a step of its own, since nothing
  locks them. `blind` marks in an entry that it was read before the first poll or loaded
  and put by the client itself; `cursor.mixed` records that a poll has compared the
  generation of one epoch with that of another and found them equal.

Operators introduced by a comment as mutants are wrong variants of a definition,
used to show that each property can fail.

## 3. Runs

| Run | Question | Bounds |
|---|---|---|
| engine | Do counters, limits, index and lease table survive two threads with stale clock readings, and is a rolled back mutation undone exactly? | three keys of two sizes, room for two entries and five bytes, a lease reserves three bytes, one tick, one token, batches of one, a journal on any key |
| single_flight | Woken waiters, and implementation of `LoaderPermit` | three threads, one key of each method, two flights |
| cluster_quorum | Does a majority read return the last acknowledged write, does a refused transaction leave answers alone, is the backlog bounded? | three replicas of two keys, three versions, one tombstone allowed, node 3 late, nodes 2 and 3 down or forgetful, node 2 raising, node 1 bootstrapped from snapshots |
| cluster_rebalance | Do reads stay committed across ring changes, do these keep what is readable, and do catalog, records and hot copies fit what the nodes store? | three members and a newcomer, three replicas of one key, nodes 1 and 2 down or forgetful, node 1 leaving, node 3 refusing or raising, one retained tombstone |
| cluster_leases | Is a late guarded put refused, are lease bytes counted, is the cluster led again? | three nodes, two keys, two tokens, two ticks, two faults, node 3 raising |
| origin_requests | Are slots counted, wakeups kept, the breaker never stuck, and does every request end? | three requests, two budgets, one retry, one probe |
| origin_fetch | Exact registries, no late refresh, quiet pauses; do fetches end and workers stop? | two callers and a worker on one key and path, one follower, a queue of one |
| events | Is no change skipped in silence, does no checkpoint go back, and does each change reach the cache or the dead letters? | `MCEventIngestion`: a log and a webhook stream with a repeated, a tagged and a malformed event; one seen id, two dead letters, two claims, two faults, one crash |
| control | Artifacts, deletion and its finality, restore, reruns, progress | an API thread and the scheduler, one client, five kinds of operations, three requests of which one lies in the past, retention of one, one fault, one crash |
| audit | Is anything lost, does the log start again, does pruning make room? | two actors, segments of two records, two segments, six records, two faults, one crash |
| client_l1 | Are outdated reads noticed, own writes kept, calls ended? | two threads, one key, two mutations or restarts |
| cluster_abandoned_plan | expected to fail: see below | five nodes, three members, one key |

The bounds are small but each lets the case it is for happen, which the mutants
confirm: three versions are a write, its overwrite and a delete; two of three
replicas are the smallest majority with somebody missing; two keys are what a
transaction needs to fail in part; two flights let a second leader start while the
first one's waiters still sleep; three requests at one slot are a holder, a waiter
and a newcomer; a seen list of one forgets at the second event; two segments of two
records are the smallest log that rotates and fills up; three replicas let a quorum of
them lose a key that the third still has, and keep the tombstone of a key whose third
owner is away, so that a plan that is abandoned can collect it. Symmetry is used for threads,
keys and tags of the engine alone, whose run has no liveness property.

Every run but two checks for deadlock. The bounds on requests and records let
`control` and `audit` stop: operations are over, or an audit log was refused at
start, which is where the code stops, too.

### Fairness

* `SingleFlight`: a leader's next step and a woken waiter's return. Threads are
  scheduled, loaders return or raise.
* `ClusterLeases`: some healthy node sends a heartbeat again and again.
* `OriginRuntime`, `OriginCache`: threads go on, transports have timeouts, waits
  have deadlines, `begin_shutdown` is one call that runs to its end. No caller is
  obliged to call, no admission is promised: `RequestsEnd` includes being shed.
* `EventIngestion`: the holder of the ingestor's lock goes on; readers and sender try
  again, and get the lock some time (strong fairness); claims expire. Nobody is obliged
  to retry a dead letter: that is an administrator's request (`docs/events.md:115`), so
  `ChangesSettle` ends with the change applied, with its letter waiting, or with the
  queue of letters full, where the ingestor refuses the event until there is room.
* `ControlPlane`: the worker, the recovery at start and a request between recording
  and queueing go on. A crash and the start that follows it are one step,
  `Restart`.
* `AuditLog`: the process is started again, and the auditor exports and prunes some
  time, which `docs` ask of operators.
* `ClientCache`: threads go on, leases expire, a thread that waits for the mutation
  lock gets it (strong). `CallsEnd` is conditional: others must not take the key's
  lease for ever.

### Disagreements with the documentation

One run is expected to fail; its trace was repeated against the Python code.

* cluster_abandoned_plan: a rebalance that fails after one of its moves completed
  and collected a tombstone restores records, not the catalog and the watermark;
  the deleted value comes back after the next ring change. "A missing current owner
  retains the tombstone so stale data cannot be resurrected."
  (`docs/architecture.md:95`) `ReadsCommitted`, `CatalogComplete` and
  `RebalanceKeepsValues` except the keys to which this has happened (`orphaned`), and no
  others.

Others were met while modelling and have no run of their own. Where a definition is
named, it states the claim and a TLC run with it fails.

Engine:

* `restore_mutation_checkpoint` puts evicted entries back at the old end of the LRU
  list. Under the cost policy the victims need not have been the oldest, and the
  order changes: `RollbackExact` fails with `EvictionPolicy = "cost"`. "Restore one
  mutation, including LRU, evictions, leases and metrics." (`engine.py:504`)
* An entry that has expired left the tag index, so invalidating its tag does not
  find its refresh lease, and the refresh in flight stores the old value
  (`CacheEngine!InvalidationFencesRefresh`; "Invalidating an origin entry's tag also
  removes its refresh lease atomically", `docs/origins.md:79`). The cluster's
  `invalidate_tags` has the same form.
* `CacheEngine.mset` writes pair by pair, and keeps the first ones when a later one
  does not fit beside the leases (`MSetPartial`), where `docs/resp.md:51` says
  "Atomically"; the cluster's `mset` is atomic.

Cluster:

* Planning counts owners that have the latest record and no entry; a quorum of them
  suffices to delete the key everywhere, the copy of another owner that reads were still
  answered from included (`cluster.py:2302`; "Rebalance planning converts
  quorum-confirmed physical absence of an expired or fully evicted catalog entry into a
  versioned deletion before moving keys.", `docs/architecture.md:100`).
  `ClusterStorage!PlanningKeepsServed` fails in the instance of cluster_rebalance: a put,
  then two evictions. Nor may a value be relied on that only a hot copy still answers.
  `RebalanceKeepsValues` is about keys that an owner serves and that are not absent at a
  quorum when the plan is applied.
* A quorum miss prunes the tag index although a replica that is away still stores
  the entry; invalidation does not reach it later (`ClusterStorage!IndexComplete`;
  "Removes every entry associated with at least one supplied tag.",
  `docs/api.md:121`).
* Collecting a tombstone drops the records of all nodes but checks only the owners'
  storage: a joining node bootstrapped before the delete keeps an entry without a
  record, which is served when it becomes an owner (`cluster.py:2327`).
  `ReadsCommitted` in cluster_rebalance is therefore checked without caller-made
  snapshots and with one newcomer.
* A failed `invalidate_tags` puts back leases of a term that its own reads have
  ended (`cluster.py:2047`). They are never honoured (`NoLateWrite`), but the next
  `acquire_lease` writes over them without giving back their bytes
  (`cluster.py:1217`), which stay counted until the next election or flush.
  `LeasesCounted` says exactly this much.
* A delete that fails in the clean-up after the ring is set goes to the same handler as a
  failing move: the old ring is put back with the records it had.

Origin:

* "Concurrent half-open probes" (`docs/origins.md:100`) may exceed
  `breaker_half_open_requests`: a probe of an earlier half-open period that ends in a
  later one frees a slot it does not hold (`origin.py:591`). Only the converse, that
  the breaker does not get stuck, holds (`BusyMeansProbing`).
* An exception of a class the request loop does not name leaves it without telling
  the breaker (`origin.py:1281`): a half-open probe's slot is then never given back
  and the breaker stays busy. `OriginRequests.cfg` gives the transport no such outcome,
  and `BusyBreakersProbe` has its absence as a hypothesis.
* When a forced fetch fails over a fresh negative entry, the fall-back answers
  `fresh` with the marker as its value (`origin.py:1091`), where `docs/api.md:97`
  has the state `negative`.

Events:

* A webhook's claim is stored before its event is ingested. If ingestion then raises,
  the sender's identical retry is answered 401 until the claim expires.
* A record that cannot be parsed, or whose closure the graph rejects, raises out of
  `consume_once` each time: its partition stands still. `ChangesSettle` leaves out
  oversized closures.
* The list of seen ids is shared by all sources, and the MySQL adapter's default ids
  may collide (`events.py:1797`): two changes with one id count as one. The model
  gives every change its own id.

Control plane and audit log:

* The handler of a failed restore flushes and restores again, which fails for the same
  reason as the restore did (`controlplane.py:4215`; a cluster's flush needs every
  member, its `restore_entries` a quorum): the earlier contents are gone and an empty
  cache is served. "Replacement restore drains admitted tenant operations and rolls back
  the prior in-memory snapshot if mutation fails." (`docs/control-plane.md:189`)
  `ControlPlane!FailedRestoreKeepsCache` fails in the instance of control.
  `RestoreIsAtomic` says what holds all the same: a restore that succeeds leaves the
  backup's contents, a rollback that works the earlier ones, and no request is in flight
  from the flush to the end of the window.
* `enqueue_operation` reads the tenant's status before it takes the lock that records
  the operation (`controlplane.py:2593`); an operation may be recorded for a tenant
  whose deletion began meanwhile. It then runs and fails or changes nothing
  (`DeletedHoldsNothing`).
* If writing the status `failed` fails, the worker thread dies
  (`controlplane.py:3998`) and operations wait for a restart; `OperationsEnd` says so.
* A crash between marking a tenant `deletion_pending` and recording the operation
  (`controlplane.py:2881`) leaves the mark without an operation, and `suspended` has
  no way back. A deletion requested with the idempotency key of one that has failed
  ends the same way: the caller gets the failed operation (`controlplane.py:2608`), and
  the mark stays (`Repeat`).
* An audit append that fails after the status `succeeded` was written turns the
  operation to `failed` (`controlplane.py:3967`).
* The worker and the scheduler start before `_requeue_incomplete`
  (`controlplane.py:2166`): an operation queued by them in between is queued twice.
  `OneRecordEach` shows that this does no harm. Nor does it when the second place it
  takes leaves none for the next operation, which is then recorded and failed at once
  (`controlplane.py:2647`), a deletion's caller opening the tenant again:
  `DeletionIsFinal`.
* The writes that undo a refused request (`controlplane.py:2648`, `:2899`) do not fail in
  the model. From the code: if the first one does, the operation stays `pending` outside
  the queue until the next start, and a deletion is then carried out on a tenant that
  was opened again.
* Retention's slice of a list may drop records without deleting their artifacts
  (`controlplane.py:3117`), which stay until the next start.
* An audit append that fails after its bytes reached the file is unknown to the
  memory; the next append repeats its sequence number and the log does not verify at
  the next start. `StartsAgain` excludes histories in which this has happened
  (`damaged`).

Client:

* While the host's monotonic clock is below the polling interval the first calls skip the
  poll (`client.py:756`) and fill the L1 cache; the first poll that runs has no cursor to
  compare with and clears nothing ("an active client's next read after the default
  one-second interval clears stale L1 data after one successful network round trip",
  `docs/sdks.md:37`). `ClientCache!StaleIsNoticed` fails in the instance of client_l1.
* A value the client has loaded and put itself is admitted under the generation after
  its own put, so a mutation of another client between the loader's read and the put
  goes unnoticed by later polls, against `docs/sdks.md:37`, too.
* Two threads that poll around a restart of the server may leave the new epoch with the
  old generation (`client.py:779`). When the server's count reaches that number again, a
  poll takes it for no change. It takes five mutations and restarts, more than
  client_l1 has. `ReadsNoticed`, which is proved for any number, says that an outdated
  entry goes unnoticed only in these three cases.

## 4. Proofs

Each proof module extends the module it is about and proves `Spec => []IInv` for an
inductive invariant `IInv`, for every value of the constants that satisfies that
module's ASSUMEs; the properties follow from it. TLC checked each `IInv` on the
module's run before it was proved. `CacheEngineProofs` is about two modules of the
engine and extends both, which is why `SingleFlight`'s specification is `FlightSpec`.

| Module | Proved of every instance |
|---|---|
| `CacheEngineProofs` | of `CacheEngine`: types; the LRU order is a total order of the entries; `TagIndexExact`, `LeaseTableSound`, `Capacity` and its part `Accounting`; under the lru policy `RollbackExact` and `WriteSurvives` |
| | of `SingleFlight`: one loader per key; an outcome before the event; `NoOrphanWaiter`; initial states and steps are `LoaderPermit`'s |
| `OriginRuntimeProofs` | `BudgetExact`, `NoLostWakeup`; `BusyMeansProbing` if no exception is of an unknown class |
| `OriginCacheProofs` | `RegistriesExact`, `NoLateRefresh`, `PauseIsQuiet` |
| `ClusterLeasesProofs` | `NoLateWrite`, `LeasesCounted` |
| `EventIngestionProofs` | `NoSilentSkip`, `CheckpointsAdvance` |
| `ControlPlaneProofs` | `RecordsHaveArtifacts` and its part `OneRecordEach`, `DeletedHoldsNothing`, `RestoreIsAtomic`, `DeletionIsFinal` |
| `AuditLogProofs` | `NothingLost`, `LogSound` |
| `ClientCacheProofs` | `ReadsNoticed`, `ReadYourWrites` |

* **CacheEngine.** `IInv` is types, the coherence of the store (index and order),
  `LeaseTableSound`, and `JournalSound`. The last is needed because a rollback
  installs parts of an earlier store: the saved entry, the evicted ones and the
  saved lease must still fit when they come back. The lemmas say of every operator
  on stores that it keeps a coherent store coherent; one lemma per action combines
  them. A second invariant, `BInv`, on top of the first, has the counters and limits.
  The bytes of a set of entries are written as the cardinality of a set of (key, place)
  pairs, so that taking entries out or putting them in is a statement about disjoint
  finite sets and needs no induction over a sum. `RollbackExact` needs to know of an open
  journal that the entries it has seen evicted are the oldest of the store it was opened
  on, in their order; `WriteSurvives` that what a put has stored is the newest and fits
  by itself. Both are theorems under `EvictionPolicy = "lru"`: under "cost" the victims
  go in an order that access counts decide, a rollback appends them in it, and the entry
  just stored may itself be the cheapest.
* **SingleFlight.** `OneLoader` is not inductive: the invariant adds that a leader's
  flight is the one in its key's slot, that an occupied slot has exactly such a
  leader, and that a waiter's flight is released or still in a slot.
* **OriginRuntime.** That a budget counts its holders needs to know who may hold one:
  `WaitersWait` (a waiter is a request at the budget's step, asleep or notified and
  not both, and closing wakes everyone) and `AttemptsLeft`. `NoLostWakeup` counts
  free slots against notified waiters, so its steps are cardinality arguments:
  a release frees a slot and moves one sleeper, a barging newcomer takes a slot, and
  a notified waiter tries the budget before it looks at its deadline. The breaker's
  count is compared with the set of requests that probe (`ProbesAreUnderway`): an
  inequality only, since a probe of an earlier half-open period may free a slot of a
  later one.
* **OriginCache.** `FlightsOK` pairs each registered flight with the one thread that
  leads it and counts the followers, `JobsOK` says that a scheduled path is in the
  queue or with one worker and never both, `PausesOK` that the active count is the
  set of admitted workers. For `NoLateRefresh` the fact that carries is `EntryOK`: a
  fetch that was overtaken by a put or delete no longer holds the lease, and leases
  are taken only before the request, so the guarded put refuses it.
* **ClusterLeases.** Every helper but the grant only shrinks the lease table, proved
  one helper at a time. `NoLateWrite` is not inductive because a failed transaction
  puts ended leases back. `EndedLeasesAreOld` is what remains true of them: such a
  lease is of an earlier term, so its fence never matches again.
* **EventIngestion.** `PositionsOK` says of every position somebody resumes from (both
  checkpoints, the broker's offset, the sender's acknowledgement, the batch under way)
  that all before it is settled; `SeenOK` says so of every remembered id, since being
  remembered is what makes an event skipped; `IngestOK` carries what has been
  invalidated through the steps of one event. The streams, rules, dependency graph
  and limits are arbitrary. `CheckpointsAdvance` needs one fact more, `Ahead`: whoever
  holds the ingestor's lock works on an event after its stream's checkpoint, since the
  others count as known even when the seen list has forgotten them. The branch of
  `_advance_checkpoint` that raises is therefore never taken.
* **ControlPlane.** `ArtifactsOK` orders files and records: no file about to be removed
  is named by a record or about to be. `WorkerOK` and `QueueOK` tie the worker's step to
  an operation that still is in the state file; `WindowOK` keeps requests out of a
  maintenance window from its first to its last step; `ClosingOK` says that only one
  requester closes the tenant, that until its operation is queued the only deletion that
  is queued, running or unfinished is its own, and that an active tenant has none: so
  the requester that is refused may open the tenant, its artifacts untouched, and nobody
  else ever does (`DeletionIsFinal`); `DeletedOK`
  follows what is still queued when the deletion ends, where a restore could bring only
  an emptied artifact back. `RestoreIsAtomic` is itself a part of
  `WindowOK`: the requests kept out are what makes it inductive, through the handler of a
  failed restore up to the end of the window, whether it put the contents back or lost them.
* **AuditLog.** `IInv` has two halves. The first holds whatever has happened: later
  segments hold later writes (`FilesOK`), a segment's range ends with the last of its
  records in memory (`SegmentsOK`), records in memory and on disk are the same but for
  those before the anchor and those of failed appends (`MemoryOK`), a prune under way
  unlinks only what its anchor covers (`PruneOK`), and what is not exported is on disk
  after the anchor and after all that is exported (`ExportedOK`, which gives
  `NothingLost`). The second, `ChainOK`, holds until an append follows one that failed
  after its write: each record on disk has its predecessor there, or is the first and
  begins at the anchor or before it. "Or before" is needed because a prune may stop half
  way, with its anchor written and covered segments still there, and a start skips their
  records. That a verified chain ascends, for any number of records, is shown by a least
  counterexample in the order of writing.
* **ClientCache.** `LockOK` (one mutation at a time between the server and
  `_mutation_succeeded`, later than all before it) and `AdmittingOK` give
  `ReadYourWrites`. `ReadsNoticed` needs `NoticeOK`, which speaks also of values not yet
  admitted and of polls that have their answer but not yet moved the cursor; `CountsOK`,
  that each mutation is counted once and no count is ahead of the server; and
  `WatchedOK`, that before there is a cursor every entry is blind, which is all that
  remains of "no cursor, empty L1" when polls may be skipped. The two halves of the
  cursor are followed through the steps between them, up to the first comparison that
  finds the generations of two epochs equal (`cursor.mixed`).

**Assumptions.** Limits are natural numbers, positive where the configuration says so;
nodes, keys, tags, threads, requests and requesters are finite sets; the marks for "nobody"
and "somebody else" are no threads; the streams of events are sequences and their
dependency graph is acyclic, as `add_dependency` checks; deadlines of finite entries come
before infinity. They are the ASSUMEs of the modules, and TLC evaluates them on each
run. Hypotheses of theorems are those of `BusyBreakersProbe`, described under Origin
above, and the lru policy in `RollbackIsExact` and `WritesSurvive`. The types and the LRU order of the engine, `OneLoader` and
`OutcomeBeforeEvent` are proved only: a run would add nothing.

**Only model-checked**, and why:

* All liveness, and `LoaderPermit`'s: fairness and ENABLED are beyond the prover.
* `RollbackExact` and `WriteSurvives` under the "cost" policy, where they do not hold.
* All properties of `ClusterStorage`. `ReadsCommitted`, `Bookkeeping` and
  `RebalanceKeepsValues` are stated so that they survive what `cluster_abandoned_plan`
  and `PlanningKeepsServed` show, and are checked on an instance where both happen;
  `ReadsCommitted` does not hold of every instance even so, since a node bootstrapped
  from a caller's snapshot before a delete may keep the entry (above). The methods are
  folds over keys and moves, and what a fold with an operator computes for every
  sequence needs an induction that takes the operator as a parameter.

## 5. Plan

1. Done: models and runs of engine, single flight, cluster storage, cluster leases,
   origin, events, control plane, audit log, client; proofs of all of them but cluster
   storage.
2. `QuorumRegister`: the abstract specification of a replicated key (last
   acknowledged write or nothing), with the quorum core of `ClusterStorage`
   shown to implement it and quorum intersection proved.
3. Action properties of the modules that have an inductive invariant. Done: a
   checkpoint never goes back, a deleted tenant stays deleted. Left: a term only grows.
4. `SnapshotTransfer`: chunks, window and acknowledgements.

## 6. Not modelled

* Metrics, logs, wire formats, cryptography, address policy, configuration parsing
  and process start-up: pure I/O or pure checks without protocol state. So are the
  HTTP and RESP servers but for the commands of `ClientCache`, and the SDKs in other
  languages repeat the Python client.
* `intelligence.py`: bounded heuristics; what they recommend has no right or wrong.
* The engine's whole-store `checkpoint`/`restore_checkpoint`, a copy of all its
  fields, used by the cluster only for back ends without journals.
* Virtual nodes and hashing are one constant order per key. Storage back ends other
  than the engine are nodes that raise or refuse. Incarnations are one comparison.
* Chunks, checksums and acknowledgements of snapshots.
* Torn writes of one audit record or one state file: the code writes a record with
  one `write` and replaces files by renaming.
* Quotas and metering of tenants. The kinds `data_export` and `audit_export` are in
  `ControlPlane` and left out of `Control.cfg`: their steps are the backup's.
