---------------------------- MODULE CacheEngine ----------------------------
(***************************************************************************)
(* The bounded in-memory cache of src/megacache/engine.py: an access       *)
(* ordered entry map, a reverse tag index, a lease table and byte          *)
(* accounting, all guarded by one reentrant lock, plus the single-key      *)
(* rollback journal the cluster coordinator opens around a write.          *)
(*                                                                         *)
(* Every method body that runs under the lock is one action.  put,         *)
(* acquire_lease and renew_lease read the clock BEFORE they take the lock: *)
(* ReadClock(t) is that read, and the action of thread t that follows uses *)
(* the remembered time, however much later it gets the lock.               *)
(*                                                                         *)
(* The OrderedDict's order is kept as older[k], the keys used less         *)
(* recently than k.  Values are told apart only by their size.  Metrics,   *)
(* access counts and load costs are left out; what the "cost" policy       *)
(* computes from them is an arbitrary choice of victim.                    *)
(***************************************************************************)
EXTENDS Integers, FiniteSets, Functions

CONSTANTS
    Keys, Tags, Values, Threads,
    ValueBytes,       \* Values -> bytes of the encoded value
    OverheadBytes,    \* key and fixed metadata bytes of an entry
    LeaseBytes,       \* bytes charged for a lease
    MaxEntries, MaxMemoryBytes, MaxEntryBytes,
    EvictionPolicy,   \* "lru" or "cost"
    Ttls, Stales,     \* durations a caller may ask for
    LeaseSeconds,
    Forever,          \* the deadline of a persistent entry (math.inf)
    MaxClock,         \* bound: the last instant
    MaxTokens,        \* bound: lease tokens ever issued
    TagSets,          \* bound: the tag sets a caller may pass
    BatchSize,        \* bound: the entries of one restore_entries call
    JournalKeys       \* bound: the keys a mutation journal is opened on

ASSUME LimitsAreNatural ==
    /\ MaxEntries \in Nat \ {0} /\ MaxMemoryBytes \in Nat \ {0}
    /\ MaxEntryBytes \in Nat \ {0} /\ LeaseSeconds \in Nat \ {0}
    /\ OverheadBytes \in Nat /\ LeaseBytes \in Nat
    /\ MaxClock \in Nat /\ MaxTokens \in Nat /\ BatchSize \in Nat

\* Keys and tags are strings of bounded length.
ASSUME KeysAreFinite == IsFiniteSet(Keys)

ASSUME TagsAreFinite == IsFiniteSet(Tags)

ASSUME DurationsAreNatural == Ttls \subseteq Nat \ {0} /\ Stales \subseteq Nat

ASSUME ForeverIsNever ==
    /\ Forever \in Nat
    /\ \A ttl \in Ttls, stale \in Stales : MaxClock + ttl + stale < Forever

ASSUME SizesAreNatural == ValueBytes \in [Values -> Nat]

ASSUME BoundsAreSubsets == TagSets \subseteq SUBSET Tags /\ JournalKeys \subseteq Keys

ASSUME PolicyIsKnown == EvictionPolicy \in {"lru", "cost"}

VARIABLES
    store,     \* entries, older, tagIndex, leases, usedBytes, leaseBytes
    clock,
    readAt,    \* thread -> the time it read before asking for the lock
    journal,   \* the open mutation checkpoint, if any: its holder has the lock
    grants     \* history: granted tokens, the void ones, the fenced ones

vars == <<store, clock, readAt, journal, grants>>

NotReading == -1
NoJournal == [open |-> FALSE]

Entry == [value : Values, fresh : Nat, stale : Nat, tags : SUBSET Tags]
Lease == [token : 1..MaxTokens, until : Nat]

\* The bytes of an entry: value, key, tags and metadata.
EntrySize(e) == ValueBytes[e.value] + Cardinality(e.tags) + OverheadBytes

----------------------------------------------------------------------------
(* Functions and dictionaries *)

Without(f, S) == Restrict(f, DOMAIN f \ S)

Updated(f, g) == [x \in DOMAIN f \cup DOMAIN g |->
                      IF x \in DOMAIN g THEN g[x] ELSE f[x]]

Only(x, v) == [y \in {x} |-> v]

\* Every byte of the entries, named by its key and its place in the entry.
Bytes(f) == UNION {{k} \X (1..EntrySize(f[k])) : k \in DOMAIN f}

EntryBytes(f) == Cardinality(Bytes(f))

----------------------------------------------------------------------------
(* The internal helpers, as functions of the store *)

Store(entries, older, tagIndex, leases, usedBytes, leaseBytes) ==
    [entries |-> entries, older |-> older, tagIndex |-> tagIndex,
     leases |-> leases, usedBytes |-> usedBytes, leaseBytes |-> leaseBytes]

\* Drop the entries of S, their positions, tag references and bytes.
RemoveEntries(s, S) ==
    Store(Without(s.entries, S),
          [k \in DOMAIN s.older \ S |-> s.older[k] \ S],
          [t \in Tags |-> s.tagIndex[t] \ S],
          s.leases,
          s.usedBytes - EntryBytes(Restrict(s.entries, S \cap DOMAIN s.entries)),
          s.leaseBytes)

\* The index with the entries of f added.
Tagged(index, f) ==
    [t \in Tags |-> index[t] \cup {k \in DOMAIN f : t \in f[k].tags}]

\* Append an absent key at the most recently used end.
AddEntry(s, k, e) ==
    Store(Updated(s.entries, Only(k, e)),
          Updated(s.older, Only(k, DOMAIN s.entries)),
          Tagged(s.tagIndex, Only(k, e)),
          s.leases, s.usedBytes + EntrySize(e), s.leaseBytes)

\* OrderedDict.move_to_end
Touch(s, k) ==
    Store(s.entries,
          [x \in DOMAIN s.older |-> IF x = k THEN DOMAIN s.older \ {k}
                                             ELSE s.older[x] \ {k}],
          s.tagIndex, s.leases, s.usedBytes, s.leaseBytes)

\* Mutant: a removed lease is still counted in the lease bytes.
RemoveLeasesKeepingReserve(s, S) ==
    LET freed == LeaseBytes * Cardinality(S \cap DOMAIN s.leases) IN
    Store(s.entries, s.older, s.tagIndex,
          Without(s.leases, S), s.usedBytes - freed, s.leaseBytes)

RemoveLeases(s, S) ==
    LET freed == LeaseBytes * Cardinality(S \cap DOMAIN s.leases) IN
    Store(s.entries, s.older, s.tagIndex,
          Without(s.leases, S), s.usedBytes - freed, s.leaseBytes - freed)

ExpiredEntries(s, now) == {k \in DOMAIN s.entries : now >= s.entries[k].stale}

ExpiredLeases(s, now) == {k \in DOMAIN s.leases : s.leases[k].until <= now}

LookupState(s, k, now) ==
    IF k \notin DOMAIN s.entries \/ k \in ExpiredEntries(s, now) THEN "miss"
    ELSE IF now < s.entries[k].fresh THEN "fresh" ELSE "stale"

\* A read drops the entry it finds expired and otherwise makes it the
\* most recently used one.
Lookup(s, k, now) ==
    IF k \notin DOMAIN s.entries THEN s
    ELSE IF k \in ExpiredEntries(s, now) THEN RemoveEntries(s, {k})
    ELSE Touch(s, k)

Fits(s) == /\ Cardinality(DOMAIN s.entries) <= MaxEntries
           /\ s.usedBytes <= MaxMemoryBytes

\* Mutant: popitem(last=True), the most recently used entry goes first.
VictimOrdersNewestFirst(s) ==
    LET size == Cardinality(DOMAIN s.entries)
        Newest(n) == {k \in DOMAIN s.entries : Cardinality(s.older[k]) >= size - n}
        Rank(V) == [k \in V |-> size - Cardinality(s.older[k])]
    IN {Rank(Newest(n)) : n \in 0..size}

\* The orders in which the eviction loop may pick its victims, as numberings:
\* "lru" takes the least recently used entry every time, the score of "cost"
\* may rank the entries in any way.
VictimOrders(s) ==
    LET Oldest(n) == {k \in DOMAIN s.entries : Cardinality(s.older[k]) < n}
        Rank(V) == [k \in V |-> Cardinality(s.older[k]) + 1]
    IN IF EvictionPolicy = "lru"
         THEN {Rank(Oldest(n)) : n \in 0..Cardinality(DOMAIN s.entries)}
         ELSE UNION {Bijection(V, 1..Cardinality(V)) :
                        V \in SUBSET DOMAIN s.entries}

\* The loop stops as soon as the store fits.
Evictions(s) ==
    LET After(at, n) == RemoveEntries(s, {k \in DOMAIN at : at[k] <= n}) IN
    IF Fits(s) THEN {[k \in {} |-> 0]}
    ELSE {at \in VictimOrders(s) :
             LET last == Cardinality(DOMAIN at) IN
             Fits(After(at, last)) /\ \A n \in 0..(last - 1) : ~Fits(After(at, n))}

\* put's last admission check: the other keys' leases reserve memory that no
\* eviction can free.
HasRoom(s, k, e) ==
    EntrySize(e) + s.leaseBytes - (IF k \in DOMAIN s.leases THEN LeaseBytes ELSE 0)
        <= MaxMemoryBytes

\* The write itself, before eviction.
Written(s, k, e) == RemoveLeases(AddEntry(RemoveEntries(s, {k}), k, e), {k})

\* The stores an admitted write may leave: replace the entry, consume the
\* lease, evict, and look the key up for the caller.
PutResults(s, k, e, now) ==
    LET w == Written(s, k, e) IN
    {Lookup(RemoveEntries(w, DOMAIN at), k, now) : at \in Evictions(w)}

----------------------------------------------------------------------------
(* The history of lease tokens.  A token is void once its key was written,  *)
(* deleted, flushed or invalidated, or its holder gave it up; it is fenced  *)
(* once a tag its key carried when it was granted has been invalidated.     *)

Grants(key, tags, void, fenced) ==
    [key |-> key, tags |-> tags, void |-> void, fenced |-> fenced]

TokensOf(S) == {n \in DOMAIN grants.key : grants.key[n] \in S}

Voided(S) == Grants(grants.key, grants.tags, grants.void \cup TokensOf(S),
                    grants.fenced)

Locked == ~journal.open

----------------------------------------------------------------------------
(* Time and callers *)

\* Time passes.
Tick == /\ clock < MaxClock
        /\ clock' = clock + 1
        /\ UNCHANGED <<store, readAt, journal, grants>>

\* Thread t reads the clock, then waits for the lock.
ReadClock(t) ==
    /\ readAt[t] = NotReading
    /\ readAt' = [readAt EXCEPT ![t] = clock]
    /\ UNCHANGED <<store, clock, journal, grants>>

Done(t) == readAt' = [readAt EXCEPT ![t] = NotReading]

----------------------------------------------------------------------------
(* Writes *)

\* An admissible entry: _prepare_put rejects one over the per-entry or the
\* total limit before it reads the clock.
Admissible(e) == EntrySize(e) <= MaxEntryBytes /\ EntrySize(e) <= MaxMemoryBytes

NewEntry(v, ttl, stale, tags, now) ==
    [value |-> v, fresh |-> now + ttl, stale |-> now + ttl + stale, tags |-> tags]

PersistentEntry(v) ==
    [value |-> v, fresh |-> Forever, stale |-> Forever, tags |-> {}]

\* What a caller may ask to be stored at time now.
Requests(now) ==
    {NewEntry(v, ttl, stale, tags, now) :
         v \in Values, ttl \in Ttls, stale \in Stales, tags \in TagSets}
    \cup {PersistentEntry(v) : v \in Values}

LeaseHolds(k, now) == k \in DOMAIN store.leases /\ store.leases[k].until > now

\* put without a lease token.
PutStored(t, k, e) ==
    /\ Locked /\ readAt[t] # NotReading
    /\ e \in Requests(readAt[t]) /\ Admissible(e)
    /\ HasRoom(store, k, e)
    /\ Done(t)
    /\ store' \in PutResults(store, k, e, clock)
    /\ grants' = Voided({k})
    /\ UNCHANGED <<clock, journal>>

\* put with a lease token: accepted only for the key's unexpired lease.
PutGuarded(t, k, e, token) ==
    /\ LeaseHolds(k, readAt[t])
    /\ store.leases[k].token = token
    /\ PutStored(t, k, e)

\* put with a lease token whose lease is gone: the expired lease is dropped.
PutLeaseExpired(t, k) ==
    /\ Locked /\ readAt[t] # NotReading
    /\ ~LeaseHolds(k, readAt[t])
    /\ store' = RemoveLeases(store, {k})
    /\ Done(t)
    /\ UNCHANGED <<clock, journal, grants>>

\* put refused for a token mismatch or for the memory other leases reserve.
PutRefused(t, k, e) ==
    /\ Locked /\ readAt[t] # NotReading
    /\ e \in Requests(readAt[t]) /\ Admissible(e)
    /\ LeaseHolds(k, readAt[t]) \/ ~HasRoom(store, k, e)
    /\ Done(t)
    /\ UNCHANGED <<store, clock, journal, grants>>

\* mset of two pairs: sizes are checked for both first, then each is put
\* under the one lock.
MSet(k1, v1, k2, v2) ==
    LET e1 == PersistentEntry(v1)
        e2 == PersistentEntry(v2)
    IN /\ Locked
       /\ Admissible(e1) /\ Admissible(e2)
       /\ HasRoom(store, k1, e1)
       /\ \E s1 \in PutResults(store, k1, e1, clock) :
             /\ HasRoom(s1, k2, e2)
             /\ store' \in PutResults(s1, k2, e2, clock)
       /\ grants' = Voided({k1, k2})
       /\ UNCHANGED <<clock, readAt, journal>>

\* mset whose second put is refused: the first one stays.
MSetPartial(k1, v1, k2, v2) ==
    LET e1 == PersistentEntry(v1)
        e2 == PersistentEntry(v2)
    IN /\ Locked
       /\ Admissible(e1) /\ Admissible(e2)
       /\ HasRoom(store, k1, e1)
       /\ \E s1 \in PutResults(store, k1, e1, clock) :
             /\ ~HasRoom(s1, k2, e2)
             /\ store' = s1
       /\ grants' = Voided({k1})
       /\ UNCHANGED <<clock, readAt, journal>>

----------------------------------------------------------------------------
(* Reads, deletes and expirations *)

\* get, exists and ttl of one key; mget and size are sequences of these.
Get(k) == /\ Locked
          /\ store' = Lookup(store, k, clock)
          /\ UNCHANGED <<clock, readAt, journal, grants>>

\* keys and export_entries drop what has expired and reorder nothing.
Export(S) == /\ Locked
             /\ store' = RemoveEntries(store, ExpiredEntries(store, clock) \cap S)
             /\ UNCHANGED <<clock, readAt, journal, grants>>

\* Mutant: a delete that leaves the key's lease in force.
DeleteKeepingLease(k) == /\ Locked
                         /\ store' = RemoveEntries(store, {k})
                         /\ grants' = Voided({k})
                         /\ UNCHANGED <<clock, readAt, journal>>

Delete(k) == /\ Locked
             /\ store' = RemoveLeases(RemoveEntries(store, {k}), {k})
             /\ grants' = Voided({k})
             /\ UNCHANGED <<clock, readAt, journal>>

\* delete_many holds the lock across its deletes.
DeleteMany(S) == /\ Locked
                 /\ store' = RemoveLeases(RemoveEntries(store, S), S)
                 /\ grants' = Voided(S)
                 /\ UNCHANGED <<clock, readAt, journal>>

Deadline(e, at) == [value |-> e.value, fresh |-> at, stale |-> at, tags |-> e.tags]

Expire(k, ttl) ==
    LET s == Lookup(store, k, clock) IN
    /\ Locked
    /\ store' = IF LookupState(store, k, clock) = "miss" THEN s
                ELSE Store(Updated(s.entries,
                                   Only(k, Deadline(s.entries[k], clock + ttl))),
                           s.older, s.tagIndex, s.leases, s.usedBytes, s.leaseBytes)
    /\ UNCHANGED <<clock, readAt, journal, grants>>

EmptyStore == Store([k \in {} |-> 0], [k \in {} |-> {}], [t \in Tags |-> {}],
                    [k \in {} |-> 0], 0, 0)

Flush == /\ Locked
         /\ store' = EmptyStore
         /\ grants' = Voided(Keys)
         /\ UNCHANGED <<clock, readAt, journal>>

Fenced(T) == {n \in DOMAIN grants.key : grants.tags[n] \cap T # {}}

\* The keys the index lists under the tags lose their entry and their lease.
InvalidateTags(T) ==
    LET hit == UNION {store.tagIndex[t] : t \in T} IN
    /\ Locked
    /\ store' = RemoveLeases(RemoveEntries(store, hit), hit)
    /\ grants' = Grants(grants.key, grants.tags,
                        grants.void \cup TokensOf(hit), grants.fenced \cup Fenced(T))
    /\ UNCHANGED <<clock, readAt, journal>>

\* Mutant: an overwritten entry keeps its old tag references.
RestoredOverTags(s, f, at) ==
    LET base == RemoveEntries(s, DOMAIN f)
        below(k) == DOMAIN base.entries \cup {x \in DOMAIN f : at[x] < at[k]}
    IN Store(Updated(base.entries, f),
             Updated(base.older, [k \in DOMAIN f |-> below(k)]),
             Tagged(s.tagIndex, f),
             base.leases, base.usedBytes + EntryBytes(f), base.leaseBytes)

\* A restore writes its entries without eviction and leaves leases alone; at
\* numbers the entries in the order given.
Restored(s, f, at) ==
    LET base == RemoveEntries(s, DOMAIN f)
        below(k) == DOMAIN base.entries \cup {x \in DOMAIN f : at[x] < at[k]}
    IN Store(Updated(base.entries, f),
             Updated(base.older, [k \in DOMAIN f |-> below(k)]),
             Tagged(base.tagIndex, f),
             base.leases, base.usedBytes + EntryBytes(f), base.leaseBytes)

RestoreEntries(f, at) ==
    LET s == RemoveEntries(store, ExpiredEntries(store, clock)) IN
    /\ Locked
    /\ \A k \in DOMAIN f : Admissible(f[k])
    /\ store' = IF Fits(Restored(s, f, at)) THEN Restored(s, f, at) ELSE s
    /\ UNCHANGED <<clock, readAt, journal, grants>>

----------------------------------------------------------------------------
(* Leases *)

\* acquire_lease, after its purge of expired leases and its counted lookup.
LeaseLookup(k, now) ==
    Lookup(RemoveLeases(store, ExpiredLeases(store, now)), k, clock)

NeedsLease(k, force) == LookupState(store, k, clock) # "fresh" \/ force

\* Mutant: only the number of leases is checked, not their memory.
LeaseCapacityByCount(s) == Cardinality(DOMAIN s.leases) < MaxEntries

LeaseCapacity(s) == /\ Cardinality(DOMAIN s.leases) < MaxEntries
                    /\ s.usedBytes + LeaseBytes <= MaxMemoryBytes

NextToken == Cardinality(DOMAIN grants.key) + 1

Granted(s, k, now) ==
    Store(s.entries, s.older, s.tagIndex,
          Updated(s.leases, Only(k, [token |-> NextToken,
                                     until |-> now + LeaseSeconds])),
          s.usedBytes + LeaseBytes, s.leaseBytes + LeaseBytes)

TagsOf(s, k) == IF k \in DOMAIN s.entries THEN s.entries[k].tags ELSE {}

AcquireLease(t, k, force) ==
    LET now == readAt[t]
        s == LeaseLookup(k, now)
    IN /\ Locked /\ now # NotReading
       /\ NeedsLease(k, force) /\ k \notin DOMAIN s.leases
       /\ LeaseCapacity(s) /\ NextToken <= MaxTokens
       /\ store' = Granted(s, k, now)
       /\ grants' = Grants(Updated(grants.key, Only(NextToken, k)),
                           Updated(grants.tags, Only(NextToken, TagsOf(s, k))),
                           grants.void, grants.fenced)
       /\ Done(t)
       /\ UNCHANGED <<clock, journal>>

\* fresh, loading, or no lease capacity: only the purge and the lookup remain.
AcquireNothing(t, k, force) ==
    LET now == readAt[t]
        s == LeaseLookup(k, now)
    IN /\ Locked /\ now # NotReading
       /\ NeedsLease(k, force) => k \in DOMAIN s.leases \/ ~LeaseCapacity(s)
       /\ store' = s
       /\ Done(t)
       /\ UNCHANGED <<clock, journal, grants>>

\* release_lease by the holder of the token.
ReleaseLease(k, token) ==
    /\ Locked
    /\ k \in DOMAIN store.leases /\ store.leases[k].token = token
    /\ store' = RemoveLeases(store, {k})
    /\ grants' = Voided({k})
    /\ UNCHANGED <<clock, readAt, journal>>

RenewLease(t, k, token) ==
    LET now == readAt[t] IN
    /\ Locked /\ now # NotReading
    /\ \/ /\ LeaseHolds(k, now) /\ store.leases[k].token = token
          /\ store' = Store(store.entries, store.older, store.tagIndex,
                            Updated(store.leases,
                                    Only(k, [token |-> token,
                                             until |-> now + LeaseSeconds])),
                            store.usedBytes, store.leaseBytes)
       \/ /\ ~LeaseHolds(k, now)
          /\ store' = RemoveLeases(store, {k})
    /\ Done(t)
    /\ UNCHANGED <<clock, journal, grants>>

\* stats purges the expired leases and looks every key up.
Stats ==
    LET s == RemoveLeases(store, ExpiredLeases(store, clock)) IN
    /\ Locked
    /\ store' = RemoveEntries(s, ExpiredEntries(s, clock))
    /\ UNCHANGED <<clock, readAt, journal, grants>>

----------------------------------------------------------------------------
(* The single-key rollback journal *)

\* begin_mutation_checkpoint takes the lock and keeps it.  before and voidBefore
\* are history: the whole store and the void tokens when the journal was opened.
BeginMutation(k) ==
    /\ Locked
    /\ journal' =
         [open |-> TRUE, key |-> k,
          entry |-> Restrict(store.entries, {k} \cap DOMAIN store.entries),
          predecessor |-> {p \in DOMAIN store.entries :
                              /\ k \in DOMAIN store.entries
                              /\ store.older[k] = store.older[p] \cup {p}},
          lease |-> Restrict(store.leases, {k} \cap DOMAIN store.leases),
          usedBytes |-> store.usedBytes, leaseBytes |-> store.leaseBytes,
          evicted |-> [entries |-> [x \in {} |-> 0], earlier |-> [x \in {} |-> {}]],
          before |-> store, voidBefore |-> grants.void]
    /\ UNCHANGED <<store, clock, readAt, grants>>

\* _remove_entry copies each other key's entry, once, as it goes; earlier[k]
\* is what was evicted before k.
Journaled(s, at) ==
    LET old == journal.evicted
        new == (DOMAIN at \ {journal.key}) \ DOMAIN old.entries
        before(k) == DOMAIN old.entries \cup {x \in new : at[x] < at[k]}
    IN [journal EXCEPT !.evicted =
           [entries |-> Updated(old.entries, Restrict(s.entries, new)),
            earlier |-> Updated(old.earlier, [k \in new |-> before(k)])]]

\* The coordinator's put, delete and get of the journal's key.
JournaledPut(e) ==
    LET k == journal.key
        w == Written(store, k, e)
    IN /\ journal.open
       /\ e \in Requests(clock) /\ Admissible(e) /\ HasRoom(store, k, e)
       /\ \E at \in Evictions(w) :
             /\ store' = Lookup(RemoveEntries(w, DOMAIN at), k, clock)
             /\ journal' = Journaled(w, at)
       /\ grants' = Voided({k})
       /\ UNCHANGED <<clock, readAt>>

JournaledDelete ==
    /\ journal.open
    /\ store' = RemoveLeases(RemoveEntries(store, {journal.key}), {journal.key})
    /\ grants' = Voided({journal.key})
    /\ UNCHANGED <<clock, readAt, journal>>

JournaledGet ==
    /\ journal.open
    /\ store' = Lookup(store, journal.key, clock)
    /\ UNCHANGED <<clock, readAt, journal, grants>>

CommitMutation ==
    /\ journal.open
    /\ journal' = NoJournal
    /\ UNCHANGED <<store, clock, readAt, grants>>

\* The evicted entries go back to the least recently used end, the last one
\* evicted first, so that the first one evicted ends up in front.
Reinstated(s, evicted, earlier) ==
    LET base == RemoveEntries(s, DOMAIN evicted)
        above == [k \in DOMAIN base.entries |-> base.older[k] \cup DOMAIN evicted]
    IN Store(Updated(base.entries, evicted), Updated(above, earlier),
             Tagged(base.tagIndex, evicted),
             base.leases, base.usedBytes, base.leaseBytes)

\* The key's own entry goes back right after its predecessor, or in front.
PutBack(s, k, e, pred) ==
    LET below == UNION {s.older[p] \cup {p} : p \in pred}
        lifted == [x \in DOMAIN s.entries |->
                      IF x \in below THEN s.older[x] ELSE s.older[x] \cup {k}]
    IN Store(Updated(s.entries, Only(k, e)), Updated(lifted, Only(k, below)),
             Tagged(s.tagIndex, Only(k, e)),
             s.leases, s.usedBytes, s.leaseBytes)

\* Mutant: the lease is not put back.
RolledBackWithoutLease ==
    LET k == journal.key
        s1 == RemoveLeases(RemoveEntries(store, {k}), {k})
        s2 == Reinstated(s1, journal.evicted.entries, journal.evicted.earlier)
        s3 == IF k \in DOMAIN journal.entry
                THEN PutBack(s2, k, journal.entry[k], journal.predecessor)
                ELSE s2
    IN Store(s3.entries, s3.older, s3.tagIndex, s3.leases,
             journal.usedBytes, journal.leaseBytes)

RolledBack ==
    LET k == journal.key
        s1 == RemoveLeases(RemoveEntries(store, {k}), {k})
        s2 == Reinstated(s1, journal.evicted.entries, journal.evicted.earlier)
        s3 == IF k \in DOMAIN journal.entry
                THEN PutBack(s2, k, journal.entry[k], journal.predecessor)
                ELSE s2
    IN Store(s3.entries, s3.older, s3.tagIndex,
             Updated(s3.leases, journal.lease),
             journal.usedBytes, journal.leaseBytes)

RestoreMutation ==
    /\ journal.open
    /\ store' = RolledBack
    /\ journal' = NoJournal
    /\ grants' = Grants(grants.key, grants.tags, journal.voidBefore, grants.fenced)
    /\ UNCHANGED <<clock, readAt>>

----------------------------------------------------------------------------
Init ==
    /\ store = EmptyStore
    /\ clock = 0
    /\ readAt = [t \in Threads |-> NotReading]
    /\ journal = NoJournal
    /\ grants = Grants([n \in {} |-> 0], [n \in {} |-> {}], {}, {})

\* What a snapshot may carry: a window that is already stale, too.
SnapshotEntries(now) ==
    Requests(now) \cup
    {NewEntry(v, 0, stale, tags, now) :
         v \in Values, stale \in Stales \ {0}, tags \in TagSets}

Batches == UNION {[S -> SnapshotEntries(clock)] :
                     S \in {K \in SUBSET Keys : Cardinality(K) \in 1..BatchSize}}

Write == \E t \in Threads, k \in Keys :
    \/ \E e \in Requests(readAt[t]) : PutStored(t, k, e) \/ PutRefused(t, k, e)
    \/ \E e \in Requests(readAt[t]), n \in 1..MaxTokens : PutGuarded(t, k, e, n)
    \/ PutLeaseExpired(t, k)

WriteMany == \E k1, k2 \in Keys, v1, v2 \in Values :
    MSetPartial(k1, v1, k2, v2) \/ MSet(k1, v1, k2, v2)

Remove == \/ \E k \in Keys : Delete(k) \/ (\E ttl \in Ttls : Expire(k, ttl))
          \/ \E S \in SUBSET Keys : DeleteMany(S)
          \/ \E T \in TagSets : InvalidateTags(T)
          \/ Flush

Observe == \/ \E k \in Keys : Get(k)
           \/ \E S \in SUBSET Keys : Export(S)
           \/ Stats

Refresh == \E k \in Keys :
    \/ \E t \in Threads, force \in BOOLEAN :
          AcquireLease(t, k, force) \/ AcquireNothing(t, k, force)
    \/ \E n \in 1..MaxTokens : ReleaseLease(k, n)
    \/ \E t \in Threads, n \in 1..MaxTokens : RenewLease(t, k, n)

Restore == \E f \in Batches :
    \E at \in Bijection(DOMAIN f, 1..Cardinality(DOMAIN f)) : RestoreEntries(f, at)

Mutation == \/ \E k \in JournalKeys : BeginMutation(k)
            \/ \E e \in Requests(clock) : JournaledPut(e)
            \/ JournaledDelete \/ JournaledGet
            \/ CommitMutation \/ RestoreMutation

Next == \/ Tick
        \/ \E t \in Threads : ReadClock(t)
        \/ Write \/ WriteMany \/ Remove \/ Observe \/ Refresh \/ Restore
        \/ Mutation

Spec == Init /\ [][Next]_vars

----------------------------------------------------------------------------
(* Properties *)

PartialFunction(f, D, R) == DOMAIN f \subseteq D /\ f \in [DOMAIN f -> R]

\* The byte counters are left to Accounting.
StoreType(s) ==
    /\ s = Store(s.entries, s.older, s.tagIndex, s.leases, s.usedBytes, s.leaseBytes)
    /\ PartialFunction(s.entries, Keys, Entry)
    /\ s.older \in [DOMAIN s.entries -> SUBSET DOMAIN s.entries]
    /\ s.tagIndex \in [Tags -> SUBSET Keys]
    /\ PartialFunction(s.leases, Keys, Lease)

GrantsType ==
    /\ grants = Grants(grants.key, grants.tags, grants.void, grants.fenced)
    /\ \E n \in 0..MaxTokens : grants.key \in [1..n -> Keys]
    /\ grants.tags \in [DOMAIN grants.key -> SUBSET Tags]
    /\ grants.void \subseteq DOMAIN grants.key
    /\ grants.fenced \subseteq DOMAIN grants.key

\* Every part of the engine's state has its type.
TypeOK ==
    /\ StoreType(store)
    /\ clock \in 0..MaxClock
    /\ readAt \in [Threads -> {NotReading} \cup 0..MaxClock]
    /\ journal.open \in BOOLEAN
    /\ GrantsType

\* The incrementally kept byte counters are the sums they stand for, over
\* every path that adds, replaces, evicts, expires, restores or rolls back.
Accounting ==
    /\ store.leaseBytes = LeaseBytes * Cardinality(DOMAIN store.leases)
    /\ store.usedBytes = EntryBytes(store.entries) + store.leaseBytes

\* No path leaves the cache over its entry, memory or lease limits, and what they
\* are compared with are the bytes it really holds.
Capacity ==
    /\ Accounting
    /\ Fits(store)
    /\ Cardinality(DOMAIN store.leases) <= MaxEntries

\* The reverse tag index lists exactly the live entries carrying each tag:
\* a missing key escapes invalidation, an extra one is a leak.
TagsIndexed(s) ==
    \A t \in Tags :
        s.tagIndex[t] = {k \in DOMAIN s.entries : t \in s.entries[k].tags}

TagIndexExact == TagsIndexed(store)

TotallyOrdered(s) ==
    \A a \in DOMAIN s.entries :
        /\ a \notin s.older[a]
        /\ \A b \in DOMAIN s.entries :
              /\ a # b => (a \in s.older[b] \/ b \in s.older[a])
              /\ a \in s.older[b] => s.older[a] \subseteq s.older[b]

\* The access order stays one total order of exactly the stored entries, also
\* where a rollback splices entries back into it.
LruCoherent == TotallyOrdered(store)

\* A lease in the table was granted for its key, and no put, delete, flush or
\* invalidation of the key has come since: so a token guards at most one write,
\* and a refresh that started before a delete cannot undo it.  restore_entries
\* writes entries beside the leases and voids no token, and a rollback that
\* undoes a put or a delete puts the lease it voided back in force.
LeaseTableSound ==
    \A k \in DOMAIN store.leases :
        /\ store.leases[k].token \in DOMAIN grants.key
        /\ grants.key[store.leases[k].token] = k
        /\ store.leases[k].token \notin grants.void

\* Under "lru" an accepted put is never its own victim: the entry it wrote is
\* there when put returns, unless the wait for the lock outlasted it.
WriteSurvives ==
    [][\A t \in Threads, k \in Keys : \A e \in Requests(readAt[t]) :
          PutStored(t, k, e) =>
             (k \in DOMAIN store'.entries /\ store'.entries[k] = e)
             \/ clock >= e.stale]_vars

\* Rolling back a mutation gives back the exact store, its access order,
\* evicted entries, leases and byte counters included.
RollbackExact == [][RestoreMutation => store' = journal.before]_vars

\* The origin guide says that invalidating an entry's tag removes its refresh
\* lease, so that an older refresh in flight cannot restore the value.  The code
\* does not keep this: see the README.
InvalidationFencesRefresh ==
    \A k \in DOMAIN store.leases : store.leases[k].token \notin grants.fenced
=============================================================================
