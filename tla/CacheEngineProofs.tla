------------------------- MODULE CacheEngineProofs -------------------------
(***************************************************************************)
(* Proofs about CacheEngine, for every value of its constants: the tag     *)
(* index, the access order, the lease table, the byte counters and the     *)
(* limits stay right on every path, and a rollback is exact.               *)
(*                                                                         *)
(* Coherent(s) is kept by each helper on stores (the lemmas of the first   *)
(* part); an action is a composition of those helpers.  Counted(s) and     *)
(* Limited(s) follow the same helpers in the second part, on top of the    *)
(* first invariant, with what an open journal knows of the store it was    *)
(* opened on.                                                              *)
(*                                                                         *)
(* The last part is about get_or_load, which the engine runs around the    *)
(* methods above: the theorems of SingleFlight, for any number of callers, *)
(* keys and flights, and its refinement of LoaderPermit.                   *)
(***************************************************************************)
EXTENDS CacheEngine, SingleFlight, FiniteSetTheorems, TLAPS

Coherent(s) == StoreType(s) /\ TagsIndexed(s) /\ TotallyOrdered(s)

----------------------------------------------------------------------------
(* The helpers on stores *)

\* _remove_entry, for any set of keys, keeps a store coherent and leaves the
\* leases alone.
LEMMA RemoveEntriesCoherent ==
    ASSUME NEW s, Coherent(s), NEW S
    PROVE  /\ Coherent(RemoveEntries(s, S))
           /\ RemoveEntries(s, S).leases = s.leases
           /\ DOMAIN RemoveEntries(s, S).entries = DOMAIN s.entries \ S
           /\ \A k \in DOMAIN s.entries \ S :
                 RemoveEntries(s, S).entries[k] = s.entries[k]
<1> DEFINE r == RemoveEntries(s, S)
           D == DOMAIN s.entries \ S
<1>1. /\ r = Store(r.entries, r.older, r.tagIndex, r.leases, r.usedBytes, r.leaseBytes)
      /\ r.entries = [k \in D |-> s.entries[k]]
      /\ r.older = [k \in D |-> s.older[k] \ S]
      /\ r.tagIndex = [t \in Tags |-> s.tagIndex[t] \ S]
      /\ r.leases = s.leases
  BY DEF Coherent, StoreType, PartialFunction, RemoveEntries, Without, Restrict, Store
<1> HIDE DEF r
<1>2. StoreType(r)
  BY <1>1 DEF Coherent, StoreType, PartialFunction
<1>3. TagsIndexed(r)
  BY <1>1 DEF Coherent, TagsIndexed, StoreType, PartialFunction
<1>4. TotallyOrdered(r)
  BY <1>1 DEF Coherent, TotallyOrdered, StoreType, PartialFunction
<1>5. QED
  BY <1>1, <1>2, <1>3, <1>4 DEF Coherent, r

\* _remove_lease touches nothing but the lease table.
LEMMA RemoveLeasesCoherent ==
    ASSUME NEW s, Coherent(s), NEW S
    PROVE  /\ Coherent(RemoveLeases(s, S))
           /\ RemoveLeases(s, S).entries = s.entries
           /\ RemoveLeases(s, S).leases = [k \in DOMAIN s.leases \ S |-> s.leases[k]]
<1> DEFINE r == RemoveLeases(s, S)
<1>1. /\ r = Store(r.entries, r.older, r.tagIndex, r.leases, r.usedBytes, r.leaseBytes)
      /\ r.entries = s.entries /\ r.older = s.older /\ r.tagIndex = s.tagIndex
      /\ r.leases = [k \in DOMAIN s.leases \ S |-> s.leases[k]]
  BY DEF RemoveLeases, Without, Restrict, Store
<1> HIDE DEF r
<1>2. StoreType(r)
  BY <1>1 DEF Coherent, StoreType, PartialFunction
<1>3. TagsIndexed(r) /\ TotallyOrdered(r)
  BY <1>1 DEF Coherent, TagsIndexed, TotallyOrdered
<1>4. QED
  BY <1>1, <1>2, <1>3 DEF Coherent, r

\* Storing an absent key puts it behind every other entry.
LEMMA AddEntryCoherent ==
    ASSUME NEW s, Coherent(s), NEW k \in Keys, k \notin DOMAIN s.entries,
           NEW e \in Entry
    PROVE  /\ Coherent(AddEntry(s, k, e))
           /\ AddEntry(s, k, e).leases = s.leases
           /\ DOMAIN AddEntry(s, k, e).entries = DOMAIN s.entries \cup {k}
<1> DEFINE r == AddEntry(s, k, e)
           D == DOMAIN s.entries \cup {k}
<1>1. /\ r = Store(r.entries, r.older, r.tagIndex, r.leases, r.usedBytes, r.leaseBytes)
      /\ r.entries = [x \in D |-> IF x = k THEN e ELSE s.entries[x]]
      /\ r.older = [x \in D |-> IF x = k THEN DOMAIN s.entries ELSE s.older[x]]
      /\ r.leases = s.leases
  BY DEF Coherent, StoreType, PartialFunction, AddEntry, Updated, Only, Store
<1>2. r.tagIndex = [t \in Tags |-> s.tagIndex[t] \cup
                        (IF t \in e.tags THEN {k} ELSE {})]
  BY DEF AddEntry, Tagged, Only, Store
<1> HIDE DEF r
<1>3. StoreType(r)
  BY <1>1, <1>2 DEF Coherent, StoreType, PartialFunction
<1>4. TagsIndexed(r)
  BY <1>1, <1>2 DEF Coherent, TagsIndexed, StoreType, PartialFunction
<1>5. TotallyOrdered(r)
  BY <1>1 DEF Coherent, TotallyOrdered, StoreType, PartialFunction
<1>6. QED
  BY <1>1, <1>3, <1>4, <1>5 DEF Coherent, r

\* move_to_end
LEMMA TouchCoherent ==
    ASSUME NEW s, Coherent(s), NEW k \in DOMAIN s.entries
    PROVE  /\ Coherent(Touch(s, k))
           /\ Touch(s, k).leases = s.leases
           /\ Touch(s, k).entries = s.entries
<1> DEFINE r == Touch(s, k)
<1>1. /\ r = Store(r.entries, r.older, r.tagIndex, r.leases, r.usedBytes, r.leaseBytes)
      /\ r.entries = s.entries /\ r.tagIndex = s.tagIndex /\ r.leases = s.leases
      /\ r.older = [x \in DOMAIN s.entries |->
                       IF x = k THEN DOMAIN s.entries \ {k} ELSE s.older[x] \ {k}]
  BY DEF Coherent, StoreType, Touch, Store
<1> HIDE DEF r
<1>2. StoreType(r)
  BY <1>1 DEF Coherent, StoreType, PartialFunction
<1>3. TagsIndexed(r)
  BY <1>1 DEF Coherent, TagsIndexed
<1>4. TotallyOrdered(r)
  BY <1>1 DEF Coherent, TotallyOrdered, StoreType, PartialFunction
<1>5. QED
  BY <1>1, <1>2, <1>3, <1>4 DEF Coherent, r

\* _lookup drops at most the key it looks up.
LEMMA LookupCoherent ==
    ASSUME NEW s, Coherent(s), NEW k, NEW now
    PROVE  /\ Coherent(Lookup(s, k, now))
           /\ Lookup(s, k, now).leases = s.leases
           /\ DOMAIN Lookup(s, k, now).entries \subseteq DOMAIN s.entries
           /\ DOMAIN s.entries \ {k} \subseteq DOMAIN Lookup(s, k, now).entries
           /\ \A x \in DOMAIN Lookup(s, k, now).entries :
                 Lookup(s, k, now).entries[x] = s.entries[x]
<1>1. CASE k \notin DOMAIN s.entries
  BY <1>1 DEF Lookup
<1>2. CASE k \in DOMAIN s.entries /\ k \in ExpiredEntries(s, now)
  BY <1>2, RemoveEntriesCoherent DEF Lookup
<1>3. CASE k \in DOMAIN s.entries /\ k \notin ExpiredEntries(s, now)
  BY <1>3, TouchCoherent DEF Lookup
<1>4. QED
  BY <1>1, <1>2, <1>3

\* The write of put, before its evictions.
LEMMA WrittenCoherent ==
    ASSUME NEW s, Coherent(s), NEW k \in Keys, NEW e \in Entry
    PROVE  /\ Coherent(Written(s, k, e))
           /\ Written(s, k, e).leases = [x \in DOMAIN s.leases \ {k} |-> s.leases[x]]
           /\ DOMAIN Written(s, k, e).entries = DOMAIN s.entries \cup {k}
<1> DEFINE a == RemoveEntries(s, {k})
           b == AddEntry(a, k, e)
<1>1. Coherent(a) /\ a.leases = s.leases /\ DOMAIN a.entries = DOMAIN s.entries \ {k}
  BY RemoveEntriesCoherent
<1> HIDE DEF a
<1>2. Coherent(b) /\ b.leases = a.leases /\ DOMAIN b.entries = DOMAIN a.entries \cup {k}
  BY <1>1, AddEntryCoherent
<1> HIDE DEF b
<1>3. /\ Coherent(RemoveLeases(b, {k})) /\ RemoveLeases(b, {k}).entries = b.entries
      /\ RemoveLeases(b, {k}).leases = [x \in DOMAIN b.leases \ {k} |-> b.leases[x]]
  BY <1>2, RemoveLeasesCoherent
<1>4. Written(s, k, e) = RemoveLeases(b, {k})
  BY DEF Written, a, b
<1>5. QED
  BY <1>1, <1>2, <1>3, <1>4

\* A put, its evictions and its last lookup, for any victims.
LEMMA PutCoherent ==
    ASSUME NEW s, Coherent(s), NEW k \in Keys, NEW e \in Entry, NEW now, NEW V,
           NEW r, r = Lookup(RemoveEntries(Written(s, k, e), V), k, now)
    PROVE  /\ Coherent(r)
           /\ r.leases = [x \in DOMAIN s.leases \ {k} |-> s.leases[x]]
           /\ DOMAIN r.entries \subseteq DOMAIN s.entries \cup {k}
           /\ DOMAIN s.entries \ (V \cup {k}) \subseteq DOMAIN r.entries
<1> DEFINE w == Written(s, k, e)
           v == RemoveEntries(w, V)
<1>1. /\ Coherent(w) /\ w.leases = [x \in DOMAIN s.leases \ {k} |-> s.leases[x]]
      /\ DOMAIN w.entries = DOMAIN s.entries \cup {k}
  BY WrittenCoherent
<1> HIDE DEF w
<1>2. Coherent(v) /\ v.leases = w.leases /\ DOMAIN v.entries = DOMAIN w.entries \ V
  BY <1>1, RemoveEntriesCoherent
<1> HIDE DEF v
<1>3. r = Lookup(v, k, now)
  BY DEF v, w
<1>4. /\ Coherent(r) /\ r.leases = v.leases
      /\ DOMAIN r.entries \subseteq DOMAIN v.entries
      /\ DOMAIN v.entries \ {k} \subseteq DOMAIN r.entries
  BY <1>2, <1>3, LookupCoherent
<1>5. QED
  BY <1>1, <1>2, <1>4

\* Adding entries to the index keeps its type.
LEMMA TaggedType ==
    ASSUME NEW index \in [Tags -> SUBSET Keys], NEW f, DOMAIN f \subseteq Keys
    PROVE  Tagged(index, f) \in [Tags -> SUBSET Keys]
BY DEF Tagged

\* restore_entries appends its entries in the order given and drops no lease.
LEMMA RestoredCoherent ==
    ASSUME NEW s, Coherent(s), NEW f, PartialFunction(f, Keys, Entry),
           NEW at, at \in [DOMAIN f -> Nat],
           \A x, y \in DOMAIN f : at[x] = at[y] => x = y
    PROVE  Coherent(Restored(s, f, at)) /\ Restored(s, f, at).leases = s.leases
<1> DEFINE b == RemoveEntries(s, DOMAIN f)
           r == Restored(s, f, at)
           D == DOMAIN b.entries \cup DOMAIN f
           below(k) == DOMAIN b.entries \cup {x \in DOMAIN f : at[x] < at[k]}
<1>1. /\ Coherent(b) /\ b.leases = s.leases
      /\ DOMAIN b.entries \cap DOMAIN f = {}
  BY RemoveEntriesCoherent
<1>2. /\ r = Store(r.entries, r.older, r.tagIndex, r.leases, r.usedBytes, r.leaseBytes)
      /\ r.entries = Updated(b.entries, f)
      /\ r.older = Updated(b.older, [k \in DOMAIN f |-> below(k)])
      /\ r.tagIndex = Tagged(b.tagIndex, f)
      /\ r.leases = b.leases
  BY DEF Restored, Store
<1> HIDE DEF r, b
<1>3. /\ r.entries = [x \in D |-> IF x \in DOMAIN f THEN f[x] ELSE b.entries[x]]
      /\ r.older = [x \in D |-> IF x \in DOMAIN f THEN below(x) ELSE b.older[x]]
  BY <1>1, <1>2 DEF Updated, Coherent, StoreType, PartialFunction
<1>4. StoreType(r)
  <2>1. r.tagIndex \in [Tags -> SUBSET Keys]
    BY <1>1, <1>2, TaggedType DEF Coherent, StoreType, PartialFunction
  <2>2. PartialFunction(r.entries, Keys, Entry)
    BY <1>1, <1>3 DEF Coherent, StoreType, PartialFunction
  <2>3. r.older \in [DOMAIN r.entries -> SUBSET DOMAIN r.entries]
    BY <1>1, <1>3 DEF Coherent, StoreType, PartialFunction
  <2>4. QED
    BY <1>1, <1>2, <2>1, <2>2, <2>3 DEF Coherent, StoreType
<1>5. TagsIndexed(r)
  BY <1>1, <1>2, <1>3 DEF Coherent, TagsIndexed, StoreType, PartialFunction, Tagged
<1>6. TotallyOrdered(r)
  <2>1. \A x, y \in DOMAIN f : at[x] \in Nat /\ (x # y => at[x] < at[y] \/ at[y] < at[x])
    OBVIOUS
  <2>2. /\ \A x \in DOMAIN f, y \in D : y \in r.older[x] <=>
              y \in DOMAIN b.entries \/ (y \in DOMAIN f /\ at[y] < at[x])
        /\ \A x \in DOMAIN b.entries : r.older[x] = b.older[x]
        /\ \A x \in D : r.older[x] \subseteq D
        /\ \A x \in DOMAIN b.entries : b.older[x] \subseteq DOMAIN b.entries
        /\ DOMAIN r.entries = D
    BY <1>1, <1>3 DEF Coherent, StoreType, PartialFunction
  <2>3. \A x, y \in DOMAIN f : at[x] < at[y] => r.older[x] \subseteq r.older[y]
    BY <2>1, <2>2
  <2>4. \A x \in DOMAIN b.entries, y \in DOMAIN f : r.older[x] \subseteq r.older[y]
    BY <2>2
  <2> HIDE DEF D
  <2>5. QED
    BY <1>1, <2>1, <2>2, <2>3, <2>4 DEF Coherent, TotallyOrdered, D
<1>7. QED
  BY <1>1, <1>2, <1>4, <1>5, <1>6 DEF Coherent, r

StrictOrder(earlier, D) ==
    /\ earlier \in [D -> SUBSET D]
    /\ \A a \in D : /\ a \notin earlier[a]
                    /\ \A b \in D :
                          /\ a # b => (a \in earlier[b] \/ b \in earlier[a])
                          /\ a \in earlier[b] => earlier[a] \subseteq earlier[b]

\* The rollback's evicted entries, back at the least recently used end.
LEMMA ReinstatedCoherent ==
    ASSUME NEW s, Coherent(s), NEW f, PartialFunction(f, Keys, Entry),
           NEW earlier, StrictOrder(earlier, DOMAIN f)
    PROVE  /\ Coherent(Reinstated(s, f, earlier))
           /\ Reinstated(s, f, earlier).leases = s.leases
           /\ DOMAIN Reinstated(s, f, earlier).entries = DOMAIN s.entries \cup DOMAIN f
<1> DEFINE b == RemoveEntries(s, DOMAIN f)
           r == Reinstated(s, f, earlier)
           D == DOMAIN b.entries \cup DOMAIN f
<1>1. /\ Coherent(b) /\ b.leases = s.leases
      /\ DOMAIN b.entries = DOMAIN s.entries \ DOMAIN f
  BY RemoveEntriesCoherent
<1>2. /\ r = Store(r.entries, r.older, r.tagIndex, r.leases, r.usedBytes, r.leaseBytes)
      /\ r.entries = Updated(b.entries, f)
      /\ r.older = Updated([k \in DOMAIN b.entries |-> b.older[k] \cup DOMAIN f],
                           earlier)
      /\ r.tagIndex = Tagged(b.tagIndex, f)
      /\ r.leases = b.leases
  BY DEF Reinstated, Store
<1> HIDE DEF r, b
<1>3. /\ r.entries = [x \in D |-> IF x \in DOMAIN f THEN f[x] ELSE b.entries[x]]
      /\ r.older = [x \in D |-> IF x \in DOMAIN f THEN earlier[x]
                                ELSE b.older[x] \cup DOMAIN f]
  BY <1>1, <1>2 DEF Updated, StrictOrder
<1>4. StoreType(r)
  <2>1. r.tagIndex \in [Tags -> SUBSET Keys]
    BY <1>1, <1>2, TaggedType DEF Coherent, StoreType, PartialFunction
  <2>2. PartialFunction(r.entries, Keys, Entry)
    BY <1>1, <1>3 DEF Coherent, StoreType, PartialFunction
  <2>3. r.older \in [DOMAIN r.entries -> SUBSET DOMAIN r.entries]
    BY <1>1, <1>3 DEF Coherent, StoreType, PartialFunction, StrictOrder
  <2>4. QED
    BY <1>1, <1>2, <2>1, <2>2, <2>3 DEF Coherent, StoreType
<1>5. TagsIndexed(r)
  BY <1>1, <1>2, <1>3 DEF Coherent, TagsIndexed, StoreType, PartialFunction, Tagged
<1>6. TotallyOrdered(r)
  BY <1>1, <1>3 DEF Coherent, TotallyOrdered, StoreType, PartialFunction, StrictOrder
<1>7. QED
  BY <1>1, <1>2, <1>3, <1>4, <1>5, <1>6 DEF Coherent, r

\* The rollback's own key, spliced in behind its predecessor.
LEMMA PutBackCoherent ==
    ASSUME NEW s, Coherent(s), NEW k \in Keys, k \notin DOMAIN s.entries,
           NEW e \in Entry, NEW pred \in SUBSET DOMAIN s.entries
    PROVE  /\ Coherent(PutBack(s, k, e, pred))
           /\ PutBack(s, k, e, pred).leases = s.leases
<1> DEFINE r == PutBack(s, k, e, pred)
           below == UNION {s.older[p] \cup {p} : p \in pred}
           D == DOMAIN s.entries \cup {k}
<1>1. /\ r = Store(r.entries, r.older, r.tagIndex, r.leases, r.usedBytes, r.leaseBytes)
      /\ r.entries = Updated(s.entries, Only(k, e))
      /\ r.older = Updated([x \in DOMAIN s.entries |->
                              IF x \in below THEN s.older[x] ELSE s.older[x] \cup {k}],
                           Only(k, below))
      /\ r.tagIndex = Tagged(s.tagIndex, Only(k, e))
      /\ r.leases = s.leases
  BY DEF PutBack, Store
<1>2. /\ below \subseteq DOMAIN s.entries
      /\ \A x \in below : s.older[x] \subseteq below
  BY DEF Coherent, TotallyOrdered, StoreType
<1> HIDE DEF r, below
<1>3. /\ r.entries = [x \in D |-> IF x = k THEN e ELSE s.entries[x]]
      /\ r.older = [x \in D |-> IF x = k THEN below
                                ELSE IF x \in below THEN s.older[x]
                                ELSE s.older[x] \cup {k}]
  BY <1>1 DEF Updated, Only
<1>4. StoreType(r)
  <2>1. r.tagIndex \in [Tags -> SUBSET Keys]
    BY <1>1, TaggedType DEF Coherent, StoreType, Only
  <2>2. PartialFunction(r.entries, Keys, Entry)
    BY <1>3 DEF Coherent, StoreType, PartialFunction
  <2>3. r.older \in [DOMAIN r.entries -> SUBSET DOMAIN r.entries]
    BY <1>2, <1>3 DEF Coherent, StoreType, PartialFunction
  <2>4. QED
    BY <1>1, <2>1, <2>2, <2>3 DEF Coherent, StoreType
<1>5. TagsIndexed(r)
  BY <1>1, <1>3 DEF Coherent, TagsIndexed, StoreType, PartialFunction, Tagged, Only
<1>6. TotallyOrdered(r)
  <2>1. \A x \in DOMAIN s.entries : x \notin below => below \subseteq s.older[x]
    BY <1>2 DEF Coherent, TotallyOrdered, StoreType
  <2>2. QED
    BY <1>2, <1>3, <2>1 DEF Coherent, TotallyOrdered, StoreType, PartialFunction
<1>7. QED
  BY <1>1, <1>4, <1>5, <1>6 DEF Coherent, r

\* expire gives an entry a new deadline and keeps its tags.
LEMMA DeadlineCoherent ==
    ASSUME NEW s, Coherent(s), NEW k \in DOMAIN s.entries, NEW at \in Nat,
           NEW r, r = Store(Updated(s.entries, Only(k, Deadline(s.entries[k], at))),
                            s.older, s.tagIndex, s.leases, s.usedBytes, s.leaseBytes)
    PROVE  Coherent(r) /\ r.leases = s.leases
<1>1. /\ r = Store(r.entries, r.older, r.tagIndex, r.leases, r.usedBytes, r.leaseBytes)
      /\ r.entries = [x \in DOMAIN s.entries |->
                        IF x = k THEN Deadline(s.entries[k], at) ELSE s.entries[x]]
      /\ r.older = s.older /\ r.tagIndex = s.tagIndex /\ r.leases = s.leases
  BY DEF Store, Updated, Only
<1>2. /\ Deadline(s.entries[k], at) \in Entry
      /\ Deadline(s.entries[k], at).tags = s.entries[k].tags
  BY DEF Coherent, StoreType, PartialFunction, Entry, Deadline
<1>3. StoreType(r)
  BY <1>1, <1>2 DEF Coherent, StoreType, PartialFunction
<1>4. TagsIndexed(r) /\ TotallyOrdered(r)
  BY <1>1, <1>2 DEF Coherent, TagsIndexed, TotallyOrdered
<1>5. QED
  BY <1>1, <1>3, <1>4 DEF Coherent

\* Replacing the lease table by another one of its type.
LEMMA NewLeasesCoherent ==
    ASSUME NEW s, Coherent(s), NEW l, PartialFunction(l, Keys, Lease), NEW u, NEW b
    PROVE  /\ Coherent(Store(s.entries, s.older, s.tagIndex, l, u, b))
           /\ Store(s.entries, s.older, s.tagIndex, l, u, b).leases = l
BY DEF Coherent, StoreType, TagsIndexed, TotallyOrdered, Store

----------------------------------------------------------------------------
(* What callers store, and in which order victims go *)

\* What put computes from a caller's arguments is an entry.
LEMMA RequestsAreEntries ==
    ASSUME NEW now \in Nat
    PROVE  Requests(now) \subseteq Entry /\ SnapshotEntries(now) \subseteq Entry
<1>1. \A v \in Values, ttl \in Ttls \cup {0}, stale \in Stales, tags \in TagSets :
        NewEntry(v, ttl, stale, tags, now) \in Entry
  BY DurationsAreNatural, BoundsAreSubsets DEF NewEntry, Entry
<1>2. \A v \in Values : PersistentEntry(v) \in Entry
  BY ForeverIsNever DEF PersistentEntry, Entry
<1>3. ASSUME NEW e \in Requests(now) PROVE e \in Entry
  <2>1. \/ \E v \in Values, ttl \in Ttls, stale \in Stales, tags \in TagSets :
              e = NewEntry(v, ttl, stale, tags, now)
        \/ \E v \in Values : e = PersistentEntry(v)
    BY DEF Requests
  <2>2. QED
    BY <1>1, <1>2, <2>1
<1>4. ASSUME NEW e \in SnapshotEntries(now), e \notin Requests(now) PROVE e \in Entry
  <2>1. \E v \in Values, stale \in Stales \ {0}, tags \in TagSets :
           e = NewEntry(v, 0, stale, tags, now)
    BY <1>4 DEF SnapshotEntries
  <2>2. QED
    BY <1>1, <2>1
<1>5. QED
  BY <1>3, <1>4

\* The eviction loop numbers its victims, all of them entries, one by one.
LEMMA VictimsAreNumbered ==
    ASSUME NEW s, Coherent(s), NEW at \in Evictions(s)
    PROVE  /\ DOMAIN at \subseteq DOMAIN s.entries
           /\ at \in [DOMAIN at -> Int]
           /\ \A x, y \in DOMAIN at : at[x] = at[y] => x = y
<1> DEFINE Oldest(n) == {k \in DOMAIN s.entries : Cardinality(s.older[k]) < n}
           Rank(V) == [k \in V |-> Cardinality(s.older[k]) + 1]
<1>1. CASE at = [k \in {} |-> 0]
  BY <1>1
<1>2. CASE \E V \in SUBSET DOMAIN s.entries : at \in Bijection(V, 1..Cardinality(V))
  <2>1. PICK V \in SUBSET DOMAIN s.entries : at \in Bijection(V, 1..Cardinality(V))
    BY <1>2
  <2>2. at \in [V -> 1..Cardinality(V)] /\ IsInjective(at)
    BY <2>1 DEF Bijection, Injection
  <2>3. QED
    BY <2>1, <2>2 DEF IsInjective
<1>3. CASE \E n \in 0..Cardinality(DOMAIN s.entries) : at = Rank(Oldest(n))
  <2>1. \A x \in DOMAIN s.entries :
           IsFiniteSet(s.older[x]) /\ Cardinality(s.older[x]) \in Nat
    BY KeysAreFinite, FS_Subset, FS_CardinalityType
       DEF Coherent, StoreType, PartialFunction
  <2>2. ASSUME NEW x \in DOMAIN s.entries, NEW y \in DOMAIN s.entries, x \in s.older[y]
        PROVE  Cardinality(s.older[x]) # Cardinality(s.older[y])
    <3>1. s.older[x] \in SUBSET s.older[y] /\ x \notin s.older[x]
      BY <2>2 DEF Coherent, TotallyOrdered
    <3>2. QED
      BY <2>1, <2>2, <3>1, FS_Subset
  <2>3. \A x, y \in DOMAIN s.entries :
           Cardinality(s.older[x]) = Cardinality(s.older[y]) => x = y
    BY <2>2 DEF Coherent, TotallyOrdered
  <2>4. QED
    BY <1>3, <2>1, <2>3
<1>4. QED
  BY <1>1, <1>2, <1>3 DEF Evictions, VictimOrders

----------------------------------------------------------------------------
(* The inductive invariant *)

\* What an open journal must still know for its rollback to be coherent: the
\* victims and the order they went in, a predecessor that is stored or evicted,
\* and a lease no token of which was void when the journal was opened.
JournalSound ==
    journal.open =>
      /\ journal = [open |-> TRUE, key |-> journal.key, entry |-> journal.entry,
                    predecessor |-> journal.predecessor, lease |-> journal.lease,
                    usedBytes |-> journal.usedBytes,
                    leaseBytes |-> journal.leaseBytes, evicted |-> journal.evicted,
                    before |-> journal.before, voidBefore |-> journal.voidBefore]
      /\ journal.key \in Keys
      /\ PartialFunction(journal.entry, {journal.key}, Entry)
      /\ PartialFunction(journal.lease, {journal.key}, Lease)
      /\ PartialFunction(journal.evicted.entries, Keys \ {journal.key}, Entry)
      /\ StrictOrder(journal.evicted.earlier, DOMAIN journal.evicted.entries)
      /\ journal.predecessor \subseteq
            (DOMAIN store.entries \cup DOMAIN journal.evicted.entries) \ {journal.key}
      /\ journal.voidBefore \subseteq grants.void
      /\ \A k \in DOMAIN journal.lease :
            /\ journal.lease[k].token \in DOMAIN grants.key
            /\ grants.key[journal.lease[k].token] = k
            /\ journal.lease[k].token \notin journal.voidBefore

IInv == /\ TypeOK /\ Coherent(store)
        /\ LeaseTableSound
        /\ JournalSound

\* The engine starts coherent.
LEMMA InitIInv == Init => IInv
<1> SUFFICES ASSUME Init PROVE IInv
  OBVIOUS
<1>1. Coherent(store)
  BY DEF Init, EmptyStore, Store, Coherent, StoreType, PartialFunction,
         TagsIndexed, TotallyOrdered
<1>2. GrantsType
  <2>1. grants.key \in [1..0 -> Keys]
    BY DEF Init, Grants
  <2>2. QED
    BY <2>1, LimitsAreNatural DEF Init, Grants, GrantsType
<1>3. LeaseTableSound
  BY DEF Init, EmptyStore, Store, LeaseTableSound
<1>4. QED
  BY <1>1, <1>2, <1>3, LimitsAreNatural
     DEF Init, IInv, TypeOK, Coherent, JournalSound, NoJournal, NotReading

\* A step of one method under the lock: it leaves a coherent store, drops the
\* leases of the keys K it voids and adds none.
LEMMA LockedStep ==
    ASSUME IInv, ~journal.open, UNCHANGED <<clock, journal>>,
           readAt' \in [Threads -> {NotReading} \cup 0..MaxClock],
           Coherent(store'), NEW K,
           DOMAIN store'.leases \subseteq DOMAIN store.leases \ K,
           \A k \in DOMAIN store'.leases : store'.leases[k].token = store.leases[k].token,
           grants' = Grants(grants.key, grants.tags, grants'.void, grants'.fenced),
           grants'.void \subseteq grants.void \cup TokensOf(K),
           grants'.fenced \subseteq DOMAIN grants.key
    PROVE  IInv'
<1>1. grants'.key = grants.key /\ grants'.tags = grants.tags
  BY DEF Grants
<1>2. GrantsType'
  BY <1>1 DEF IInv, TypeOK, GrantsType, Grants, TokensOf
<1>3. LeaseTableSound'
  BY <1>1 DEF IInv, LeaseTableSound, TokensOf
<1>4. QED
  BY <1>2, <1>3 DEF IInv, TypeOK, Coherent, JournalSound

\* A method that leaves the lease table as it found it and voids nothing.
LEMMA QuietStep ==
    ASSUME IInv, ~journal.open, UNCHANGED <<clock, journal, grants>>,
           readAt' \in [Threads -> {NotReading} \cup 0..MaxClock],
           Coherent(store'),
           DOMAIN store'.leases \subseteq DOMAIN store.leases,
           \A k \in DOMAIN store'.leases : store'.leases[k].token = store.leases[k].token
    PROVE  IInv'
<1>1. /\ grants' = Grants(grants.key, grants.tags, grants'.void, grants'.fenced)
      /\ grants'.void \subseteq grants.void \cup TokensOf({})
      /\ grants'.fenced \subseteq DOMAIN grants.key
  BY DEF IInv, TypeOK, GrantsType
<1>2. DOMAIN store'.leases \subseteq DOMAIN store.leases \ {}
  OBVIOUS
<1>3. QED
  BY <1>1, <1>2, LockedStep

\* put, with its evictions and its last lookup.
LEMMA PutStep ==
    ASSUME IInv, NEW t \in Threads, NEW k \in Keys, NEW e, PutStored(t, k, e)
    PROVE  IInv'
<1>1. e \in Entry
  <2>1. readAt[t] \in Nat
    BY DEF IInv, TypeOK, PutStored
  <2>2. QED
    BY <2>1, RequestsAreEntries DEF PutStored
<1>2. PICK at \in Evictions(Written(store, k, e)) :
        store' = Lookup(RemoveEntries(Written(store, k, e), DOMAIN at), k, clock)
  BY DEF PutStored, PutResults
<1>3. /\ Coherent(store')
      /\ store'.leases = [x \in DOMAIN store.leases \ {k} |-> store.leases[x]]
  BY <1>1, <1>2, PutCoherent DEF IInv
<1>4. readAt' \in [Threads -> {NotReading} \cup 0..MaxClock]
  BY DEF PutStored, Done, IInv, TypeOK
<1>5. /\ grants' = Grants(grants.key, grants.tags, grants'.void, grants'.fenced)
      /\ grants'.void \subseteq grants.void \cup TokensOf({k})
      /\ grants'.fenced \subseteq DOMAIN grants.key
  BY DEF PutStored, Voided, Grants, IInv, TypeOK, GrantsType
<1>6. QED
  BY <1>3, <1>4, <1>5, LockedStep DEF PutStored, Locked

\* Both outcomes of mset.
LEMMA MSetStep ==
    ASSUME IInv, NEW k1 \in Keys, NEW k2 \in Keys, NEW v1 \in Values, NEW v2 \in Values,
           MSet(k1, v1, k2, v2) \/ MSetPartial(k1, v1, k2, v2)
    PROVE  IInv'
<1> DEFINE e1 == PersistentEntry(v1)
           e2 == PersistentEntry(v2)
<1>1. e1 \in Entry /\ e2 \in Entry
  BY ForeverIsNever DEF PersistentEntry, Entry
<1>2. PICK s1 \in PutResults(store, k1, e1, clock) :
        \/ store' = s1 /\ grants' = Voided({k1})
        \/ store' \in PutResults(s1, k2, e2, clock) /\ grants' = Voided({k1, k2})
  BY DEF MSet, MSetPartial
<1> HIDE DEF e1, e2
<1>3. PICK V1 : s1 = Lookup(RemoveEntries(Written(store, k1, e1), V1), k1, clock)
  BY <1>2 DEF PutResults
<1>4. /\ Coherent(s1)
      /\ s1.leases = [x \in DOMAIN store.leases \ {k1} |-> store.leases[x]]
  BY <1>1, <1>3, PutCoherent DEF IInv
<1>5. readAt' \in [Threads -> {NotReading} \cup 0..MaxClock]
  BY DEF MSet, MSetPartial, IInv, TypeOK
<1>6. /\ grants' = Grants(grants.key, grants.tags, grants'.void, grants'.fenced)
      /\ grants'.void \subseteq grants.void \cup TokensOf({k1, k2})
      /\ grants'.fenced \subseteq DOMAIN grants.key
  BY <1>2 DEF Voided, Grants, TokensOf, IInv, TypeOK, GrantsType
<1>7. CASE store' = s1 /\ grants' = Voided({k1})
  <2>1. grants'.void \subseteq grants.void \cup TokensOf({k1})
    BY <1>7 DEF Voided, Grants
  <2>2. QED
    BY <1>4, <1>5, <1>6, <1>7, <2>1, LockedStep DEF MSet, MSetPartial, Locked
<1>8. CASE store' \in PutResults(s1, k2, e2, clock)
  <2>1. PICK V2 : store' = Lookup(RemoveEntries(Written(s1, k2, e2), V2), k2, clock)
    BY <1>8 DEF PutResults
  <2>2. /\ Coherent(store')
        /\ store'.leases = [x \in DOMAIN s1.leases \ {k2} |-> s1.leases[x]]
    <3>1. Coherent(s1)
      BY <1>4
    <3>2. QED
      BY <1>1, <2>1, <3>1, PutCoherent
  <2>3. QED
    BY <1>4, <1>5, <1>6, <2>2, LockedStep DEF MSet, MSetPartial, Locked
<1>9. QED
  BY <1>2, <1>7, <1>8

\* delete, delete_many and invalidate_tags: the keys of S lose entry and lease.
LEMMA RemovalCoherent ==
    ASSUME NEW s, Coherent(s), NEW S
    PROVE  /\ Coherent(RemoveLeases(RemoveEntries(s, S), S))
           /\ RemoveLeases(RemoveEntries(s, S), S).leases =
                 [k \in DOMAIN s.leases \ S |-> s.leases[k]]
           /\ DOMAIN RemoveLeases(RemoveEntries(s, S), S).entries =
                 DOMAIN s.entries \ S
<1> DEFINE a == RemoveEntries(s, S)
<1>1. Coherent(a) /\ a.leases = s.leases /\ DOMAIN a.entries = DOMAIN s.entries \ S
  BY RemoveEntriesCoherent
<1> HIDE DEF a
<1>2. QED
  BY <1>1, RemoveLeasesCoherent DEF a

\* The steps of delete, delete_many, expire, flush and invalidate_tags.
LEMMA RemoveStep == IInv /\ Remove => IInv'
<1> SUFFICES ASSUME IInv, Remove PROVE IInv'
  OBVIOUS
<1>1. ASSUME NEW S, ~journal.open, UNCHANGED <<clock, readAt, journal>>,
             store' = RemoveLeases(RemoveEntries(store, S), S),
             grants' = Grants(grants.key, grants.tags, grants.void \cup TokensOf(S),
                              grants'.fenced),
             grants'.fenced \subseteq DOMAIN grants.key
      PROVE  IInv'
  <2>1. /\ Coherent(store')
        /\ store'.leases = [k \in DOMAIN store.leases \ S |-> store.leases[k]]
    BY <1>1, RemovalCoherent DEF IInv
  <2>2. readAt' \in [Threads -> {NotReading} \cup 0..MaxClock]
    BY <1>1 DEF IInv, TypeOK
  <2>3. /\ grants' = Grants(grants.key, grants.tags, grants'.void, grants'.fenced)
        /\ grants'.void \subseteq grants.void \cup TokensOf(S)
    BY <1>1 DEF Grants
  <2>4. QED
    BY <1>1, <2>1, <2>2, <2>3, LockedStep
<1>2. grants.fenced \subseteq DOMAIN grants.key
  BY DEF IInv, TypeOK, GrantsType
<1>3. ASSUME NEW k \in Keys, Delete(k) PROVE IInv'
  BY <1>1, <1>2, <1>3 DEF Delete, Locked, Voided, Grants
<1>4. ASSUME NEW S \in SUBSET Keys, DeleteMany(S) PROVE IInv'
  BY <1>1, <1>2, <1>4 DEF DeleteMany, Locked, Voided, Grants
<1>5. ASSUME NEW T \in TagSets, InvalidateTags(T) PROVE IInv'
  <2>1. PICK hit : /\ store' = RemoveLeases(RemoveEntries(store, hit), hit)
                   /\ grants' = Grants(grants.key, grants.tags,
                                       grants.void \cup TokensOf(hit),
                                       grants.fenced \cup Fenced(T))
    BY <1>5 DEF InvalidateTags
  <2>2. grants'.fenced = grants.fenced \cup Fenced(T) /\ Fenced(T) \subseteq DOMAIN grants.key
    BY <2>1 DEF Grants, Fenced
  <2>3. QED
    BY <1>1, <1>2, <1>5, <2>1, <2>2 DEF InvalidateTags, Locked
<1>6. ASSUME NEW k \in Keys, NEW ttl \in Ttls, Expire(k, ttl) PROVE IInv'
  <2> DEFINE s == Lookup(store, k, clock)
  <2>1. /\ Coherent(s) /\ s.leases = store.leases
        /\ DOMAIN store.entries \ {k} \subseteq DOMAIN s.entries
    BY LookupCoherent DEF IInv
  <2>2. Coherent(store') /\ store'.leases = store.leases
    <3>1. CASE LookupState(store, k, clock) = "miss"
      BY <1>6, <2>1, <3>1 DEF Expire
    <3>2. CASE LookupState(store, k, clock) # "miss"
      <4>1. k \in DOMAIN s.entries
        <5>1. k \in DOMAIN store.entries /\ s = Touch(store, k)
          BY <3>2 DEF LookupState, Lookup
        <5>2. QED
          BY <5>1, TouchCoherent DEF IInv
      <4>2. clock + ttl \in Nat
        BY DurationsAreNatural DEF IInv, TypeOK
      <4>3. store' = Store(Updated(s.entries, Only(k, Deadline(s.entries[k], clock + ttl))),
                           s.older, s.tagIndex, s.leases, s.usedBytes, s.leaseBytes)
        BY <1>6, <3>2 DEF Expire
      <4> HIDE DEF s
      <4>4. QED
        BY <2>1, <4>1, <4>2, <4>3, DeadlineCoherent
    <3>3. QED
      BY <3>1, <3>2
  <2>3. QED
    BY <1>6, <2>2, QuietStep DEF Expire, Locked, IInv, TypeOK
<1>7. ASSUME Flush PROVE IInv'
  <2>1. Coherent(store') /\ DOMAIN store'.leases = {}
    BY <1>7 DEF Flush, EmptyStore, Store, Coherent, StoreType, PartialFunction,
                TagsIndexed, TotallyOrdered
  <2>2. /\ grants' = Grants(grants.key, grants.tags, grants'.void, grants'.fenced)
        /\ grants'.void \subseteq grants.void \cup TokensOf(Keys)
        /\ grants'.fenced \subseteq DOMAIN grants.key
    BY <1>2, <1>7 DEF Flush, Voided, Grants
  <2>3. QED
    BY <1>7, <2>1, <2>2, LockedStep DEF Flush, Locked, IInv, TypeOK
<1>8. QED
  BY <1>3, <1>4, <1>5, <1>6, <1>7 DEF Remove

\* restore_entries numbers its batch injectively, so the order stays total.
LEMMA RestoreStep == IInv /\ Restore => IInv'
<1> SUFFICES ASSUME IInv, Restore PROVE IInv'
  OBVIOUS
<1>1. PICK f \in Batches : \E at \in Bijection(DOMAIN f, 1..Cardinality(DOMAIN f)) :
        RestoreEntries(f, at)
  BY DEF Restore
<1>2. PICK at \in Bijection(DOMAIN f, 1..Cardinality(DOMAIN f)) : RestoreEntries(f, at)
  BY <1>1
<1>3. PartialFunction(f, Keys, Entry)
  <2>1. PICK S \in SUBSET Keys : f \in [S -> SnapshotEntries(clock)]
    BY DEF Batches
  <2>2. SnapshotEntries(clock) \subseteq Entry
    BY RequestsAreEntries DEF IInv, TypeOK
  <2>3. QED
    BY <2>1, <2>2 DEF PartialFunction
<1>4. /\ at \in [DOMAIN f -> Nat]
      /\ \A x, y \in DOMAIN f : at[x] = at[y] => x = y
  <2>1. at \in [DOMAIN f -> 1..Cardinality(DOMAIN f)] /\ IsInjective(at)
    BY <1>2 DEF Bijection, Injection
  <2>2. 1..Cardinality(DOMAIN f) \subseteq Nat
    BY <1>3, KeysAreFinite, FS_Subset, FS_CardinalityType DEF PartialFunction
  <2>3. QED
    BY <2>1, <2>2 DEF IsInjective
<1> DEFINE s == RemoveEntries(store, ExpiredEntries(store, clock))
<1>5. Coherent(s) /\ s.leases = store.leases
  BY RemoveEntriesCoherent DEF IInv
<1>6. store' = s \/ store' = Restored(s, f, at)
  BY <1>2 DEF RestoreEntries
<1> HIDE DEF s
<1>7. Coherent(store') /\ store'.leases = store.leases
  BY <1>3, <1>4, <1>5, <1>6, RestoredCoherent
<1>8. QED
  BY <1>2, <1>7, QuietStep DEF RestoreEntries, Locked, IInv, TypeOK

\* get, keys, export_entries and stats.
LEMMA ObserveStep == IInv /\ Observe => IInv'
<1> SUFFICES ASSUME IInv, Observe PROVE IInv'
  OBVIOUS
<1>1. ASSUME NEW k \in Keys, Get(k) PROVE IInv'
  BY <1>1, LookupCoherent, QuietStep DEF Get, Locked, IInv, TypeOK
<1>2. ASSUME NEW S \in SUBSET Keys, Export(S) PROVE IInv'
  BY <1>2, RemoveEntriesCoherent, QuietStep DEF Export, Locked, IInv, TypeOK
<1>3. ASSUME Stats PROVE IInv'
  <2> DEFINE s == RemoveLeases(store, ExpiredLeases(store, clock))
  <2>1. Coherent(s) /\ s.leases = [k \in DOMAIN store.leases \
                                       ExpiredLeases(store, clock) |-> store.leases[k]]
    BY RemoveLeasesCoherent DEF IInv
  <2>2. store' = RemoveEntries(s, ExpiredEntries(s, clock))
    BY <1>3 DEF Stats
  <2> HIDE DEF s
  <2>3. Coherent(store') /\ store'.leases = s.leases
    BY <2>1, <2>2, RemoveEntriesCoherent
  <2>4. QED
    BY <1>3, <2>1, <2>3, QuietStep DEF Stats, Locked, IInv, TypeOK
<1>4. QED
  BY <1>1, <1>2, <1>3 DEF Observe

\* put and its refusals.
LEMMA WriteStep == IInv /\ Write => IInv'
<1> SUFFICES ASSUME IInv, Write PROVE IInv'
  OBVIOUS
<1>1. ASSUME NEW t \in Threads, NEW k \in Keys, NEW e, PutStored(t, k, e) PROVE IInv'
  BY <1>1, PutStep
<1>2. ASSUME NEW t \in Threads, NEW k \in Keys, NEW e, PutRefused(t, k, e) PROVE IInv'
  BY <1>2, QuietStep DEF PutRefused, Done, Locked, IInv, TypeOK
<1>3. ASSUME NEW t \in Threads, NEW k \in Keys, PutLeaseExpired(t, k) PROVE IInv'
  <2>1. readAt' \in [Threads -> {NotReading} \cup 0..MaxClock]
    BY <1>3 DEF PutLeaseExpired, Done, IInv, TypeOK
  <2>2. /\ Coherent(store')
        /\ store'.leases = [x \in DOMAIN store.leases \ {k} |-> store.leases[x]]
    BY <1>3, RemoveLeasesCoherent DEF PutLeaseExpired, IInv
  <2>3. QED
    BY <1>3, <2>1, <2>2, QuietStep DEF PutLeaseExpired, Locked
<1>4. QED
  BY <1>1, <1>2, <1>3 DEF Write, PutGuarded

\* A new lease is granted for its key and under a token nobody has voided.
LEMMA AcquireStep ==
    ASSUME IInv, NEW t \in Threads, NEW k \in Keys, NEW force \in BOOLEAN,
           AcquireLease(t, k, force)
    PROVE  IInv'
<1> DEFINE now == readAt[t]
           a == RemoveLeases(store, ExpiredLeases(store, now))
           s == Lookup(a, k, clock)
           l == [token |-> NextToken, until |-> now + LeaseSeconds]
           n == Cardinality(DOMAIN grants.key)
<1>1. Coherent(a) /\ a.leases = [x \in DOMAIN store.leases \ ExpiredLeases(store, now)
                                    |-> store.leases[x]]
  BY RemoveLeasesCoherent DEF IInv
<1>2. Coherent(s) /\ s.leases = a.leases
  <2> HIDE DEF a
  <2>1. QED
    BY <1>1, LookupCoherent
<1>3. n \in 0..MaxTokens /\ DOMAIN grants.key = 1..n /\ NextToken = n + 1
  <2>1. PICK m \in 0..MaxTokens : grants.key \in [1..m -> Keys]
    BY DEF IInv, TypeOK, GrantsType
  <2>2. DOMAIN grants.key = 1..m /\ Cardinality(1..m) = m
    BY <2>1, FS_Interval, LimitsAreNatural
  <2>3. QED
    BY <2>1, <2>2 DEF NextToken
<1>4. l \in Lease
  BY <1>3, LimitsAreNatural DEF AcquireLease, Lease, IInv, TypeOK
<1> DEFINE leases == [x \in DOMAIN s.leases \cup {k} |-> IF x = k THEN l ELSE s.leases[x]]
<1>5. /\ store' = Store(s.entries, s.older, s.tagIndex, leases,
                        s.usedBytes + LeaseBytes, s.leaseBytes + LeaseBytes)
      /\ grants' = Grants(Updated(grants.key, Only(NextToken, k)),
                          Updated(grants.tags, Only(NextToken, TagsOf(s, k))),
                          grants.void, grants.fenced)
  BY DEF AcquireLease, LeaseLookup, Granted, Updated, Only
<1>6. TagsOf(s, k) \in SUBSET Tags
  BY <1>2 DEF TagsOf, Coherent, StoreType, PartialFunction, Entry
<1> HIDE DEF s, l, a, n
<1>7. PartialFunction(leases, Keys, Lease)
  BY <1>2, <1>4 DEF PartialFunction, Coherent, StoreType
<1>8. Coherent(store') /\ store'.leases = leases
  <2> HIDE DEF leases
  <2>1. QED
    BY <1>2, <1>5, <1>7, NewLeasesCoherent
<1>9. /\ grants'.key = [m \in 1..(n + 1) |-> IF m = n + 1 THEN k ELSE grants.key[m]]
      /\ grants'.tags = [m \in 1..(n + 1) |-> IF m = n + 1 THEN TagsOf(s, k)
                                             ELSE grants.tags[m]]
      /\ grants'.void = grants.void /\ grants'.fenced = grants.fenced
      /\ grants' = Grants(grants'.key, grants'.tags, grants'.void, grants'.fenced)
  <2>1. 1..(n + 1) = 1..n \cup {n + 1}
    BY <1>3
  <2>2. DOMAIN grants.tags = 1..n
    BY <1>3 DEF IInv, TypeOK, GrantsType
  <2>3. QED
    BY <1>3, <1>5, <2>1, <2>2 DEF Grants, Updated, Only
<1>10. n + 1 \in 0..MaxTokens
  BY <1>3, LimitsAreNatural DEF AcquireLease
<1>11. GrantsType'
  <2>1. grants'.key \in [1..(n + 1) -> Keys]
    BY <1>3, <1>9 DEF IInv, TypeOK, GrantsType
  <2>2. grants'.tags \in [1..(n + 1) -> SUBSET Tags]
    BY <1>3, <1>6, <1>9 DEF IInv, TypeOK, GrantsType
  <2>3. grants'.void \subseteq 1..(n + 1) /\ grants'.fenced \subseteq 1..(n + 1)
    BY <1>3, <1>9 DEF IInv, TypeOK, GrantsType
  <2>4. QED
    BY <1>9, <1>10, <2>1, <2>2, <2>3 DEF GrantsType
<1>12. LeaseTableSound'
  <2>1. l.token = n + 1 /\ n + 1 \notin grants.void
    BY <1>3 DEF l, IInv, TypeOK, GrantsType
  <2>2. \A x \in DOMAIN store'.leases :
           x # k => x \in DOMAIN store.leases /\ store'.leases[x] = store.leases[x]
    BY <1>1, <1>2, <1>8
  <2>3. ASSUME NEW x \in DOMAIN store'.leases, x # k
        PROVE  /\ store'.leases[x].token \in DOMAIN grants'.key
               /\ grants'.key[store'.leases[x].token] = x
               /\ store'.leases[x].token \notin grants'.void
    <3>1. /\ store.leases[x].token \in 1..n
          /\ grants.key[store.leases[x].token] = x
          /\ store.leases[x].token \notin grants.void
      BY <1>3, <2>2, <2>3 DEF LeaseTableSound, IInv
    <3>2. QED
      BY <1>3, <1>9, <2>2, <2>3, <3>1
  <2>4. /\ store'.leases[k].token = n + 1
        /\ n + 1 \in DOMAIN grants'.key
        /\ grants'.key[n + 1] = k
        /\ n + 1 \notin grants'.void
    BY <1>3, <1>8, <1>9, <2>1
  <2>5. QED
    BY <2>3, <2>4 DEF LeaseTableSound
<1>13. readAt' \in [Threads -> {NotReading} \cup 0..MaxClock]
  BY DEF AcquireLease, Done, IInv, TypeOK
<1>14. QED
  BY <1>8, <1>11, <1>12, <1>13
     DEF AcquireLease, Locked, IInv, TypeOK, Coherent, JournalSound

\* acquire_lease, release_lease and renew_lease.
LEMMA RefreshStep == IInv /\ Refresh => IInv'
<1> SUFFICES ASSUME IInv, Refresh PROVE IInv'
  OBVIOUS
<1>1. ASSUME NEW t \in Threads, NEW k \in Keys, NEW force \in BOOLEAN,
             AcquireLease(t, k, force)
      PROVE  IInv'
  BY <1>1, AcquireStep
<1>2. ASSUME NEW t \in Threads, NEW k \in Keys, NEW force \in BOOLEAN,
             AcquireNothing(t, k, force)
      PROVE  IInv'
  <2> DEFINE a == RemoveLeases(store, ExpiredLeases(store, readAt[t]))
  <2>1. Coherent(a) /\ a.leases = [x \in DOMAIN store.leases \
                           ExpiredLeases(store, readAt[t]) |-> store.leases[x]]
    BY RemoveLeasesCoherent DEF IInv
  <2>2. store' = Lookup(a, k, clock)
    BY <1>2 DEF AcquireNothing, LeaseLookup
  <2> HIDE DEF a
  <2>3. Coherent(store') /\ store'.leases = a.leases
    BY <2>1, <2>2, LookupCoherent
  <2>4. readAt' \in [Threads -> {NotReading} \cup 0..MaxClock]
    BY <1>2 DEF AcquireNothing, Done, IInv, TypeOK
  <2>5. QED
    BY <1>2, <2>1, <2>3, <2>4, QuietStep DEF AcquireNothing, Locked
<1>3. ASSUME NEW k \in Keys, NEW n \in 1..MaxTokens, ReleaseLease(k, n) PROVE IInv'
  <2>1. /\ Coherent(store')
        /\ store'.leases = [x \in DOMAIN store.leases \ {k} |-> store.leases[x]]
    BY <1>3, RemoveLeasesCoherent DEF ReleaseLease, IInv
  <2>2. /\ grants' = Grants(grants.key, grants.tags, grants'.void, grants'.fenced)
        /\ grants'.void \subseteq grants.void \cup TokensOf({k})
        /\ grants'.fenced \subseteq DOMAIN grants.key
    BY <1>3 DEF ReleaseLease, Voided, Grants, IInv, TypeOK, GrantsType
  <2>3. QED
    BY <1>3, <2>1, <2>2, LockedStep DEF ReleaseLease, Locked, IInv, TypeOK
<1>4. ASSUME NEW t \in Threads, NEW k \in Keys, NEW n \in 1..MaxTokens, RenewLease(t, k, n)
      PROVE  IInv'
  <2>1. readAt' \in [Threads -> {NotReading} \cup 0..MaxClock]
    BY <1>4 DEF RenewLease, Done, IInv, TypeOK
  <2>2. CASE store' = RemoveLeases(store, {k})
    <3>1. /\ Coherent(store')
          /\ store'.leases = [x \in DOMAIN store.leases \ {k} |-> store.leases[x]]
      BY <2>2, RemoveLeasesCoherent DEF IInv
    <3>2. QED
      BY <1>4, <2>1, <3>1, QuietStep DEF RenewLease, Locked
  <2>3. CASE /\ LeaseHolds(k, readAt[t]) /\ store.leases[k].token = n
             /\ store' # RemoveLeases(store, {k})
    <3> DEFINE l == [token |-> n, until |-> readAt[t] + LeaseSeconds]
               leases == [x \in DOMAIN store.leases |-> IF x = k THEN l ELSE store.leases[x]]
    <3>1. l \in Lease
      BY <1>4, LimitsAreNatural DEF RenewLease, Lease, IInv, TypeOK
    <3>2. store' = Store(store.entries, store.older, store.tagIndex, leases,
                         store.usedBytes, store.leaseBytes)
      BY <1>4, <2>3 DEF RenewLease, LeaseHolds, Updated, Only
    <3> HIDE DEF l
    <3>3. PartialFunction(leases, Keys, Lease)
      BY <3>1 DEF PartialFunction, IInv, Coherent, StoreType
    <3>4. Coherent(store') /\ store'.leases = leases
      <4> HIDE DEF leases
      <4>1. QED
        BY <3>2, <3>3, NewLeasesCoherent DEF IInv
    <3>5. \A x \in DOMAIN leases : leases[x].token = store.leases[x].token
      BY <2>3 DEF l
    <3>6. QED
      BY <1>4, <2>1, <3>4, <3>5, QuietStep DEF RenewLease, Locked
  <2>4. QED
    BY <1>4, <2>2, <2>3 DEF RenewLease
<1>5. QED
  BY <1>1, <1>2, <1>3, <1>4 DEF Refresh

----------------------------------------------------------------------------
(* The journal *)

\* A step of the journal's holder that voids no key but the journal's own.
LEMMA JournalStep ==
    ASSUME IInv, journal.open, UNCHANGED <<clock, readAt>>,
           Coherent(store'), JournalSound', journal'.open \in BOOLEAN, NEW K,
           DOMAIN store'.leases \subseteq DOMAIN store.leases \ K,
           \A k \in DOMAIN store'.leases : store'.leases[k].token = store.leases[k].token,
           grants' = Grants(grants.key, grants.tags, grants.void \cup TokensOf(K),
                            grants.fenced)
    PROVE  IInv'
<1>1. /\ grants'.key = grants.key /\ grants'.tags = grants.tags
      /\ grants'.void = grants.void \cup TokensOf(K) /\ grants'.fenced = grants.fenced
  BY DEF Grants
<1>2. GrantsType'
  BY <1>1 DEF IInv, TypeOK, GrantsType, Grants, TokensOf
<1>3. LeaseTableSound'
  BY <1>1 DEF IInv, LeaseTableSound, TokensOf
<1>4. QED
  BY <1>2, <1>3 DEF IInv, TypeOK, Coherent

\* begin_mutation_checkpoint records a journal that can be rolled back.
LEMMA BeginStep ==
    ASSUME IInv, NEW k \in JournalKeys, BeginMutation(k)
    PROVE  IInv'
<1>1. k \in Keys /\ ~journal.open
  BY BoundsAreSubsets DEF BeginMutation, Locked
<1>2. /\ journal'.open /\ journal'.key = k
      /\ journal'.entry = [x \in {k} \cap DOMAIN store.entries |-> store.entries[x]]
      /\ journal'.lease = [x \in {k} \cap DOMAIN store.leases |-> store.leases[x]]
      /\ journal'.predecessor \subseteq DOMAIN store.entries
      /\ k \in DOMAIN store.entries =>
            \A p \in journal'.predecessor : store.older[k] = store.older[p] \cup {p}
      /\ k \notin DOMAIN store.entries => journal'.predecessor = {}
      /\ journal'.voidBefore = grants.void
      /\ journal'.evicted.entries = [x \in {} |-> 0]
      /\ journal'.evicted.earlier = [x \in {} |-> {}]
      /\ journal' = [open |-> TRUE, key |-> journal'.key, entry |-> journal'.entry,
                    predecessor |-> journal'.predecessor, lease |-> journal'.lease,
                    usedBytes |-> journal'.usedBytes,
                    leaseBytes |-> journal'.leaseBytes, evicted |-> journal'.evicted,
                    before |-> journal'.before, voidBefore |-> journal'.voidBefore]
  BY DEF BeginMutation, Restrict
<1>3. UNCHANGED <<store, clock, readAt, grants>>
  BY DEF BeginMutation
<1>4. /\ PartialFunction(journal'.entry, {journal'.key}, Entry)
      /\ PartialFunction(journal'.lease, {journal'.key}, Lease)
      /\ PartialFunction(journal'.evicted.entries, Keys \ {journal'.key}, Entry)
      /\ StrictOrder(journal'.evicted.earlier, DOMAIN journal'.evicted.entries)
  BY <1>2 DEF IInv, Coherent, StoreType, PartialFunction, StrictOrder
<1>5. k \notin journal'.predecessor
  BY <1>2 DEF IInv, Coherent, TotallyOrdered
<1>6. \A x \in DOMAIN journal'.lease :
            /\ journal'.lease[x].token \in DOMAIN grants.key
            /\ grants.key[journal'.lease[x].token] = x
            /\ journal'.lease[x].token \notin journal'.voidBefore
  BY <1>2 DEF IInv, LeaseTableSound
<1>7. JournalSound'
  BY <1>1, <1>2, <1>3, <1>4, <1>5, <1>6 DEF JournalSound
<1>8. QED
  BY <1>2, <1>3, <1>7 DEF IInv, TypeOK, Coherent, GrantsType, LeaseTableSound

\* A put inside the journal appends its victims to the journal's order.
LEMMA JournaledPutStep ==
    ASSUME IInv, NEW e, JournaledPut(e)
    PROVE  IInv'
<1> DEFINE k == journal.key
           w == Written(store, k, e)
           old == journal.evicted
<1>1. journal.open /\ k \in Keys /\ e \in Entry
  BY RequestsAreEntries DEF JournaledPut, IInv, JournalSound, TypeOK
<1>2. PICK at \in Evictions(w) :
        /\ store' = Lookup(RemoveEntries(w, DOMAIN at), k, clock)
        /\ journal' = Journaled(w, at)
  BY DEF JournaledPut
<1>3. /\ Coherent(store')
      /\ store'.leases = [x \in DOMAIN store.leases \ {k} |-> store.leases[x]]
      /\ DOMAIN store.entries \ (DOMAIN at \cup {k}) \subseteq DOMAIN store'.entries
  BY <1>1, <1>2, PutCoherent DEF IInv
<1>4. Coherent(w) /\ DOMAIN w.entries = DOMAIN store.entries \cup {k}
  BY <1>1, WrittenCoherent DEF IInv
<1> HIDE DEF w
<1>5. /\ DOMAIN at \subseteq DOMAIN w.entries
      /\ at \in [DOMAIN at -> Int]
      /\ \A x, y \in DOMAIN at : at[x] = at[y] => x = y
  BY <1>2, <1>4, VictimsAreNumbered
<1> DEFINE new == (DOMAIN at \ {k}) \ DOMAIN old.entries
           D == DOMAIN old.entries \cup new
           before(x) == DOMAIN old.entries \cup {y \in new : at[y] < at[x]}
<1>6. /\ journal'.open /\ journal'.key = k /\ journal'.entry = journal.entry
      /\ journal'.lease = journal.lease /\ journal'.predecessor = journal.predecessor
      /\ journal'.voidBefore = journal.voidBefore
      /\ journal'.evicted.entries = Updated(old.entries, Restrict(w.entries, new))
      /\ journal'.evicted.earlier = Updated(old.earlier, [x \in new |-> before(x)])
      /\ journal' = [open |-> TRUE, key |-> journal'.key, entry |-> journal'.entry,
                    predecessor |-> journal'.predecessor, lease |-> journal'.lease,
                    usedBytes |-> journal'.usedBytes,
                    leaseBytes |-> journal'.leaseBytes, evicted |-> journal'.evicted,
                    before |-> journal'.before, voidBefore |-> journal'.voidBefore]
  BY <1>1, <1>2 DEF Journaled, IInv, JournalSound
<1>7. /\ journal'.evicted.entries =
            [x \in D |-> IF x \in new THEN w.entries[x] ELSE old.entries[x]]
      /\ journal'.evicted.earlier =
            [x \in D |-> IF x \in new THEN before(x) ELSE old.earlier[x]]
  BY <1>1, <1>6 DEF Updated, Restrict, IInv, JournalSound, StrictOrder
<1>8. PartialFunction(journal'.evicted.entries, Keys \ {k}, Entry)
  BY <1>1, <1>4, <1>5, <1>7 DEF IInv, JournalSound, Coherent, StoreType, PartialFunction
<1>9. StrictOrder(journal'.evicted.earlier, D)
  <2>1. StrictOrder(old.earlier, DOMAIN old.entries)
    BY <1>1 DEF IInv, JournalSound
  <2>2. \A x, y \in new : at[x] \in Int /\ (x # y => at[x] < at[y] \/ at[y] < at[x])
    BY <1>5
  <2> DEFINE er == journal'.evicted.earlier
  <2>3. /\ er \in [D -> SUBSET D]
        /\ \A x \in new : \A y \in D : y \in er[x] <=>
              y \in DOMAIN old.entries \/ (y \in new /\ at[y] < at[x])
        /\ \A x \in DOMAIN old.entries : er[x] = old.earlier[x]
                                         /\ er[x] \subseteq DOMAIN old.entries
    BY <1>7, <2>1 DEF StrictOrder
  <2> HIDE DEF er
  <2>4. \A x, y \in new : at[x] < at[y] => er[x] \subseteq er[y]
    BY <2>2, <2>3
  <2>5. \A x \in DOMAIN old.entries, y \in new : x \in er[y] /\ er[x] \subseteq er[y]
    BY <2>3
  <2>6. \A a \in D : a \notin er[a]
    BY <2>1, <2>2, <2>3 DEF StrictOrder
  <2>7. \A a, b \in D : a # b => (a \in er[b] \/ b \in er[a])
    BY <2>1, <2>2, <2>3 DEF StrictOrder
  <2>8. \A a, b \in D : a \in er[b] => er[a] \subseteq er[b]
    BY <2>1, <2>3, <2>4, <2>5 DEF StrictOrder
  <2>9. QED
    BY <2>3, <2>6, <2>7, <2>8 DEF StrictOrder, er
<1>10. DOMAIN journal'.evicted.entries = D
  BY <1>7
<1>11. journal'.predecessor \subseteq (DOMAIN store'.entries \cup D) \ {k}
  BY <1>1, <1>3, <1>6 DEF IInv, JournalSound
<1>12. grants' = Grants(grants.key, grants.tags, grants.void \cup TokensOf({k}),
                        grants.fenced)
  BY DEF JournaledPut, Voided
<1>13. JournalSound'
  <2>1. grants'.key = grants.key /\ grants.void \subseteq grants'.void
    BY <1>12 DEF Grants
  <2>2. /\ PartialFunction(journal.entry, {k}, Entry)
        /\ PartialFunction(journal.lease, {k}, Lease)
        /\ journal.voidBefore \subseteq grants.void
        /\ \A x \in DOMAIN journal.lease :
              /\ journal.lease[x].token \in DOMAIN grants.key
              /\ grants.key[journal.lease[x].token] = x
              /\ journal.lease[x].token \notin journal.voidBefore
    BY <1>1 DEF IInv, JournalSound
  <2> HIDE DEF k
  <2>3. QED
    BY <1>1, <1>6, <1>8, <1>9, <1>10, <1>11, <2>1, <2>2 DEF JournalSound
<1>14. QED
  BY <1>1, <1>3, <1>6, <1>12, <1>13, JournalStep DEF JournaledPut

\* delete and get inside the journal touch no key but the journal's own.
LEMMA JournaledTouchStep ==
    ASSUME IInv, JournaledDelete \/ JournaledGet
    PROVE  IInv'
<1> DEFINE k == journal.key
<1>1. journal.open
  BY DEF JournaledDelete, JournaledGet
<1>2. ASSUME NEW K, Coherent(store'), UNCHANGED <<clock, readAt, journal>>,
             DOMAIN store.entries \ {k} \subseteq DOMAIN store'.entries,
             DOMAIN store'.leases \subseteq DOMAIN store.leases \ K,
             \A x \in DOMAIN store'.leases : store'.leases[x].token = store.leases[x].token,
             grants' = Grants(grants.key, grants.tags, grants.void \cup TokensOf(K),
                              grants.fenced)
      PROVE  IInv'
  <2>1. grants'.key = grants.key /\ grants.void \subseteq grants'.void
    BY <1>2 DEF Grants
  <2>2. JournalSound'
    <3>1. journal' = journal
      BY <1>2
    <3>2. journal.predecessor \subseteq
            (DOMAIN store'.entries \cup DOMAIN journal.evicted.entries) \ {k}
      BY <1>1, <1>2 DEF IInv, JournalSound
    <3>3. journal.voidBefore \subseteq grants'.void
      BY <1>1, <2>1 DEF IInv, JournalSound
    <3>4. QED
      BY <1>1, <2>1, <3>1, <3>2, <3>3 DEF IInv, JournalSound
  <2>3. journal'.open \in BOOLEAN
    BY <1>2 DEF IInv, TypeOK
  <2>4. QED
    BY <1>1, <1>2, <2>2, <2>3, JournalStep
<1>3. CASE JournaledDelete
  <2>1. /\ Coherent(store')
        /\ store'.leases = [x \in DOMAIN store.leases \ {k} |-> store.leases[x]]
        /\ DOMAIN store'.entries = DOMAIN store.entries \ {k}
    BY <1>3, RemovalCoherent DEF JournaledDelete, IInv
  <2>2. QED
    BY <1>2, <1>3, <2>1 DEF JournaledDelete, Voided
<1>4. CASE JournaledGet
  <2>1. /\ Coherent(store') /\ store'.leases = store.leases
        /\ DOMAIN store.entries \ {k} \subseteq DOMAIN store'.entries
    BY <1>4, LookupCoherent DEF JournaledGet, IInv
  <2>2. grants' = Grants(grants.key, grants.tags, grants.void \cup TokensOf({}),
                         grants.fenced)
    BY <1>4 DEF JournaledGet, IInv, TypeOK, GrantsType, TokensOf
  <2>3. DOMAIN store'.leases \subseteq DOMAIN store.leases \ {}
    BY <2>1
  <2>4. UNCHANGED <<clock, readAt, journal>>
    BY <1>4 DEF JournaledGet
  <2>5. \A x \in DOMAIN store'.leases : store'.leases[x].token = store.leases[x].token
    BY <2>1
  <2> HIDE DEF k
  <2>6. QED
    BY <1>2, <2>1, <2>2, <2>3, <2>4, <2>5
<1>5. QED
  BY <1>3, <1>4

\* restore_mutation_checkpoint splices everything back into a coherent store,
\* and the lease it brings back is the one the journal found.
LEMMA RollbackStep ==
    ASSUME IInv, RestoreMutation
    PROVE  IInv'
<1> DEFINE k == journal.key
           f == journal.evicted.entries
           s1 == RemoveLeases(RemoveEntries(store, {k}), {k})
           s2 == Reinstated(s1, f, journal.evicted.earlier)
           s3 == IF k \in DOMAIN journal.entry
                   THEN PutBack(s2, k, journal.entry[k], journal.predecessor)
                   ELSE s2
           leases == [x \in (DOMAIN store.leases \ {k}) \cup DOMAIN journal.lease |->
                         IF x \in DOMAIN journal.lease THEN journal.lease[x]
                                                       ELSE store.leases[x]]
<1>1. /\ journal.open /\ k \in Keys
      /\ PartialFunction(journal.entry, {k}, Entry)
      /\ PartialFunction(journal.lease, {k}, Lease)
      /\ PartialFunction(f, Keys \ {k}, Entry)
      /\ StrictOrder(journal.evicted.earlier, DOMAIN f)
      /\ journal.predecessor \subseteq (DOMAIN store.entries \cup DOMAIN f) \ {k}
      /\ journal.voidBefore \subseteq grants.void
  BY DEF RestoreMutation, IInv, JournalSound
<1>2. /\ Coherent(s1)
      /\ s1.leases = [x \in DOMAIN store.leases \ {k} |-> store.leases[x]]
      /\ DOMAIN s1.entries = DOMAIN store.entries \ {k}
  BY RemovalCoherent DEF IInv
<1>3. store' = Store(s3.entries, s3.older, s3.tagIndex, Updated(s3.leases, journal.lease),
                     journal.usedBytes, journal.leaseBytes)
  BY DEF RestoreMutation, RolledBack
<1> HIDE DEF s1
<1>4. /\ Coherent(s2) /\ s2.leases = s1.leases
      /\ DOMAIN s2.entries = DOMAIN s1.entries \cup DOMAIN f
  <2>1. PartialFunction(f, Keys, Entry)
    BY <1>1 DEF PartialFunction
  <2>2. Coherent(s1) /\ StrictOrder(journal.evicted.earlier, DOMAIN f)
    BY <1>1, <1>2
  <2> HIDE DEF f
  <2>3. QED
    BY <2>1, <2>2, ReinstatedCoherent
<1> HIDE DEF s2
<1>5. Coherent(s3) /\ s3.leases = s2.leases
  <2>1. /\ k \notin DOMAIN s2.entries
        /\ journal.predecessor \in SUBSET DOMAIN s2.entries
    BY <1>1, <1>2, <1>4 DEF PartialFunction
  <2>2. CASE k \in DOMAIN journal.entry
    <3>1. journal.entry[k] \in Entry
      BY <1>1, <2>2 DEF PartialFunction
    <3>2. QED
      BY <1>1, <1>4, <2>1, <2>2, <3>1, PutBackCoherent
  <2>3. CASE k \notin DOMAIN journal.entry
    BY <1>4, <2>3
  <2>4. QED
    BY <2>2, <2>3
<1> HIDE DEF s3
<1>6. Updated(s3.leases, journal.lease) = leases
  BY <1>2, <1>4, <1>5 DEF Updated
<1>7. PartialFunction(leases, Keys, Lease)
  BY <1>1 DEF PartialFunction, IInv, Coherent, StoreType
<1>8. Coherent(store') /\ store'.leases = leases
  <2> HIDE DEF leases
  <2>1. QED
    BY <1>3, <1>5, <1>6, <1>7, NewLeasesCoherent
<1>9. /\ grants'.key = grants.key /\ grants'.tags = grants.tags
      /\ grants'.void = journal.voidBefore /\ grants'.fenced = grants.fenced
      /\ grants' = Grants(grants'.key, grants'.tags, grants'.void, grants'.fenced)
  BY DEF RestoreMutation, Grants
<1>10. GrantsType'
  BY <1>1, <1>9 DEF IInv, TypeOK, GrantsType
<1>11. LeaseTableSound'
  <2>1. ASSUME NEW x \in DOMAIN journal.lease
        PROVE  /\ journal.lease[x].token \in DOMAIN grants.key
               /\ grants.key[journal.lease[x].token] = x
               /\ journal.lease[x].token \notin journal.voidBefore
    BY <1>1 DEF IInv, JournalSound
  <2>2. ASSUME NEW x \in DOMAIN store.leases
        PROVE  /\ store.leases[x].token \in DOMAIN grants.key
               /\ grants.key[store.leases[x].token] = x
               /\ store.leases[x].token \notin journal.voidBefore
    BY <1>1 DEF IInv, LeaseTableSound
  <2>3. QED
    BY <1>8, <1>9, <2>1, <2>2 DEF LeaseTableSound
<1>12. journal' = NoJournal /\ UNCHANGED <<clock, readAt>>
  BY DEF RestoreMutation
<1>13. QED
  BY <1>8, <1>10, <1>11, <1>12 DEF IInv, TypeOK, Coherent, JournalSound, NoJournal

\* begin, put, delete, get, commit and restore of a mutation journal.
LEMMA MutationStep == IInv /\ Mutation => IInv'
<1> SUFFICES ASSUME IInv, Mutation PROVE IInv'
  OBVIOUS
<1>1. ASSUME NEW k \in JournalKeys, BeginMutation(k) PROVE IInv'
  BY <1>1, BeginStep
<1>2. ASSUME NEW e, JournaledPut(e) PROVE IInv'
  BY <1>2, JournaledPutStep
<1>3. CASE JournaledDelete \/ JournaledGet
  BY <1>3, JournaledTouchStep
<1>4. CASE CommitMutation
  BY <1>4 DEF CommitMutation, NoJournal, IInv, TypeOK, Coherent, GrantsType,
              LeaseTableSound, JournalSound
<1>5. CASE RestoreMutation
  BY <1>5, RollbackStep
<1>6. QED
  BY <1>1, <1>2, <1>3, <1>4, <1>5 DEF Mutation

----------------------------------------------------------------------------
(* The theorems *)

\* Every step of the engine keeps the inductive invariant.
LEMMA NextIInv == IInv /\ [Next]_vars => IInv'
<1> SUFFICES ASSUME IInv, [Next]_vars PROVE IInv'
  OBVIOUS
<1>1. CASE Tick
  BY <1>1, LimitsAreNatural DEF Tick, IInv, TypeOK, Coherent, GrantsType,
                                LeaseTableSound, JournalSound
<1>2. ASSUME NEW t \in Threads, ReadClock(t) PROVE IInv'
  BY <1>2 DEF ReadClock, IInv, TypeOK, Coherent, GrantsType, LeaseTableSound,
              JournalSound
<1>3. CASE WriteMany
  BY <1>3, MSetStep DEF WriteMany
<1>4. CASE UNCHANGED vars
  BY <1>4 DEF vars, IInv, TypeOK, Coherent, GrantsType, LeaseTableSound, JournalSound
<1>5. QED
  BY <1>1, <1>2, <1>3, <1>4, WriteStep, RemoveStep, ObserveStep, RefreshStep,
     RestoreStep, MutationStep DEF Next

\* The inductive invariant holds in every state the engine can reach.
THEOREM EngineInvariant == Spec => []IInv
<1>1. Init => IInv
  BY InitIInv
<1>2. IInv /\ [Next]_vars => IInv'
  BY NextIInv
<1>3. QED
  BY <1>1, <1>2, PTL DEF Spec

\* Type correctness of the engine's state.
THEOREM TypeCorrect == Spec => []TypeOK
<1>1. IInv => TypeOK
  BY DEF IInv
<1>2. QED
  BY <1>1, EngineInvariant, PTL

\* The reverse tag index lists exactly the stored entries that carry a tag, so
\* invalidate_tags misses none and keeps no dangling key, for any workload,
\* cache limits, eviction policy and rollback.
THEOREM TagIndexIsExact == Spec => []TagIndexExact
<1>1. IInv => TagIndexExact
  BY DEF IInv, Coherent, TagIndexExact
<1>2. QED
  BY <1>1, EngineInvariant, PTL

\* The access order is one total order of the stored entries, whatever a
\* rollback splices back.
THEOREM LruIsCoherent == Spec => []LruCoherent
<1>1. IInv => LruCoherent
  BY DEF IInv, Coherent, LruCoherent
<1>2. QED
  BY <1>1, EngineInvariant, PTL

\* A lease still in the table has not been overtaken by a write, a delete, a
\* flush or an invalidation of its key: a token guards at most one write.
THEOREM LeasesAreSound == Spec => []LeaseTableSound
<1>1. IInv => LeaseTableSound
  BY DEF IInv
<1>2. QED
  BY <1>1, EngineInvariant, PTL

----------------------------------------------------------------------------
(* The byte counters.  A sum of sizes is the number of bytes the entries    *)
(* have, so what a removal takes from it follows from cardinalities.        *)

\* The size of an entry is a number of bytes.
LEMMA SizeIsNatural ==
    ASSUME NEW e \in Entry
    PROVE  EntrySize(e) \in Nat
<1>1. ValueBytes[e.value] \in Nat /\ e.tags \in SUBSET Tags
  BY SizesAreNatural DEF Entry
<1>2. Cardinality(e.tags) \in Nat
  BY <1>1, TagsAreFinite, FS_Subset, FS_CardinalityType
<1> QED
  BY <1>1, <1>2, LimitsAreNatural DEF EntrySize

\* The places of n bytes.
LEMMA UpTo ==
    ASSUME NEW n \in Nat
    PROVE  IsFiniteSet(1..n) /\ Cardinality(1..n) = n
<1>1. 1 \in Int /\ n \in Int
  OBVIOUS
<1>2. IsFiniteSet(1..n) /\ Cardinality(1..n) = IF 1 > n THEN 0 ELSE n - 1 + 1
  BY <1>1, FS_Interval
<1> QED
  BY <1>2

\* The bytes of finitely many entries are finitely many.
LEMMA BytesAreFinite ==
    ASSUME NEW f, PartialFunction(f, Keys, Entry)
    PROVE  IsFiniteSet(Bytes(f)) /\ EntryBytes(f) \in Nat
<1> DEFINE Of(k) == {k} \X (1..EntrySize(f[k]))
           g == [k \in DOMAIN f |-> Of(k)]
           T == {Of(k) : k \in DOMAIN f}
<1>1. IsFiniteSet(DOMAIN f)
  BY KeysAreFinite, FS_Subset DEF PartialFunction
<1>2. ASSUME NEW k \in DOMAIN f PROVE IsFiniteSet(Of(k))
  <2>1. EntrySize(f[k]) \in Nat
    BY SizeIsNatural DEF PartialFunction
  <2>2. IsFiniteSet({k})
    BY FS_Singleton
  <2>3. IsFiniteSet(1..EntrySize(f[k]))
    BY <2>1, UpTo
  <2> QED
    BY <2>2, <2>3, FS_Product
<1> HIDE DEF Of
<1>3. g \in Surjection(DOMAIN f, T)
  BY DEF Surjection
<1>4. IsFiniteSet(T)
  <2> HIDE DEF g, T
  <2> QED
    BY <1>1, <1>3, FS_Surjection
<1>5. \A x \in T : IsFiniteSet(x)
  BY <1>2
<1>6. IsFiniteSet(UNION T)
  <2> HIDE DEF T
  <2> QED
    BY <1>4, <1>5, FS_UNION
<1>7. Bytes(f) = UNION T
  BY DEF Bytes, Of
<1> QED
  BY <1>6, <1>7, FS_CardinalityType DEF EntryBytes

\* The bytes of some of the entries and those of the others are all of them.
LEMMA BytesSplit ==
    ASSUME NEW f, PartialFunction(f, Keys, Entry), NEW S
    PROVE  LET a == Restrict(f, DOMAIN f \cap S)
               b == Restrict(f, DOMAIN f \ S)
           IN /\ PartialFunction(a, Keys, Entry) /\ PartialFunction(b, Keys, Entry)
              /\ EntryBytes(f) = EntryBytes(a) + EntryBytes(b)
<1> DEFINE a == Restrict(f, DOMAIN f \cap S)
           b == Restrict(f, DOMAIN f \ S)
<1>1. /\ a = [x \in DOMAIN f \cap S |-> f[x]]
      /\ b = [x \in DOMAIN f \ S |-> f[x]]
  BY DEF Restrict
<1>2. PartialFunction(a, Keys, Entry) /\ PartialFunction(b, Keys, Entry)
  BY <1>1 DEF PartialFunction
<1>3. Bytes(f) = Bytes(a) \cup Bytes(b)
  BY <1>1 DEF Bytes
<1>4. Bytes(a) \cap Bytes(b) = {}
  BY <1>1 DEF Bytes
<1> HIDE DEF a, b
<1>5. /\ IsFiniteSet(Bytes(a)) /\ IsFiniteSet(Bytes(b))
      /\ EntryBytes(a) \in Nat /\ EntryBytes(b) \in Nat
  BY <1>2, BytesAreFinite
<1>6. EntryBytes(f) = EntryBytes(a) + EntryBytes(b)
  BY <1>3, <1>4, <1>5, FS_Union, FS_EmptySet DEF EntryBytes
<1> QED
  BY <1>2, <1>6 DEF a, b

\* One entry's bytes are its size.
LEMMA OneEntryBytes ==
    ASSUME NEW k, NEW e \in Entry
    PROVE  EntryBytes([x \in {k} |-> e]) = EntrySize(e)
<1>1. Bytes([x \in {k} |-> e]) = {k} \X (1..EntrySize(e))
  BY DEF Bytes
<1>2. EntrySize(e) \in Nat
  BY SizeIsNatural
<1>3. IsFiniteSet({k}) /\ Cardinality({k}) = 1
  BY FS_Singleton
<1>4. IsFiniteSet(1..EntrySize(e)) /\ Cardinality(1..EntrySize(e)) = EntrySize(e)
  BY <1>2, UpTo
<1> DEFINE places == 1..EntrySize(e)
<1>5. Cardinality({k} \X places) = 1 * EntrySize(e)
  <2> HIDE DEF places
  <2>1. Cardinality({k} \X places) = Cardinality({k}) * Cardinality(places)
    BY <1>3, <1>4, FS_Product DEF places
  <2> QED
    BY <1>3, <1>4, <2>1, Zenon DEF places
<1> QED
  BY <1>1, <1>2, <1>5 DEF EntryBytes

\* Only the sizes of the entries matter.
LEMMA SameSizes ==
    ASSUME NEW f, NEW g, DOMAIN f = DOMAIN g,
           \A k \in DOMAIN f : EntrySize(f[k]) = EntrySize(g[k])
    PROVE  EntryBytes(f) = EntryBytes(g)
BY DEF EntryBytes, Bytes

----------------------------------------------------------------------------
(* The limits, and what an open journal knows of the store it began with *)

\* Accounting and Capacity, of any store.
Counted(s) ==
    /\ s.leaseBytes = LeaseBytes * Cardinality(DOMAIN s.leases)
    /\ s.usedBytes = EntryBytes(s.entries) + s.leaseBytes

Limited(s) == Fits(s) /\ Cardinality(DOMAIN s.leases) <= MaxEntries

Agree(f, g, D) == \A x \in D : f[x] = g[x]

\* The entries that went since the journal was opened are the journal's; every
\* key but the journal's own still has the entry and the lease it had then.
JournalKeeps(b) ==
    LET k == journal.key
        gone == DOMAIN journal.evicted.entries
        kept == DOMAIN store.entries \ {k}
    IN /\ journal.entry = Restrict(b.entries, {k} \cap DOMAIN b.entries)
       /\ journal.lease = Restrict(b.leases, {k} \cap DOMAIN b.leases)
       /\ journal.usedBytes = b.usedBytes /\ journal.leaseBytes = b.leaseBytes
       /\ gone \subseteq DOMAIN b.entries \ {k}
       /\ kept = (DOMAIN b.entries \ {k}) \ gone
       /\ Agree(store.entries, b.entries, kept)
       /\ Agree(journal.evicted.entries, b.entries, gone)
       /\ DOMAIN store.leases \ {k} = DOMAIN b.leases \ {k}
       /\ Agree(store.leases, b.leases, DOMAIN b.leases \ {k})

\* Under "lru" the victims went in access order, and the others keep theirs.
JournalOrders(b) ==
    LET k == journal.key
        gone == DOMAIN journal.evicted.entries
    IN /\ journal.predecessor = {p \in DOMAIN b.entries :
                                    /\ k \in DOMAIN b.entries
                                    /\ b.older[k] = b.older[p] \cup {p}}
       /\ \A x \in gone : journal.evicted.earlier[x] = b.older[x] \ {k}
       /\ \A x \in DOMAIN store.entries \ {k} :
             store.older[x] \ {k} = (b.older[x] \ {k}) \ gone

\* What a rollback needs to give back the store the journal was opened on.
JournalExact ==
    journal.open =>
      LET b == journal.before IN
      /\ Coherent(b) /\ Counted(b) /\ Limited(b)
      /\ JournalKeeps(b)
      /\ EvictionPolicy = "lru" => JournalOrders(b)

\* The second inductive invariant, on top of the first.
BInv == IInv /\ Counted(store) /\ Limited(store) /\ JournalExact

----------------------------------------------------------------------------
(* The helpers on stores keep the counters *)

\* LeaseBytes * n is additive.
LEMMA TimesSum ==
    ASSUME NEW c \in Nat, NEW m \in Nat, NEW n \in Nat
    PROVE  /\ c * (m + n) = c * m + c * n
           /\ c * m \in Nat /\ c * n \in Nat /\ c * (m + 1) = c * m + c
           /\ c * 0 = 0
OBVIOUS

\* Keys are finitely many, so are a store's entries and leases.
LEMMA StoreIsFinite ==
    ASSUME NEW s, Coherent(s)
    PROVE  /\ IsFiniteSet(DOMAIN s.entries) /\ Cardinality(DOMAIN s.entries) \in Nat
           /\ IsFiniteSet(DOMAIN s.leases) /\ Cardinality(DOMAIN s.leases) \in Nat
BY KeysAreFinite, FS_Subset, FS_CardinalityType DEF Coherent, StoreType, PartialFunction

\* The counters of a counted store are natural numbers.
LEMMA CountersAreNatural ==
    ASSUME NEW s, Coherent(s), Counted(s)
    PROVE  /\ s.leaseBytes \in Nat /\ s.usedBytes \in Nat
           /\ EntryBytes(s.entries) \in Nat
<1>1. EntryBytes(s.entries) \in Nat
  BY BytesAreFinite DEF Coherent, StoreType
<1>2. s.leaseBytes \in Nat
  BY StoreIsFinite, LimitsAreNatural, TimesSum DEF Counted
<1> QED
  BY <1>1, <1>2 DEF Counted

\* r has lost something of s, or nothing, and its counters are right.
Shrunk(r, s) ==
    /\ Coherent(r) /\ Counted(r)
    /\ DOMAIN r.entries \subseteq DOMAIN s.entries
    /\ DOMAIN r.leases \subseteq DOMAIN s.leases
    /\ r.usedBytes <= s.usedBytes

\* What a store loses never takes it over a limit.
LEMMA ShrunkLimited ==
    ASSUME NEW s, Coherent(s), Counted(s), NEW r, Shrunk(r, s)
    PROVE  /\ Limited(s) => Limited(r)
           /\ Fits(s) => Fits(r)
           /\ Cardinality(DOMAIN r.leases) <= Cardinality(DOMAIN s.leases)
<1>1. /\ Cardinality(DOMAIN r.entries) <= Cardinality(DOMAIN s.entries)
      /\ Cardinality(DOMAIN r.leases) <= Cardinality(DOMAIN s.leases)
  BY StoreIsFinite, FS_Subset DEF Shrunk
<1>2. /\ Cardinality(DOMAIN r.entries) \in Nat /\ Cardinality(DOMAIN s.entries) \in Nat
      /\ Cardinality(DOMAIN r.leases) \in Nat /\ Cardinality(DOMAIN s.leases) \in Nat
      /\ r.usedBytes \in Nat /\ s.usedBytes \in Nat
  BY StoreIsFinite, CountersAreNatural DEF Shrunk
<1> QED
  BY <1>1, <1>2, LimitsAreNatural DEF Shrunk, Limited, Fits

\* Losing is transitive.
LEMMA ShrunkTwice ==
    ASSUME NEW s, Coherent(s), Counted(s), NEW r, Shrunk(r, s), NEW q, Shrunk(q, r)
    PROVE  Shrunk(q, s)
<1>1. s.usedBytes \in Nat /\ r.usedBytes \in Nat /\ q.usedBytes \in Nat
  BY CountersAreNatural DEF Shrunk
<1> QED
  BY <1>1 DEF Shrunk

\* _remove_entry subtracts exactly the bytes of what it removes.
LEMMA RemoveEntriesCounted ==
    ASSUME NEW s, Coherent(s), Counted(s), NEW S
    PROVE  /\ Shrunk(RemoveEntries(s, S), s)
           /\ RemoveEntries(s, S).leaseBytes = s.leaseBytes
<1> DEFINE r == RemoveEntries(s, S)
           out == Restrict(s.entries, DOMAIN s.entries \cap S)
           kept == Restrict(s.entries, DOMAIN s.entries \ S)
<1>1. /\ r.entries = kept /\ r.leases = s.leases /\ r.leaseBytes = s.leaseBytes
      /\ r.usedBytes = s.usedBytes - EntryBytes(out)
  <2>1. S \cap DOMAIN s.entries = DOMAIN s.entries \cap S
    OBVIOUS
  <2> QED
    BY <2>1 DEF RemoveEntries, Without, Store
<1>2. /\ PartialFunction(out, Keys, Entry) /\ PartialFunction(kept, Keys, Entry)
      /\ EntryBytes(s.entries) = EntryBytes(out) + EntryBytes(kept)
  BY BytesSplit DEF Coherent, StoreType
<1> HIDE DEF out, kept
<1>3. EntryBytes(out) \in Nat /\ EntryBytes(kept) \in Nat
  BY <1>2, BytesAreFinite
<1>4. /\ s.leaseBytes \in Nat /\ s.usedBytes \in Nat
      /\ s.usedBytes = EntryBytes(s.entries) + s.leaseBytes
  BY CountersAreNatural DEF Counted
<1>5. /\ r.usedBytes = EntryBytes(r.entries) + r.leaseBytes
      /\ r.usedBytes <= s.usedBytes
  BY <1>1, <1>2, <1>3, <1>4
<1>6. Coherent(r) /\ DOMAIN r.entries = DOMAIN s.entries \ S
  BY RemoveEntriesCoherent
<1> HIDE DEF r
<1>7. Counted(r)
  BY <1>1, <1>5 DEF Counted
<1> QED
  BY <1>1, <1>5, <1>6, <1>7 DEF Shrunk, r

\* _remove_lease gives back the reserve of the leases it drops, in both counters.
LEMMA RemoveLeasesCounted ==
    ASSUME NEW s, Coherent(s), Counted(s), NEW S
    PROVE  Shrunk(RemoveLeases(s, S), s)
<1> DEFINE r == RemoveLeases(s, S)
           all == Cardinality(DOMAIN s.leases)
           out == Cardinality(S \cap DOMAIN s.leases)
           freed == LeaseBytes * out
<1>1. /\ r.entries = s.entries
      /\ r.usedBytes = s.usedBytes - freed /\ r.leaseBytes = s.leaseBytes - freed
  BY DEF RemoveLeases, Store
<1>2. Coherent(r) /\ DOMAIN r.leases = DOMAIN s.leases \ S
  <2>1. Coherent(r) /\ r.leases = [k \in DOMAIN s.leases \ S |-> s.leases[k]]
    BY RemoveLeasesCoherent
  <2> HIDE DEF r
  <2> QED
    BY <2>1
<1> HIDE DEF r
<1>3. all \in Nat /\ out \in Nat /\ Cardinality(DOMAIN r.leases) = all - out
  <2>1. S \cap DOMAIN s.leases = DOMAIN s.leases \cap S
    OBVIOUS
  <2>2. IsFiniteSet(DOMAIN s.leases) /\ IsFiniteSet(DOMAIN s.leases \cap S)
    BY StoreIsFinite, FS_Intersection
  <2> QED
    BY <1>2, <2>1, <2>2, FS_Difference, FS_CardinalityType
<1>4. Cardinality(DOMAIN r.leases) \in Nat
  BY <1>2, StoreIsFinite
<1> DEFINE left == Cardinality(DOMAIN r.leases)
<1>5. LeaseBytes * all = LeaseBytes * left + freed /\ freed \in Nat
  <2>1. all = left + out
    BY <1>3, <1>4
  <2>2. all \in Nat /\ left \in Nat /\ out \in Nat /\ LeaseBytes \in Nat
    BY <1>3, <1>4, LimitsAreNatural
  <2> HIDE DEF all, left, out
  <2>3. LeaseBytes * (left + out) = LeaseBytes * left + LeaseBytes * out
    BY <2>2, TimesSum
  <2>4. LeaseBytes * out \in Nat
    BY <2>2, TimesSum
  <2> QED
    BY <2>1, <2>3, <2>4, Zenon
<1>6. s.leaseBytes \in Nat /\ s.usedBytes \in Nat /\ EntryBytes(s.entries) \in Nat
  BY CountersAreNatural
<1>7. LeaseBytes * left \in Nat
  BY <1>4, LimitsAreNatural, TimesSum
<1> HIDE DEF freed
<1>8. Counted(r) /\ r.usedBytes <= s.usedBytes
  BY <1>1, <1>5, <1>6, <1>7 DEF Counted
<1> QED
  BY <1>1, <1>2, <1>8 DEF Shrunk, r

\* Storing an absent key adds its size.
LEMMA AddEntryCounted ==
    ASSUME NEW s, Coherent(s), Counted(s), NEW k \in Keys, k \notin DOMAIN s.entries,
           NEW e \in Entry
    PROVE  /\ Counted(AddEntry(s, k, e))
           /\ AddEntry(s, k, e).leaseBytes = s.leaseBytes
           /\ AddEntry(s, k, e).usedBytes = s.usedBytes + EntrySize(e)
           /\ AddEntry(s, k, e).entries = Updated(s.entries, Only(k, e))
<1> DEFINE r == AddEntry(s, k, e)
           f == Updated(s.entries, Only(k, e))
<1>1. /\ r.entries = f /\ r.leases = s.leases
      /\ r.leaseBytes = s.leaseBytes /\ r.usedBytes = s.usedBytes + EntrySize(e)
  BY DEF AddEntry, Store
<1>2. /\ f = [x \in DOMAIN s.entries \cup {k} |-> IF x = k THEN e ELSE s.entries[x]]
      /\ s.entries = [x \in DOMAIN s.entries |-> s.entries[x]]
  BY DEF Updated, Only, Coherent, StoreType, PartialFunction
<1> HIDE DEF r, f
<1>3. PartialFunction(f, Keys, Entry)
  BY <1>2 DEF PartialFunction, Coherent, StoreType
<1>4. /\ Restrict(f, DOMAIN f \cap {k}) = [x \in {k} |-> e]
      /\ Restrict(f, DOMAIN f \ {k}) = s.entries
  <2>1. DOMAIN f \cap {k} = {k} /\ DOMAIN f \ {k} = DOMAIN s.entries
    BY <1>2
  <2>2. Restrict(f, {k}) = [x \in {k} |-> e]
    BY <1>2 DEF Restrict
  <2>3. Restrict(f, DOMAIN s.entries) = [x \in DOMAIN s.entries |-> s.entries[x]]
    BY <1>2 DEF Restrict
  <2> QED
    BY <1>2, <2>1, <2>2, <2>3
<1>5. EntryBytes(f) = EntrySize(e) + EntryBytes(s.entries)
  <2>1. EntryBytes(f) = EntryBytes(Restrict(f, DOMAIN f \cap {k}))
                        + EntryBytes(Restrict(f, DOMAIN f \ {k}))
    BY <1>3, BytesSplit
  <2>2. EntryBytes([x \in {k} |-> e]) = EntrySize(e)
    BY OneEntryBytes
  <2> QED
    BY <1>4, <2>1, <2>2
<1>6. /\ EntrySize(e) \in Nat /\ EntryBytes(s.entries) \in Nat
      /\ s.leaseBytes \in Nat /\ s.usedBytes \in Nat
  BY SizeIsNatural, CountersAreNatural
<1>7. Counted(r)
  BY <1>1, <1>5, <1>6 DEF Counted
<1> QED
  BY <1>1, <1>7 DEF r, f

\* A lookup only loses the key it looks up.
LEMMA LookupCounted ==
    ASSUME NEW s, Coherent(s), Counted(s), NEW k, NEW now
    PROVE  Shrunk(Lookup(s, k, now), s)
<1>1. s.usedBytes \in Nat
  BY CountersAreNatural
<1>2. CASE k \notin DOMAIN s.entries
  BY <1>1, <1>2 DEF Lookup, Shrunk
<1>3. CASE k \in DOMAIN s.entries /\ k \in ExpiredEntries(s, now)
  BY <1>3, RemoveEntriesCounted DEF Lookup
<1>4. CASE k \in DOMAIN s.entries /\ k \notin ExpiredEntries(s, now)
  <2> DEFINE r == Touch(s, k)
  <2>1. Coherent(r)
    BY <1>4, TouchCoherent
  <2>2. /\ r.entries = s.entries /\ r.leases = s.leases
        /\ r.usedBytes = s.usedBytes /\ r.leaseBytes = s.leaseBytes
    BY DEF Touch, Store
  <2>3. Lookup(s, k, now) = r
    BY <1>4 DEF Lookup
  <2> HIDE DEF r
  <2> QED
    BY <1>1, <2>1, <2>2, <2>3 DEF Shrunk, Counted
<1> QED
  BY <1>2, <1>3, <1>4

\* put's write replaces an entry and gives back the key's lease.
LEMMA WrittenCounted ==
    ASSUME NEW s, Coherent(s), Counted(s), NEW k \in Keys, NEW e \in Entry
    PROVE  Counted(Written(s, k, e))
<1> DEFINE a == RemoveEntries(s, {k})
           b == AddEntry(a, k, e)
<1>1. Coherent(a) /\ Counted(a) /\ k \notin DOMAIN a.entries
  BY RemoveEntriesCoherent, RemoveEntriesCounted DEF Shrunk
<1> HIDE DEF a
<1>2. Coherent(b) /\ Counted(b)
  BY <1>1, AddEntryCoherent, AddEntryCounted
<1> HIDE DEF b
<1>3. Counted(RemoveLeases(b, {k}))
  BY <1>2, RemoveLeasesCounted DEF Shrunk
<1> QED
  BY <1>3 DEF Written, a, b

----------------------------------------------------------------------------
(* Eviction *)

\* An entry was used less recently exactly when fewer were used before it.
LEMMA OlderIsSmaller ==
    ASSUME NEW s, Coherent(s)
    PROVE  /\ \A x \in DOMAIN s.entries : /\ IsFiniteSet(s.older[x])
                                          /\ Cardinality(s.older[x]) \in Nat
           /\ \A x, y \in DOMAIN s.entries :
                 x \in s.older[y] <=> Cardinality(s.older[x]) < Cardinality(s.older[y])
<1>1. \A x \in DOMAIN s.entries :
         IsFiniteSet(s.older[x]) /\ Cardinality(s.older[x]) \in Nat
  BY KeysAreFinite, FS_Subset, FS_CardinalityType
     DEF Coherent, StoreType, PartialFunction
<1>2. ASSUME NEW x \in DOMAIN s.entries, NEW y \in DOMAIN s.entries, x \in s.older[y]
      PROVE  Cardinality(s.older[x]) < Cardinality(s.older[y])
  <2>1. s.older[x] \in SUBSET s.older[y] /\ x \notin s.older[x]
    BY <1>2 DEF Coherent, TotallyOrdered
  <2>2. /\ Cardinality(s.older[x]) <= Cardinality(s.older[y])
        /\ Cardinality(s.older[x]) # Cardinality(s.older[y])
    BY <1>1, <1>2, <2>1, FS_Subset
  <2> QED
    BY <1>1, <2>2
<1>3. ASSUME NEW x \in DOMAIN s.entries, NEW y \in DOMAIN s.entries, x \notin s.older[y]
      PROVE  ~(Cardinality(s.older[x]) < Cardinality(s.older[y]))
  <2>1. x = y \/ y \in s.older[x]
    BY <1>3 DEF Coherent, TotallyOrdered
  <2>2. CASE x = y
    BY <1>1, <2>2
  <2>3. CASE y \in s.older[x]
    <3>1. Cardinality(s.older[y]) < Cardinality(s.older[x])
      BY <1>2, <2>3
    <3> QED
      BY <1>1, <3>1
  <2> QED
    BY <2>1, <2>2, <2>3
<1> QED
  BY <1>1, <1>2, <1>3

\* "lru" numbers its victims by age, and takes nobody before all older ones.
LEMMA OldestFirst ==
    ASSUME NEW s, Coherent(s), EvictionPolicy = "lru", NEW at \in VictimOrders(s)
    PROVE  /\ DOMAIN at \subseteq DOMAIN s.entries
           /\ \A x \in DOMAIN at : /\ at[x] = Cardinality(s.older[x]) + 1
                                   /\ s.older[x] \subseteq DOMAIN at
<1> DEFINE Oldest(n) == {k \in DOMAIN s.entries : Cardinality(s.older[k]) < n}
<1>1. PICK n \in 0..Cardinality(DOMAIN s.entries) :
         at = [k \in Oldest(n) |-> Cardinality(s.older[k]) + 1]
  BY DEF VictimOrders
<1>2. n \in Int
  BY StoreIsFinite
<1>3. ASSUME NEW x \in Oldest(n), NEW y \in s.older[x] PROVE y \in Oldest(n)
  <2>1. y \in DOMAIN s.entries
    BY DEF Coherent, StoreType
  <2>2. Cardinality(s.older[y]) < Cardinality(s.older[x])
    BY <2>1, OlderIsSmaller
  <2>3. Cardinality(s.older[x]) < n
    OBVIOUS
  <2>4. Cardinality(s.older[y]) \in Nat /\ Cardinality(s.older[x]) \in Nat
    BY <2>1, OlderIsSmaller
  <2> QED
    BY <1>2, <2>1, <2>2, <2>3, <2>4
<1> QED
  BY <1>1, <1>3

\* The last victim's number is the number of victims, under either policy.
LEMMA NumbersEndAtCount ==
    ASSUME NEW s, Coherent(s), NEW at \in VictimOrders(s)
    PROVE  {k \in DOMAIN at : at[k] <= Cardinality(DOMAIN at)} = DOMAIN at
<1>1. CASE EvictionPolicy = "lru"
  <2> SUFFICES ASSUME NEW x \in DOMAIN at PROVE at[x] <= Cardinality(DOMAIN at)
    OBVIOUS
  <2>1. /\ DOMAIN at \subseteq DOMAIN s.entries
        /\ at[x] = Cardinality(s.older[x]) + 1 /\ s.older[x] \subseteq DOMAIN at
    BY <1>1, OldestFirst
  <2>2. x \notin s.older[x]
    BY <2>1 DEF Coherent, TotallyOrdered
  <2>3. IsFiniteSet(DOMAIN at) /\ IsFiniteSet(s.older[x])
    BY <2>1, StoreIsFinite, OlderIsSmaller, FS_Subset
  <2>4. Cardinality(s.older[x] \cup {x}) = Cardinality(s.older[x]) + 1
    BY <2>2, <2>3, FS_AddElement
  <2>5. Cardinality(s.older[x] \cup {x}) <= Cardinality(DOMAIN at)
    <3>1. s.older[x] \cup {x} \in SUBSET DOMAIN at
      BY <2>1
    <3> QED
      BY <2>3, <3>1, FS_Subset
  <2> QED
    BY <2>1, <2>4, <2>5
<1>2. CASE EvictionPolicy # "lru"
  <2>1. PICK V \in SUBSET DOMAIN s.entries : at \in Bijection(V, 1..Cardinality(V))
    BY <1>2 DEF VictimOrders
  <2>2. at \in [V -> 1..Cardinality(V)]
    BY <2>1 DEF Bijection, Injection
  <2> QED
    BY <2>2
<1> QED
  BY <1>1, <1>2

\* The eviction loop ends with a store that fits.
LEMMA EvictedFits ==
    ASSUME NEW s, Coherent(s), Counted(s), NEW at \in Evictions(s)
    PROVE  Fits(RemoveEntries(s, DOMAIN at))
<1>1. CASE Fits(s)
  BY <1>1, RemoveEntriesCounted, ShrunkLimited
<1>2. CASE ~Fits(s)
  <2>1. /\ at \in VictimOrders(s)
        /\ Fits(RemoveEntries(s, {k \in DOMAIN at : at[k] <= Cardinality(DOMAIN at)}))
    BY <1>2 DEF Evictions
  <2>2. {k \in DOMAIN at : at[k] <= Cardinality(DOMAIN at)} = DOMAIN at
    BY <2>1, NumbersEndAtCount
  <2> QED
    BY <2>1, <2>2
<1> QED
  BY <1>1, <1>2

Booked(s) == Coherent(s) /\ Counted(s) /\ Limited(s)

\* put leaves the cache within its limits and its counters right.
LEMMA PutBooked ==
    ASSUME NEW s, Booked(s), NEW k \in Keys, NEW e \in Entry, NEW now,
           NEW at \in Evictions(Written(s, k, e))
    PROVE  Booked(Lookup(RemoveEntries(Written(s, k, e), DOMAIN at), k, now))
<1> DEFINE w == Written(s, k, e)
           v == RemoveEntries(w, DOMAIN at)
           r == Lookup(v, k, now)
<1>1. Coherent(s) /\ Counted(s) /\ Limited(s)
  BY DEF Booked
<1>2. /\ Coherent(w) /\ Counted(w)
      /\ w.leases = [x \in DOMAIN s.leases \ {k} |-> s.leases[x]]
  BY <1>1, WrittenCoherent, WrittenCounted
<1>3. at \in Evictions(w)
  OBVIOUS
<1> HIDE DEF w
<1>4. Coherent(v) /\ Counted(v) /\ Fits(v) /\ v.leases = w.leases
  BY <1>2, <1>3, EvictedFits, RemoveEntriesCoherent, RemoveEntriesCounted DEF Shrunk
<1>5. Limited(v)
  <2>1. Cardinality(DOMAIN v.leases) <= Cardinality(DOMAIN s.leases)
    BY <1>1, <1>2, <1>4, StoreIsFinite, FS_Subset
  <2> QED
    BY <1>1, <1>4, <2>1, StoreIsFinite, LimitsAreNatural DEF Limited
<1> HIDE DEF v
<1>6. Shrunk(r, v)
  BY <1>4, LookupCounted
<1> HIDE DEF r
<1>7. Limited(r)
  BY <1>4, <1>5, <1>6, ShrunkLimited
<1> QED
  BY <1>6, <1>7 DEF Booked, Shrunk, r, v, w

\* What a store loses leaves it booked.
LEMMA ShrunkBooked ==
    ASSUME NEW s, Booked(s), NEW r, Shrunk(r, s)
    PROVE  Booked(r)
BY ShrunkLimited DEF Booked, Shrunk

\* The bytes of two disjoint dictionaries add up.
LEMMA UpdatedBytes ==
    ASSUME NEW f, PartialFunction(f, Keys, Entry), NEW g, PartialFunction(g, Keys, Entry),
           DOMAIN f \cap DOMAIN g = {}
    PROVE  EntryBytes(Updated(f, g)) = EntryBytes(f) + EntryBytes(g)
<1> DEFINE h == Updated(f, g)
<1>1. h = [x \in DOMAIN f \cup DOMAIN g |-> IF x \in DOMAIN g THEN g[x] ELSE f[x]]
  BY DEF Updated
<1> HIDE DEF h
<1>2. PartialFunction(h, Keys, Entry)
  BY <1>1 DEF PartialFunction
<1>3. Restrict(h, DOMAIN h \cap DOMAIN f) = f /\ Restrict(h, DOMAIN h \ DOMAIN f) = g
  <2>1. DOMAIN h \cap DOMAIN f = DOMAIN f /\ DOMAIN h \ DOMAIN f = DOMAIN g
    BY <1>1
  <2>2. Restrict(h, DOMAIN f) = [x \in DOMAIN f |-> f[x]]
    BY <1>1 DEF Restrict
  <2>3. Restrict(h, DOMAIN g) = [x \in DOMAIN g |-> g[x]]
    BY <1>1 DEF Restrict
  <2>4. f = [x \in DOMAIN f |-> f[x]] /\ g = [x \in DOMAIN g |-> g[x]]
    BY DEF PartialFunction
  <2> QED
    BY <2>1, <2>2, <2>3, <2>4
<1>4. EntryBytes(h) = EntryBytes(Restrict(h, DOMAIN h \cap DOMAIN f))
                      + EntryBytes(Restrict(h, DOMAIN h \ DOMAIN f))
  BY <1>2, BytesSplit
<1> QED
  BY <1>3, <1>4 DEF h

\* restore_entries writes a batch only when it fits.
LEMMA RestoredBooked ==
    ASSUME NEW s, Booked(s), NEW f, PartialFunction(f, Keys, Entry),
           NEW at, at \in [DOMAIN f -> Nat],
           \A x, y \in DOMAIN f : at[x] = at[y] => x = y,
           Fits(Restored(s, f, at))
    PROVE  Booked(Restored(s, f, at))
<1> DEFINE b == RemoveEntries(s, DOMAIN f)
           r == Restored(s, f, at)
<1>1. Coherent(r) /\ r.leases = s.leases
  BY RestoredCoherent DEF Booked
<1>2. Coherent(b) /\ Counted(b) /\ b.leases = s.leases /\ DOMAIN b.entries = DOMAIN s.entries \ DOMAIN f
  BY RemoveEntriesCoherent, RemoveEntriesCounted DEF Booked, Shrunk
<1>3. /\ r.entries = Updated(b.entries, f)
      /\ r.usedBytes = b.usedBytes + EntryBytes(f) /\ r.leaseBytes = b.leaseBytes
  BY DEF Restored, Store
<1>4. Fits(r)
  OBVIOUS
<1> HIDE DEF b, r
<1>5. EntryBytes(r.entries) = EntryBytes(b.entries) + EntryBytes(f)
  BY <1>2, <1>3, UpdatedBytes DEF Coherent, StoreType
<1>6. /\ EntryBytes(f) \in Nat /\ EntryBytes(b.entries) \in Nat
      /\ b.usedBytes \in Nat /\ b.leaseBytes \in Nat
  BY <1>2, BytesAreFinite, CountersAreNatural
<1>7. Counted(r)
  BY <1>1, <1>2, <1>3, <1>5, <1>6 DEF Counted
<1> QED
  BY <1>1, <1>4, <1>7 DEF Booked, Limited, r

\* expire changes no size.
LEMMA DeadlineBooked ==
    ASSUME NEW s, Booked(s), NEW k \in DOMAIN s.entries, NEW at \in Nat,
           NEW r, r = Store(Updated(s.entries, Only(k, Deadline(s.entries[k], at))),
                            s.older, s.tagIndex, s.leases, s.usedBytes, s.leaseBytes)
    PROVE  Booked(r)
<1>1. /\ r.entries = [x \in DOMAIN s.entries |->
                        IF x = k THEN Deadline(s.entries[k], at) ELSE s.entries[x]]
      /\ r.leases = s.leases /\ r.usedBytes = s.usedBytes /\ r.leaseBytes = s.leaseBytes
  BY DEF Store, Updated, Only
<1>2. EntrySize(Deadline(s.entries[k], at)) = EntrySize(s.entries[k])
  BY DEF EntrySize, Deadline
<1>3. Coherent(r)
  BY DeadlineCoherent DEF Booked
<1>4. EntryBytes(r.entries) = EntryBytes(s.entries) /\ DOMAIN r.entries = DOMAIN s.entries
  <2>1. DOMAIN r.entries = DOMAIN s.entries
    BY <1>1
  <2>2. \A x \in DOMAIN r.entries : EntrySize(r.entries[x]) = EntrySize(s.entries[x])
    BY <1>1, <1>2
  <2> QED
    BY <2>1, <2>2, SameSizes
<1> QED
  BY <1>1, <1>3, <1>4 DEF Booked, Counted, Limited, Fits

\* A new lease is charged for, when there is room for it.
LEMMA GrantedBooked ==
    ASSUME NEW s, Booked(s), NEW k, k \notin DOMAIN s.leases, LeaseCapacity(s),
           NEW now, Coherent(Granted(s, k, now))
    PROVE  Booked(Granted(s, k, now))
<1> DEFINE r == Granted(s, k, now)
           n == Cardinality(DOMAIN s.leases)
<1>1. /\ r.entries = s.entries /\ DOMAIN r.leases = DOMAIN s.leases \cup {k}
      /\ r.usedBytes = s.usedBytes + LeaseBytes /\ r.leaseBytes = s.leaseBytes + LeaseBytes
  BY DEF Granted, Store, Updated, Only
<1>2. Coherent(r)
  OBVIOUS
<1> HIDE DEF r
<1>3. Cardinality(DOMAIN r.leases) = n + 1 /\ n \in Nat
  BY <1>1, StoreIsFinite, FS_AddElement DEF Booked
<1>4. LeaseBytes * (n + 1) = LeaseBytes * n + LeaseBytes
  BY <1>3, LimitsAreNatural, TimesSum
<1>5. s.leaseBytes \in Nat /\ s.usedBytes \in Nat /\ EntryBytes(s.entries) \in Nat
  BY CountersAreNatural DEF Booked
<1>6. s.leaseBytes = LeaseBytes * n /\ s.usedBytes = EntryBytes(s.entries) + s.leaseBytes
  BY DEF Booked, Counted
<1>7. r.leaseBytes = LeaseBytes * Cardinality(DOMAIN r.leases)
  BY <1>1, <1>3, <1>4, <1>6
<1>8. Counted(r)
  BY <1>1, <1>5, <1>6, <1>7, LimitsAreNatural DEF Counted
<1>9. Limited(r)
  BY <1>1, <1>3, LimitsAreNatural DEF Limited, Fits, LeaseCapacity, Booked
<1> QED
  BY <1>2, <1>8, <1>9 DEF Booked, r

\* delete, delete_many and invalidate_tags give back what they take.
LEMMA RemovalBooked ==
    ASSUME NEW s, Booked(s), NEW S
    PROVE  Booked(RemoveLeases(RemoveEntries(s, S), S))
<1> DEFINE a == RemoveEntries(s, S)
<1>1. Shrunk(a, s)
  BY RemoveEntriesCounted DEF Booked
<1> HIDE DEF a
<1>2. Booked(a)
  BY <1>1, ShrunkBooked
<1>3. Shrunk(RemoveLeases(a, S), a)
  BY <1>2, RemoveLeasesCounted DEF Booked
<1> QED
  BY <1>2, <1>3, ShrunkBooked DEF a

\* An empty cache is booked.
LEMMA EmptyBooked == Booked(EmptyStore)
<1> DEFINE s == EmptyStore
<1>1. /\ s.entries = [k \in {} |-> 0] /\ DOMAIN s.leases = {}
      /\ s.usedBytes = 0 /\ s.leaseBytes = 0
  BY DEF EmptyStore, Store
<1>2. Coherent(s)
  BY DEF EmptyStore, Store, Coherent, StoreType, PartialFunction,
         TagsIndexed, TotallyOrdered
<1> HIDE DEF s
<1>3. Cardinality(DOMAIN s.entries) = 0 /\ Cardinality(DOMAIN s.leases) = 0
  BY <1>1, FS_EmptySet
<1>4. EntryBytes(s.entries) = 0
  <2>1. Bytes(s.entries) = {}
    BY <1>1 DEF Bytes
  <2> QED
    BY <2>1, FS_EmptySet DEF EntryBytes
<1> QED
  BY <1>1, <1>2, <1>3, <1>4, LimitsAreNatural DEF Booked, Counted, Limited, Fits, s

----------------------------------------------------------------------------
(* The methods under the lock *)

\* put and mset.
LEMMA WriteBooked ==
    ASSUME IInv, Booked(store), Write \/ WriteMany
    PROVE  Booked(store')
<1>1. ASSUME NEW t \in Threads, NEW k \in Keys, NEW e, PutStored(t, k, e)
      PROVE  Booked(store')
  <2>1. e \in Entry
    <3>1. readAt[t] \in Nat
      BY <1>1 DEF IInv, TypeOK, PutStored
    <3> QED
      BY <1>1, <3>1, RequestsAreEntries DEF PutStored
  <2>2. PICK at \in Evictions(Written(store, k, e)) :
          store' = Lookup(RemoveEntries(Written(store, k, e), DOMAIN at), k, clock)
    BY <1>1 DEF PutStored, PutResults
  <2> QED
    BY <2>1, <2>2, PutBooked
<1>2. ASSUME NEW t \in Threads, NEW k \in Keys, NEW e, PutRefused(t, k, e)
      PROVE  Booked(store')
  BY <1>2 DEF PutRefused
<1>3. ASSUME NEW t \in Threads, NEW k \in Keys, PutLeaseExpired(t, k)
      PROVE  Booked(store')
  <2>1. Shrunk(RemoveLeases(store, {k}), store)
    BY RemoveLeasesCounted DEF Booked
  <2> QED
    BY <1>3, <2>1, ShrunkBooked DEF PutLeaseExpired
<1>4. ASSUME NEW k1 \in Keys, NEW k2 \in Keys, NEW v1 \in Values, NEW v2 \in Values,
             MSet(k1, v1, k2, v2) \/ MSetPartial(k1, v1, k2, v2)
      PROVE  Booked(store')
  <2> DEFINE e1 == PersistentEntry(v1)
             e2 == PersistentEntry(v2)
  <2>1. e1 \in Entry /\ e2 \in Entry
    BY ForeverIsNever DEF PersistentEntry, Entry
  <2>2. PICK s1 \in PutResults(store, k1, e1, clock) :
          store' = s1 \/ store' \in PutResults(s1, k2, e2, clock)
    BY <1>4 DEF MSet, MSetPartial
  <2> HIDE DEF e1, e2
  <2>3. ASSUME NEW s, Booked(s), NEW k \in Keys, NEW e \in Entry,
               NEW r \in PutResults(s, k, e, clock)
        PROVE  Booked(r)
    <3>1. PICK at \in Evictions(Written(s, k, e)) :
            r = Lookup(RemoveEntries(Written(s, k, e), DOMAIN at), k, clock)
      BY <2>3 DEF PutResults
    <3> QED
      BY <2>3, <3>1, PutBooked
  <2>4. Booked(s1)
    BY <2>1, <2>2, <2>3
  <2> QED
    BY <2>1, <2>2, <2>3, <2>4
<1> QED
  BY <1>1, <1>2, <1>3, <1>4 DEF Write, PutGuarded, WriteMany

\* delete, delete_many, expire, flush and invalidate_tags.
LEMMA RemoveBooked ==
    ASSUME IInv, Booked(store), Remove
    PROVE  Booked(store')
<1>1. ASSUME NEW k \in Keys, Delete(k) PROVE Booked(store')
  BY <1>1, RemovalBooked DEF Delete
<1>2. ASSUME NEW S \in SUBSET Keys, DeleteMany(S) PROVE Booked(store')
  BY <1>2, RemovalBooked DEF DeleteMany
<1>3. ASSUME NEW T \in TagSets, InvalidateTags(T) PROVE Booked(store')
  <2>1. PICK hit : store' = RemoveLeases(RemoveEntries(store, hit), hit)
    BY <1>3 DEF InvalidateTags
  <2> QED
    BY <2>1, RemovalBooked
<1>4. ASSUME NEW k \in Keys, NEW ttl \in Ttls, Expire(k, ttl) PROVE Booked(store')
  <2> DEFINE s == Lookup(store, k, clock)
  <2>1. Booked(s)
    BY LookupCounted, ShrunkBooked DEF Booked
  <2>2. CASE LookupState(store, k, clock) = "miss"
    BY <1>4, <2>1, <2>2 DEF Expire
  <2>3. CASE LookupState(store, k, clock) # "miss"
    <3>1. k \in DOMAIN s.entries
      <4>1. k \in DOMAIN store.entries /\ s = Touch(store, k)
        BY <2>3 DEF LookupState, Lookup
      <4> QED
        BY <4>1, TouchCoherent DEF IInv
    <3>2. clock + ttl \in Nat
      BY DurationsAreNatural DEF IInv, TypeOK
    <3>3. store' = Store(Updated(s.entries, Only(k, Deadline(s.entries[k], clock + ttl))),
                         s.older, s.tagIndex, s.leases, s.usedBytes, s.leaseBytes)
      BY <1>4, <2>3 DEF Expire
    <3> HIDE DEF s
    <3> QED
      BY <2>1, <3>1, <3>2, <3>3, DeadlineBooked
  <2> QED
    BY <2>2, <2>3
<1>5. ASSUME Flush PROVE Booked(store')
  BY <1>5, EmptyBooked DEF Flush
<1> QED
  BY <1>1, <1>2, <1>3, <1>4, <1>5 DEF Remove

\* get, keys, export_entries and stats.
LEMMA ObserveBooked ==
    ASSUME IInv, Booked(store), Observe
    PROVE  Booked(store')
<1>1. ASSUME NEW k \in Keys, Get(k) PROVE Booked(store')
  <2>1. Shrunk(Lookup(store, k, clock), store)
    BY LookupCounted DEF Booked
  <2> QED
    BY <1>1, <2>1, ShrunkBooked DEF Get
<1>2. ASSUME NEW S \in SUBSET Keys, Export(S) PROVE Booked(store')
  <2>1. Shrunk(RemoveEntries(store, ExpiredEntries(store, clock) \cap S), store)
    BY RemoveEntriesCounted DEF Booked
  <2> QED
    BY <1>2, <2>1, ShrunkBooked DEF Export
<1>3. ASSUME Stats PROVE Booked(store')
  <2> DEFINE s == RemoveLeases(store, ExpiredLeases(store, clock))
  <2>1. Shrunk(s, store)
    BY RemoveLeasesCounted DEF Booked
  <2>2. store' = RemoveEntries(s, ExpiredEntries(s, clock))
    BY <1>3 DEF Stats
  <2> HIDE DEF s
  <2>3. Booked(s)
    BY <2>1, ShrunkBooked
  <2>4. Shrunk(store', s)
    BY <2>2, <2>3, RemoveEntriesCounted DEF Booked
  <2> QED
    BY <2>3, <2>4, ShrunkBooked
<1> QED
  BY <1>1, <1>2, <1>3 DEF Observe

\* acquire_lease's purge and lookup.
LEMMA LeaseLookupBooked ==
    ASSUME Booked(store), NEW k, NEW now
    PROVE  Booked(LeaseLookup(k, now))
<1> DEFINE a == RemoveLeases(store, ExpiredLeases(store, now))
<1>1. Shrunk(a, store)
  BY RemoveLeasesCounted DEF Booked
<1> HIDE DEF a
<1>2. Booked(a)
  BY <1>1, ShrunkBooked
<1>3. Shrunk(Lookup(a, k, clock), a)
  BY <1>2, LookupCounted DEF Booked
<1> QED
  BY <1>2, <1>3, ShrunkBooked DEF LeaseLookup, a

\* acquire_lease, release_lease and renew_lease.
LEMMA RefreshBooked ==
    ASSUME IInv, IInv', Booked(store), Refresh
    PROVE  Booked(store')
<1>1. ASSUME NEW t \in Threads, NEW k \in Keys, NEW force \in BOOLEAN,
             AcquireLease(t, k, force)
      PROVE  Booked(store')
  <2> DEFINE s == LeaseLookup(k, readAt[t])
  <2>1. /\ k \notin DOMAIN s.leases /\ LeaseCapacity(s)
        /\ store' = Granted(s, k, readAt[t])
    BY <1>1 DEF AcquireLease
  <2>2. Booked(s)
    BY LeaseLookupBooked
  <2> HIDE DEF s
  <2>3. Coherent(store')
    BY DEF IInv, Coherent
  <2> QED
    BY <2>1, <2>2, <2>3, GrantedBooked
<1>2. ASSUME NEW t \in Threads, NEW k \in Keys, NEW force \in BOOLEAN,
             AcquireNothing(t, k, force)
      PROVE  Booked(store')
  BY <1>2, LeaseLookupBooked DEF AcquireNothing
<1>3. ASSUME NEW k, store' = RemoveLeases(store, {k}) PROVE Booked(store')
  <2>1. Shrunk(RemoveLeases(store, {k}), store)
    BY RemoveLeasesCounted DEF Booked
  <2> QED
    BY <1>3, <2>1, ShrunkBooked
<1>4. ASSUME NEW k \in Keys, NEW n \in 1..MaxTokens, ReleaseLease(k, n)
      PROVE  Booked(store')
  BY <1>3, <1>4 DEF ReleaseLease
<1>5. ASSUME NEW t \in Threads, NEW k \in Keys, NEW n \in 1..MaxTokens, RenewLease(t, k, n)
      PROVE  Booked(store')
  <2>1. CASE store' = RemoveLeases(store, {k})
    BY <1>3, <2>1
  <2>2. CASE store' # RemoveLeases(store, {k})
    <3>1. /\ k \in DOMAIN store.leases
          /\ store' = Store(store.entries, store.older, store.tagIndex,
                            Updated(store.leases,
                                    Only(k, [token |-> n,
                                             until |-> readAt[t] + LeaseSeconds])),
                            store.usedBytes, store.leaseBytes)
      BY <1>5, <2>2 DEF RenewLease, LeaseHolds
    <3>2. /\ store'.entries = store.entries
          /\ DOMAIN store'.leases = DOMAIN store.leases
          /\ store'.usedBytes = store.usedBytes /\ store'.leaseBytes = store.leaseBytes
      BY <3>1 DEF Store, Updated, Only
    <3>3. Coherent(store')
      BY DEF IInv, Coherent
    <3> QED
      BY <3>2, <3>3 DEF Booked, Counted, Limited, Fits
  <2> QED
    BY <2>1, <2>2
<1> QED
  BY <1>1, <1>2, <1>4, <1>5 DEF Refresh

\* restore_entries writes the whole batch, or only drops what has expired.
LEMMA RestoreBooked ==
    ASSUME IInv, Booked(store), Restore
    PROVE  Booked(store')
<1>1. PICK f \in Batches : \E at \in Bijection(DOMAIN f, 1..Cardinality(DOMAIN f)) :
        RestoreEntries(f, at)
  BY DEF Restore
<1>2. PICK at \in Bijection(DOMAIN f, 1..Cardinality(DOMAIN f)) : RestoreEntries(f, at)
  BY <1>1
<1>3. PartialFunction(f, Keys, Entry)
  <2>1. PICK S \in SUBSET Keys : f \in [S -> SnapshotEntries(clock)]
    BY DEF Batches
  <2>2. SnapshotEntries(clock) \subseteq Entry
    BY RequestsAreEntries DEF IInv, TypeOK
  <2> QED
    BY <2>1, <2>2 DEF PartialFunction
<1>4. /\ at \in [DOMAIN f -> Nat]
      /\ \A x, y \in DOMAIN f : at[x] = at[y] => x = y
  <2>1. at \in [DOMAIN f -> 1..Cardinality(DOMAIN f)] /\ IsInjective(at)
    BY <1>2 DEF Bijection, Injection
  <2>2. 1..Cardinality(DOMAIN f) \subseteq Nat
    BY <1>3, KeysAreFinite, FS_Subset, FS_CardinalityType DEF PartialFunction
  <2> QED
    BY <2>1, <2>2 DEF IsInjective
<1> DEFINE s == RemoveEntries(store, ExpiredEntries(store, clock))
<1>5. Booked(s)
  BY RemoveEntriesCounted, ShrunkBooked DEF Booked
<1>6. \/ store' = s
      \/ store' = Restored(s, f, at) /\ Fits(Restored(s, f, at))
  BY <1>2 DEF RestoreEntries
<1> HIDE DEF s
<1> QED
  BY <1>3, <1>4, <1>5, <1>6, RestoredBooked

----------------------------------------------------------------------------
(* The journal's exactness: what the key's own methods do to other keys *)

\* The parts of a store after _remove_entry.
LEMMA RemoveEntriesParts ==
    ASSUME NEW s, Coherent(s), NEW S
    PROVE  /\ RemoveEntries(s, S).entries = [x \in DOMAIN s.entries \ S |-> s.entries[x]]
           /\ RemoveEntries(s, S).older = [x \in DOMAIN s.entries \ S |-> s.older[x] \ S]
           /\ RemoveEntries(s, S).leases = s.leases
BY DEF Coherent, StoreType, PartialFunction, RemoveEntries, Without, Restrict, Store

\* A lookup changes the place and the presence of its own key only.
LEMMA LookupOffKey ==
    ASSUME NEW s, Coherent(s), NEW k, NEW now, NEW r, r = Lookup(s, k, now)
    PROVE  /\ DOMAIN r.entries \ {k} = DOMAIN s.entries \ {k}
           /\ \A x \in DOMAIN s.entries \ {k} :
                 r.entries[x] = s.entries[x] /\ r.older[x] \ {k} = s.older[x] \ {k}
           /\ r.leases = s.leases
<1>1. CASE k \notin DOMAIN s.entries
  BY <1>1 DEF Lookup
<1>2. CASE k \in DOMAIN s.entries /\ k \in ExpiredEntries(s, now)
  <2>1. r = RemoveEntries(s, {k})
    BY <1>2 DEF Lookup
  <2>2. /\ r.entries = [x \in DOMAIN s.entries \ {k} |-> s.entries[x]]
        /\ r.older = [x \in DOMAIN s.entries \ {k} |-> s.older[x] \ {k}]
        /\ r.leases = s.leases
    BY <2>1, RemoveEntriesParts
  <2> QED
    BY <2>2
<1>3. CASE k \in DOMAIN s.entries /\ k \notin ExpiredEntries(s, now)
  <2>1. r = Touch(s, k)
    BY <1>3 DEF Lookup
  <2>2. /\ r.entries = s.entries /\ r.leases = s.leases
        /\ r.older = [x \in DOMAIN s.entries |->
                         IF x = k THEN DOMAIN s.entries \ {k} ELSE s.older[x] \ {k}]
    BY <2>1 DEF Coherent, StoreType, Touch, Store
  <2> QED
    BY <2>2
<1> QED
  BY <1>1, <1>2, <1>3

\* put's write puts its key behind all others.
LEMMA WrittenOwnKey ==
    ASSUME NEW s, Coherent(s), NEW k \in Keys, NEW e \in Entry
    PROVE  /\ Written(s, k, e).entries[k] = e
           /\ Written(s, k, e).older[k] = DOMAIN s.entries \ {k}
<1> DEFINE a == RemoveEntries(s, {k})
           b == AddEntry(a, k, e)
<1>1. DOMAIN a.entries = DOMAIN s.entries \ {k}
  BY RemoveEntriesCoherent
<1> HIDE DEF a
<1>2. b.entries[k] = e /\ b.older[k] = DOMAIN a.entries
  BY DEF AddEntry, Store, Updated, Only
<1>3. Written(s, k, e).entries = b.entries /\ Written(s, k, e).older = b.older
  BY DEF Written, RemoveLeases, Store, a, b
<1> QED
  BY <1>1, <1>2, <1>3

\* put's write leaves the other keys alone.
LEMMA WrittenParts ==
    ASSUME NEW s, Coherent(s), NEW k \in Keys, NEW e \in Entry
    PROVE  /\ DOMAIN Written(s, k, e).entries = DOMAIN s.entries \cup {k}
           /\ \A x \in DOMAIN s.entries \ {k} :
                 /\ Written(s, k, e).entries[x] = s.entries[x]
                 /\ Written(s, k, e).older[x] = s.older[x] \ {k}
           /\ Written(s, k, e).leases = [x \in DOMAIN s.leases \ {k} |-> s.leases[x]]
<1> DEFINE a == RemoveEntries(s, {k})
           b == AddEntry(a, k, e)
           w == RemoveLeases(b, {k})
           D == DOMAIN s.entries \cup {k}
           K == DOMAIN s.entries \ {k}
<1>1. /\ a.entries = [x \in DOMAIN s.entries \ {k} |-> s.entries[x]]
      /\ a.older = [x \in DOMAIN s.entries \ {k} |-> s.older[x] \ {k}]
      /\ a.leases = s.leases
  BY RemoveEntriesParts
<1> HIDE DEF a
<1>2. /\ b.entries = Updated(a.entries, Only(k, e))
      /\ b.older = Updated(a.older, Only(k, DOMAIN a.entries))
      /\ b.leases = a.leases
  BY DEF AddEntry, Store
<1>3. /\ b.entries = [x \in D |-> IF x = k THEN e ELSE s.entries[x]]
      /\ b.older = [x \in D |-> IF x = k THEN DOMAIN s.entries \ {k}
                                         ELSE s.older[x] \ {k}]
  <2>1. K \cup {k} = D /\ k \notin K
    OBVIOUS
  <2>2. /\ DOMAIN a.entries = K /\ \A x \in K : a.entries[x] = s.entries[x]
        /\ DOMAIN a.older = K /\ \A x \in K : a.older[x] = s.older[x] \ {k}
    BY <1>1
  <2> HIDE DEF D, K
  <2>3. b.entries = [x \in K \cup {k} |-> IF x = k THEN e ELSE a.entries[x]]
    BY <1>2, <2>1, <2>2 DEF Updated, Only
  <2>4. b.older = [x \in K \cup {k} |-> IF x = k THEN K ELSE a.older[x]]
    BY <1>2, <2>1, <2>2 DEF Updated, Only
  <2>5. b.entries = [x \in D |-> IF x = k THEN e ELSE s.entries[x]]
    BY <2>1, <2>2, <2>3
  <2>6. b.older = [x \in D |-> IF x = k THEN K ELSE s.older[x] \ {k}]
    BY <2>1, <2>2, <2>4
  <2> QED
    BY <2>5, <2>6 DEF K
<1> HIDE DEF b
<1>4. /\ w.entries = b.entries /\ w.older = b.older
      /\ w.leases = [x \in DOMAIN b.leases \ {k} |-> b.leases[x]]
  BY DEF RemoveLeases, Without, Restrict, Store
<1>5. Written(s, k, e) = w
  BY DEF Written, a, b
<1> HIDE DEF w, D
<1>6. b.leases = s.leases
  BY <1>1, <1>2
<1>7. w.leases = [x \in DOMAIN s.leases \ {k} |-> s.leases[x]]
  BY <1>4, <1>6
<1>8. /\ DOMAIN w.entries = DOMAIN s.entries \cup {k}
      /\ \A x \in DOMAIN s.entries \ {k} :
            w.entries[x] = s.entries[x] /\ w.older[x] = s.older[x] \ {k}
  BY <1>3, <1>4 DEF D
<1> QED
  BY <1>5, <1>7, <1>8

\* The same, key by key.
LEMMA WrittenOffKey ==
    ASSUME NEW s, Coherent(s), NEW k \in Keys, NEW e \in Entry,
           NEW x \in DOMAIN s.entries \ {k}
    PROVE  /\ Written(s, k, e).entries[x] = s.entries[x]
           /\ Written(s, k, e).older[x] = s.older[x] \ {k}
<1> DEFINE w == Written(s, k, e)
<1>1. /\ DOMAIN w.entries = DOMAIN s.entries \cup {k}
      /\ \A y \in DOMAIN s.entries \ {k} :
            w.entries[y] = s.entries[y] /\ w.older[y] = s.older[y] \ {k}
      /\ w.leases = [y \in DOMAIN s.leases \ {k} |-> s.leases[y]]
  BY WrittenParts
<1> HIDE DEF w
<1> QED
  BY <1>1 DEF w

\* A put changes no other key, its victims apart.
LEMMA PutOffKey ==
    ASSUME NEW s, Coherent(s), NEW k \in Keys, NEW e \in Entry, NEW now, NEW V,
           NEW r, r = Lookup(RemoveEntries(Written(s, k, e), V), k, now)
    PROVE  /\ DOMAIN r.entries \ {k} = (DOMAIN s.entries \ {k}) \ V
           /\ \A x \in DOMAIN r.entries \ {k} :
                 /\ r.entries[x] = s.entries[x]
                 /\ r.older[x] \ {k} = (s.older[x] \ {k}) \ V
           /\ r.leases = [x \in DOMAIN s.leases \ {k} |-> s.leases[x]]
<1> DEFINE w == Written(s, k, e)
           v == RemoveEntries(w, V)
<1>1. /\ DOMAIN w.entries = DOMAIN s.entries \cup {k}
      /\ \A x \in DOMAIN s.entries \ {k} :
            w.entries[x] = s.entries[x] /\ w.older[x] = s.older[x] \ {k}
      /\ w.leases = [x \in DOMAIN s.leases \ {k} |-> s.leases[x]]
  BY WrittenParts
<1>2. Coherent(w)
  BY WrittenCoherent
<1> HIDE DEF w
<1>3. /\ v.entries = [x \in DOMAIN w.entries \ V |-> w.entries[x]]
      /\ v.older = [x \in DOMAIN w.entries \ V |-> w.older[x] \ V]
      /\ v.leases = w.leases
  BY <1>2, RemoveEntriesParts
<1>4. Coherent(v)
  BY <1>2, RemoveEntriesCoherent
<1>5. r = Lookup(v, k, now)
  BY DEF w
<1> HIDE DEF v
<1>6. /\ DOMAIN r.entries \ {k} = DOMAIN v.entries \ {k}
      /\ \A x \in DOMAIN v.entries \ {k} :
            r.entries[x] = v.entries[x] /\ r.older[x] \ {k} = v.older[x] \ {k}
      /\ r.leases = v.leases
  BY <1>4, <1>5, LookupOffKey
<1>7. DOMAIN v.entries \ {k} = (DOMAIN s.entries \ {k}) \ V
  BY <1>1, <1>3
<1>8. ASSUME NEW x \in DOMAIN v.entries \ {k}
      PROVE  v.entries[x] = s.entries[x] /\ v.older[x] \ {k} = (s.older[x] \ {k}) \ V
  <2>1. x \in DOMAIN w.entries \ V /\ x \in DOMAIN s.entries \ {k}
    BY <1>1, <1>3
  <2>2. v.entries[x] = w.entries[x] /\ v.older[x] = w.older[x] \ V
    BY <1>3, <2>1
  <2>3. w.entries[x] = s.entries[x] /\ w.older[x] = s.older[x] \ {k}
    BY <1>1, <2>1
  <2> QED
    BY <2>2, <2>3
<1> QED
  BY <1>1, <1>3, <1>6, <1>7, <1>8

\* A step that changes nothing but the journal's own key keeps the journal exact.
LEMMA OwnKeyExact ==
    ASSUME JournalExact, journal.open, journal' = journal,
           DOMAIN store'.entries \ {journal.key} = DOMAIN store.entries \ {journal.key},
           \A x \in DOMAIN store.entries \ {journal.key} :
              /\ store'.entries[x] = store.entries[x]
              /\ store'.older[x] \ {journal.key} = store.older[x] \ {journal.key},
           DOMAIN store'.leases \ {journal.key} = DOMAIN store.leases \ {journal.key},
           \A x \in DOMAIN store.leases \ {journal.key} :
              store'.leases[x] = store.leases[x]
    PROVE  JournalExact'
<1> DEFINE b == journal.before
<1>1. Coherent(b) /\ Counted(b) /\ Limited(b) /\ JournalKeeps(b)
  BY DEF JournalExact
<1>2. JournalKeeps(b)'
  BY <1>1 DEF JournalKeeps, Agree
<1>3. EvictionPolicy = "lru" => JournalOrders(b)'
  BY DEF JournalExact, JournalOrders
<1>4. Coherent(b)' /\ Counted(b)' /\ Limited(b)'
  BY <1>1 DEF Coherent, Counted, Limited
<1> QED
  BY <1>2, <1>3, <1>4 DEF JournalExact

\* delete and get inside the journal keep it exact.
LEMMA JournaledTouchExact ==
    ASSUME IInv, JournalExact, JournaledDelete \/ JournaledGet
    PROVE  JournalExact'
<1> DEFINE k == journal.key
<1>1. journal.open /\ journal' = journal /\ Coherent(store)
  BY DEF JournaledDelete, JournaledGet, IInv
<1>2. CASE JournaledGet
  <2>1. store' = Lookup(store, k, clock)
    BY <1>2 DEF JournaledGet
  <2>2. /\ DOMAIN store'.entries \ {k} = DOMAIN store.entries \ {k}
        /\ \A x \in DOMAIN store.entries \ {k} :
              /\ store'.entries[x] = store.entries[x]
              /\ store'.older[x] \ {k} = store.older[x] \ {k}
        /\ store'.leases = store.leases
    <3> HIDE DEF k
    <3> QED
      BY <1>1, <2>1, LookupOffKey
  <2> QED
    BY <1>1, <2>2, OwnKeyExact
<1>3. CASE JournaledDelete
  <2> DEFINE a == RemoveEntries(store, {k})
  <2>1. store' = RemoveLeases(a, {k})
    BY <1>3 DEF JournaledDelete
  <2>2. /\ a.entries = [x \in DOMAIN store.entries \ {k} |-> store.entries[x]]
        /\ a.older = [x \in DOMAIN store.entries \ {k} |-> store.older[x] \ {k}]
        /\ a.leases = store.leases
    BY <1>1, RemoveEntriesParts
  <2> HIDE DEF a
  <2>3. /\ store'.entries = a.entries /\ store'.older = a.older
        /\ store'.leases = [x \in DOMAIN a.leases \ {k} |-> a.leases[x]]
    BY <2>1 DEF RemoveLeases, Without, Restrict, Store
  <2>4. /\ DOMAIN store'.entries \ {k} = DOMAIN store.entries \ {k}
        /\ \A x \in DOMAIN store.entries \ {k} :
              /\ store'.entries[x] = store.entries[x]
              /\ store'.older[x] \ {k} = store.older[x] \ {k}
        /\ DOMAIN store'.leases \ {k} = DOMAIN store.leases \ {k}
        /\ \A x \in DOMAIN store.leases \ {k} : store'.leases[x] = store.leases[x]
    BY <2>2, <2>3
  <2> QED
    BY <1>1, <2>4, OwnKeyExact
<1> QED
  BY <1>2, <1>3

\* begin_mutation_checkpoint records the store it finds.
LEMMA BeginExact ==
    ASSUME IInv, Booked(store), NEW k \in JournalKeys, BeginMutation(k)
    PROVE  JournalExact'
<1>1. /\ journal'.before = store /\ journal'.key = k
      /\ journal'.entry = Restrict(store.entries, {k} \cap DOMAIN store.entries)
      /\ journal'.lease = Restrict(store.leases, {k} \cap DOMAIN store.leases)
      /\ journal'.usedBytes = store.usedBytes /\ journal'.leaseBytes = store.leaseBytes
      /\ journal'.predecessor = {p \in DOMAIN store.entries :
                                    /\ k \in DOMAIN store.entries
                                    /\ store.older[k] = store.older[p] \cup {p}}
      /\ journal'.evicted.entries = [x \in {} |-> 0]
      /\ store' = store
  BY DEF BeginMutation
<1>2. DOMAIN journal'.evicted.entries = {}
  BY <1>1
<1>3. Coherent(journal'.before) /\ Counted(journal'.before) /\ Limited(journal'.before)
  BY <1>1 DEF Booked
<1> DEFINE b == journal'.before
<1>4. /\ journal'.entry = Restrict(b.entries, {journal'.key} \cap DOMAIN b.entries)
      /\ journal'.lease = Restrict(b.leases, {journal'.key} \cap DOMAIN b.leases)
      /\ journal'.usedBytes = b.usedBytes /\ journal'.leaseBytes = b.leaseBytes
      /\ DOMAIN journal'.evicted.entries \subseteq DOMAIN b.entries \ {journal'.key}
      /\ DOMAIN store'.entries \ {journal'.key} =
            (DOMAIN b.entries \ {journal'.key}) \ DOMAIN journal'.evicted.entries
      /\ Agree(store'.entries, b.entries, DOMAIN store'.entries \ {journal'.key})
      /\ Agree(journal'.evicted.entries, b.entries, DOMAIN journal'.evicted.entries)
      /\ DOMAIN store'.leases \ {journal'.key} = DOMAIN b.leases \ {journal'.key}
      /\ Agree(store'.leases, b.leases, DOMAIN b.leases \ {journal'.key})
  BY <1>1, <1>2 DEF Agree
<1>5. /\ \A x \in DOMAIN journal'.evicted.entries :
            journal'.evicted.earlier[x] = b.older[x] \ {journal'.key}
      /\ \A x \in DOMAIN store'.entries \ {journal'.key} :
            store'.older[x] \ {journal'.key} =
               (b.older[x] \ {journal'.key}) \ DOMAIN journal'.evicted.entries
  BY <1>1, <1>2
<1> QED
  BY <1>1, <1>3, <1>4, <1>5 DEF JournalExact, JournalKeeps, JournalOrders

\* What "lru" has evicted was used less recently than all that is left.
LEMMA GoneAreOlder ==
    ASSUME IInv, JournalExact, journal.open, EvictionPolicy = "lru",
           NEW y \in DOMAIN journal.evicted.entries,
           NEW x \in DOMAIN store.entries \ {journal.key}
    PROVE  y \in journal.before.older[x]
<1> DEFINE b == journal.before
           gone == DOMAIN journal.evicted.entries
<1>1. Coherent(b) /\ JournalKeeps(b) /\ JournalOrders(b)
  BY DEF JournalExact
<1>2. /\ gone \subseteq DOMAIN b.entries \ {journal.key}
      /\ x \in DOMAIN b.entries /\ x \notin gone /\ x # journal.key
  BY <1>1 DEF JournalKeeps
<1>3. journal.evicted.earlier[y] \subseteq gone
  BY DEF IInv, JournalSound, StrictOrder
<1>4. journal.evicted.earlier[y] = b.older[y] \ {journal.key}
  BY <1>1 DEF JournalOrders
<1>5. x \notin b.older[y]
  BY <1>2, <1>3, <1>4
<1> QED
  BY <1>1, <1>2, <1>5 DEF Coherent, TotallyOrdered

\* A put inside the journal records its victims as they were.
LEMMA JournaledPutExact ==
    ASSUME IInv, JournalExact, NEW e, JournaledPut(e)
    PROVE  JournalExact'
<1> DEFINE k == journal.key
           w == Written(store, k, e)
           b == journal.before
           old == journal.evicted
           gone == DOMAIN old.entries
<1>1. journal.open /\ k \in Keys /\ e \in Entry /\ Coherent(store)
  BY RequestsAreEntries DEF JournaledPut, IInv, JournalSound, TypeOK
<1>2. PICK at \in Evictions(w) :
        /\ store' = Lookup(RemoveEntries(w, DOMAIN at), k, clock)
        /\ journal' = Journaled(w, at)
  BY DEF JournaledPut
<1>3. /\ DOMAIN store'.entries \ {k} = (DOMAIN store.entries \ {k}) \ DOMAIN at
      /\ \A x \in DOMAIN store'.entries \ {k} :
            /\ store'.entries[x] = store.entries[x]
            /\ store'.older[x] \ {k} = (store.older[x] \ {k}) \ DOMAIN at
      /\ store'.leases = [x \in DOMAIN store.leases \ {k} |-> store.leases[x]]
  <2>1. store' = Lookup(RemoveEntries(Written(store, k, e), DOMAIN at), k, clock)
    BY <1>2
  <2> HIDE DEF k
  <2> QED
    BY <1>1, <2>1, PutOffKey
<1>4. /\ Coherent(w) /\ DOMAIN w.entries = DOMAIN store.entries \cup {k}
      /\ \A x \in DOMAIN store.entries \ {k} :
            w.entries[x] = store.entries[x] /\ w.older[x] = store.older[x] \ {k}
  <2> HIDE DEF k
  <2>1. Coherent(w) /\ DOMAIN w.entries = DOMAIN store.entries \cup {k}
    BY <1>1, WrittenCoherent
  <2>2. \A x \in DOMAIN store.entries \ {k} :
              w.entries[x] = store.entries[x] /\ w.older[x] = store.older[x] \ {k}
    BY <1>1, WrittenOffKey
  <2> QED
    BY <2>1, <2>2
<1> HIDE DEF w
<1>5. /\ DOMAIN at \subseteq DOMAIN w.entries
      /\ at \in [DOMAIN at -> Int]
  BY <1>2, <1>4, VictimsAreNumbered
<1>6. /\ Coherent(b) /\ Counted(b) /\ Limited(b) /\ JournalKeeps(b)
      /\ EvictionPolicy = "lru" => JournalOrders(b)
  BY <1>1 DEF JournalExact
<1> DEFINE new == DOMAIN at \ {k}
           before(x) == gone \cup {y \in new : at[y] < at[x]}
<1>7. new \cap gone = {} /\ new \subseteq DOMAIN store.entries \ {k}
  BY <1>4, <1>5, <1>6 DEF JournalKeeps
<1>8. /\ journal'.key = k /\ journal'.entry = journal.entry
      /\ journal'.lease = journal.lease /\ journal'.predecessor = journal.predecessor
      /\ journal'.usedBytes = journal.usedBytes
      /\ journal'.leaseBytes = journal.leaseBytes /\ journal'.before = b
      /\ journal'.evicted.entries = Updated(old.entries, Restrict(w.entries, new))
      /\ journal'.evicted.earlier = Updated(old.earlier, [x \in new |-> before(x)])
  <2>1. (DOMAIN at \ {k}) \ gone = new
    BY <1>7
  <2>2. journal' = [journal EXCEPT !.evicted =
                      [entries |-> Updated(old.entries, Restrict(w.entries, new)),
                       earlier |-> Updated(old.earlier, [x \in new |-> before(x)])]]
    BY <1>2, <2>1 DEF Journaled
  <2>3. journal = [open |-> TRUE, key |-> journal.key, entry |-> journal.entry,
                    predecessor |-> journal.predecessor, lease |-> journal.lease,
                    usedBytes |-> journal.usedBytes,
                    leaseBytes |-> journal.leaseBytes, evicted |-> journal.evicted,
                    before |-> journal.before, voidBefore |-> journal.voidBefore]
    BY <1>1 DEF IInv, JournalSound
  <2> HIDE DEF new, before, gone, old
  <2> QED
    BY <2>2, <2>3
<1>9. /\ DOMAIN journal'.evicted.entries = gone \cup new
      /\ \A x \in gone : journal'.evicted.entries[x] = old.entries[x]
                         /\ journal'.evicted.earlier[x] = old.earlier[x]
      /\ \A x \in new : journal'.evicted.entries[x] = w.entries[x]
                        /\ journal'.evicted.earlier[x] = before(x)
  <2>1. DOMAIN old.earlier = gone
    BY <1>1 DEF IInv, JournalSound, StrictOrder
  <2> QED
    BY <1>7, <1>8, <2>1 DEF Updated, Restrict
<1>10. JournalKeeps(b)'
  <2>1. /\ journal.entry = Restrict(b.entries, {k} \cap DOMAIN b.entries)
        /\ journal.lease = Restrict(b.leases, {k} \cap DOMAIN b.leases)
        /\ journal.usedBytes = b.usedBytes /\ journal.leaseBytes = b.leaseBytes
        /\ gone \subseteq DOMAIN b.entries \ {k}
        /\ DOMAIN store.entries \ {k} = (DOMAIN b.entries \ {k}) \ gone
        /\ \A x \in DOMAIN store.entries \ {k} : store.entries[x] = b.entries[x]
        /\ \A x \in gone : old.entries[x] = b.entries[x]
        /\ DOMAIN store.leases \ {k} = DOMAIN b.leases \ {k}
        /\ \A x \in DOMAIN b.leases \ {k} : store.leases[x] = b.leases[x]
    BY <1>6 DEF JournalKeeps, Agree
  <2> HIDE DEF k, gone, new, old, b
  <2>2. /\ gone \cup new \subseteq DOMAIN b.entries \ {k}
        /\ DOMAIN store'.entries \ {k} = (DOMAIN b.entries \ {k}) \ (gone \cup new)
    BY <1>3, <1>7, <2>1 DEF new
  <2>3. \A x \in DOMAIN store'.entries \ {k} : store'.entries[x] = b.entries[x]
    BY <1>3, <2>1
  <2>4. \A x \in gone \cup new : journal'.evicted.entries[x] = b.entries[x]
    BY <1>4, <1>7, <1>9, <2>1
  <2>5. /\ DOMAIN store'.leases \ {k} = DOMAIN b.leases \ {k}
        /\ \A x \in DOMAIN b.leases \ {k} : store'.leases[x] = b.leases[x]
    BY <1>3, <2>1
  <2> QED
    BY <1>8, <1>9, <2>1, <2>2, <2>3, <2>4, <2>5 DEF JournalKeeps, Agree, b
<1>11. ASSUME EvictionPolicy = "lru" PROVE JournalOrders(b)'
  <2>1. JournalOrders(b)
    BY <1>6, <1>11
  <2>2. \A x \in DOMAIN store'.entries \ {k} :
           store'.older[x] \ {k} = (b.older[x] \ {k}) \ (gone \cup new)
    <3>1. \A x \in DOMAIN store.entries \ {k} : store.older[x] \ {k} = (b.older[x] \ {k}) \ gone
      BY <2>1 DEF JournalOrders
    <3> HIDE DEF k, gone, b
    <3> QED
      BY <1>3, <3>1
  <2>3. ASSUME NEW x \in new PROVE before(x) = b.older[x] \ {k}
    <3>1. /\ at[x] = Cardinality(w.older[x]) + 1 /\ w.older[x] \subseteq DOMAIN at
          /\ \A y \in new : at[y] = Cardinality(w.older[y]) + 1
      <4>1. ~Fits(w) /\ at \in VictimOrders(w)
        BY <1>2 DEF Evictions
      <4> QED
        BY <1>4, <1>11, <4>1, OldestFirst
    <3>2. \A y \in new : at[y] < at[x] <=> y \in w.older[x]
      <4> SUFFICES ASSUME NEW y \in new PROVE at[y] < at[x] <=> y \in w.older[x]
        OBVIOUS
      <4>1. x \in DOMAIN w.entries /\ y \in DOMAIN w.entries
        BY <1>5
      <4>2. /\ y \in w.older[x] <=> Cardinality(w.older[y]) < Cardinality(w.older[x])
            /\ Cardinality(w.older[y]) \in Nat /\ Cardinality(w.older[x]) \in Nat
        BY <1>4, <4>1, OlderIsSmaller
      <4> QED
        BY <3>1, <4>2
    <3>3. w.older[x] = store.older[x] \ {k} /\ x \in DOMAIN store.entries \ {k}
      BY <1>4, <1>7
    <3>4. store.older[x] \ {k} = (b.older[x] \ {k}) \ gone
      BY <2>1, <3>3 DEF JournalOrders
    <3>5. gone \subseteq b.older[x] \ {k}
      <4>1. \A y \in gone : y \in b.older[x]
        BY <1>1, <1>11, <3>3, GoneAreOlder
      <4>2. k \notin gone
        BY <1>6 DEF JournalKeeps
      <4> QED
        BY <4>1, <4>2
    <3>6. before(x) = gone \cup w.older[x]
      <4>1. w.older[x] \subseteq new
        BY <3>1, <3>3
      <4> HIDE DEF new, gone
      <4> QED
        BY <3>2, <4>1
    <3> HIDE DEF before, gone, k, b
    <3> QED
      BY <3>3, <3>4, <3>5, <3>6
  <2>4. \A x \in gone \cup new : journal'.evicted.earlier[x] = b.older[x] \ {k}
    <3>1. \A x \in gone : old.earlier[x] = b.older[x] \ {k}
      BY <2>1 DEF JournalOrders
    <3> HIDE DEF k, gone, new, old, b, before
    <3> QED
      BY <1>9, <2>3, <3>1
  <2>5. journal'.predecessor = {p \in DOMAIN b.entries :
                                    /\ k \in DOMAIN b.entries
                                    /\ b.older[k] = b.older[p] \cup {p}}
    BY <1>8, <2>1 DEF JournalOrders
  <2> HIDE DEF k, gone, new, old, b, before
  <2> QED
    BY <1>8, <1>9, <2>2, <2>4, <2>5 DEF JournalOrders, b
<1>12. /\ Coherent(journal'.before) /\ Counted(journal'.before)
       /\ Limited(journal'.before) /\ journal'.before = b
  BY <1>6, <1>8
<1> QED
  BY <1>10, <1>11, <1>12 DEF JournalExact

----------------------------------------------------------------------------
(* Rollback *)

\* Every entry but the first has one right before it.
LEMMA PredecessorExists ==
    ASSUME NEW s, Coherent(s), NEW k \in DOMAIN s.entries, s.older[k] # {}
    PROVE  \E p \in DOMAIN s.entries : s.older[k] = s.older[p] \cup {p}
<1> DEFINE B == s.older[k]
           Above(p) == B \ s.older[p]
           T == {Above(p) : p \in B}
<1>1. B \in SUBSET DOMAIN s.entries /\ B \in SUBSET Keys /\ IsFiniteSet(B)
  BY KeysAreFinite, FS_Subset DEF Coherent, StoreType, PartialFunction
<1>2. T # {} /\ T \subseteq FiniteSubsetsOf(B)
  <2>1. \A p \in B : Above(p) \in SUBSET B
    OBVIOUS
  <2>2. FiniteSubsetsOf(B) = SUBSET B
    BY <1>1, FS_FiniteSubsetsOfFinite
  <2> HIDE DEF Above
  <2> QED
    BY <2>1, <2>2
<1>3. IsWellFoundedOn(StrictSubsetOrdering(B), FiniteSubsetsOf(B))
  BY FS_StrictSubsetOrderingWellFounded
<1>4. PICK x \in T : \A y \in T : ~(<<y, x>> \in StrictSubsetOrdering(B))
  <2> HIDE DEF T, B
  <2> QED
    BY <1>2, <1>3, WFMin
<1>5. PICK p \in B : x = Above(p)
  OBVIOUS
<1>6. p \in DOMAIN s.entries /\ s.older[p] \subseteq B /\ p \notin s.older[p]
  BY <1>1 DEF Coherent, TotallyOrdered
<1>7. ASSUME NEW q \in B, q # p, q \notin s.older[p] PROVE FALSE
  <2>1. q \in DOMAIN s.entries /\ p \in s.older[q] /\ s.older[p] \subseteq s.older[q]
    BY <1>1, <1>6, <1>7 DEF Coherent, TotallyOrdered
  <2>2. Above(q) \subseteq Above(p) /\ Above(q) # Above(p)
    BY <1>6, <2>1
  <2>3. Above(q) \in T /\ Above(q) \in SUBSET B /\ Above(p) \in SUBSET B
    OBVIOUS
  <2>4. <<Above(q), Above(p)>> \in StrictSubsetOrdering(B)
    <3> HIDE DEF Above, B
    <3> QED
      BY <2>2, <2>3 DEF StrictSubsetOrdering
  <2> QED
    BY <1>4, <1>5, <2>3, <2>4
<1> QED
  BY <1>6, <1>7

\* Rolling back gives every key its entry and its lease back, and the counters
\* go with them.
LEMMA RollbackGivesBack ==
    ASSUME IInv, JournalExact, RestoreMutation
    PROVE  /\ store'.entries = journal.before.entries
           /\ store'.leases = journal.before.leases
           /\ store'.usedBytes = journal.before.usedBytes
           /\ store'.leaseBytes = journal.before.leaseBytes
<1> DEFINE k == journal.key
           f == journal.evicted.entries
           b == journal.before
           s1 == RemoveLeases(RemoveEntries(store, {k}), {k})
           s2 == Reinstated(s1, f, journal.evicted.earlier)
           s3 == IF k \in DOMAIN journal.entry
                   THEN PutBack(s2, k, journal.entry[k], journal.predecessor) ELSE s2
<1>1. Coherent(b) /\ JournalKeeps(b) /\ Coherent(store)
  BY DEF RestoreMutation, JournalExact, IInv
<1>2. store' = Store(s3.entries, s3.older, s3.tagIndex, Updated(s3.leases, journal.lease),
                     journal.usedBytes, journal.leaseBytes)
  BY DEF RestoreMutation, RolledBack
<1>3. /\ s1.entries = [x \in DOMAIN store.entries \ {k} |-> store.entries[x]]
      /\ s1.leases = [x \in DOMAIN store.leases \ {k} |-> store.leases[x]]
      /\ Coherent(s1)
  <2> DEFINE a == RemoveEntries(store, {k})
  <2>1. /\ a.entries = [x \in DOMAIN store.entries \ {k} |-> store.entries[x]]
        /\ a.leases = store.leases
    BY <1>1, RemoveEntriesParts
  <2> HIDE DEF a
  <2>2. s1.entries = a.entries /\ s1.leases = [x \in DOMAIN a.leases \ {k} |-> a.leases[x]]
    BY DEF RemoveLeases, Without, Restrict, Store, a
  <2>3. Coherent(s1)
    BY <1>1, RemovalCoherent
  <2> QED
    BY <2>1, <2>2, <2>3
<1> HIDE DEF s1
<1>4. /\ DOMAIN f \subseteq DOMAIN b.entries \ {k}
      /\ DOMAIN store.entries \ {k} = (DOMAIN b.entries \ {k}) \ DOMAIN f
      /\ \A x \in DOMAIN store.entries \ {k} : store.entries[x] = b.entries[x]
      /\ \A x \in DOMAIN f : f[x] = b.entries[x]
      /\ DOMAIN store.leases \ {k} = DOMAIN b.leases \ {k}
      /\ \A x \in DOMAIN b.leases \ {k} : store.leases[x] = b.leases[x]
  BY <1>1 DEF JournalKeeps, Agree
<1>5. s2.entries = [x \in DOMAIN b.entries \ {k} |-> b.entries[x]] /\ s2.leases = s1.leases
  <2> DEFINE c == RemoveEntries(s1, DOMAIN f)
  <2>1. /\ c.entries = [x \in DOMAIN s1.entries \ DOMAIN f |-> s1.entries[x]]
        /\ c.leases = s1.leases
    <3>1. Coherent(s1)
      BY <1>3
    <3> QED
      BY ONLY <3>1, RemoveEntriesParts DEF c
  <2> HIDE DEF c
  <2>2. s2.entries = Updated(c.entries, f) /\ s2.leases = c.leases
    BY DEF Reinstated, Store, c
  <2> HIDE DEF s2, f, b, k
  <2>3. /\ DOMAIN c.entries = (DOMAIN b.entries \ {k}) \ DOMAIN f
        /\ \A x \in DOMAIN c.entries : c.entries[x] = b.entries[x]
    BY <1>3, <1>4, <2>1
  <2>4. DOMAIN c.entries \cup DOMAIN f = DOMAIN b.entries \ {k}
    BY <1>4, <2>3
  <2> QED
    BY <1>4, <2>1, <2>2, <2>3, <2>4 DEF Updated
<1> HIDE DEF s2
<1>6. s3.entries = b.entries /\ s3.leases = s2.leases
  <2>1. journal.entry = [x \in {k} \cap DOMAIN b.entries |-> b.entries[x]]
    BY <1>1 DEF JournalKeeps, Restrict
  <2>2. b.entries = [x \in DOMAIN b.entries |-> b.entries[x]]
    BY <1>1 DEF Coherent, StoreType, PartialFunction
  <2>3. CASE k \in DOMAIN b.entries
    <3>1. k \in DOMAIN journal.entry /\ journal.entry[k] = b.entries[k]
      BY <2>1, <2>3
    <3>2. /\ s3.entries = Updated(s2.entries, Only(k, b.entries[k]))
          /\ s3.leases = s2.leases
      BY <3>1 DEF PutBack, Store
    <3> HIDE DEF b, k, s3
    <3>3. Updated(s2.entries, Only(k, b.entries[k])) = [x \in DOMAIN b.entries |-> b.entries[x]]
      BY <1>5, <2>3 DEF Updated, Only
    <3> QED
      BY <2>2, <3>2, <3>3
  <2>4. CASE k \notin DOMAIN b.entries
    <3>1. s3 = s2
      BY <2>1, <2>4
    <3>2. DOMAIN b.entries \ {k} = DOMAIN b.entries
      BY <2>4
    <3> HIDE DEF b, k, s3
    <3> QED
      BY <1>5, <2>2, <3>1, <3>2
  <2> QED
    BY <2>3, <2>4
<1> HIDE DEF s3
<1>7. Updated(s3.leases, journal.lease) = b.leases
  <2>1. journal.lease = [x \in {k} \cap DOMAIN b.leases |-> b.leases[x]]
    BY <1>1 DEF JournalKeeps, Restrict
  <2>2. b.leases = [x \in DOMAIN b.leases |-> b.leases[x]]
    BY <1>1 DEF Coherent, StoreType, PartialFunction
  <2>3. s3.leases = [x \in DOMAIN store.leases \ {k} |-> store.leases[x]]
    BY <1>3, <1>5, <1>6
  <2> HIDE DEF b, k
  <2>4. /\ DOMAIN journal.lease = {k} \cap DOMAIN b.leases
        /\ \A x \in DOMAIN journal.lease : journal.lease[x] = b.leases[x]
        /\ DOMAIN s3.leases = DOMAIN b.leases \ {k}
        /\ \A x \in DOMAIN s3.leases : s3.leases[x] = b.leases[x]
    BY <1>4, <2>1, <2>3
  <2>5. DOMAIN s3.leases \cup DOMAIN journal.lease = DOMAIN b.leases
    BY <2>4
  <2>6. Updated(s3.leases, journal.lease) = [x \in DOMAIN b.leases |-> b.leases[x]]
    BY <2>4, <2>5 DEF Updated
  <2> QED
    BY <2>2, <2>6
<1>8. journal.usedBytes = b.usedBytes /\ journal.leaseBytes = b.leaseBytes
  BY <1>1 DEF JournalKeeps
<1> QED
  BY <1>2, <1>6, <1>7, <1>8 DEF Store

\* Under "lru" a rollback also gives back the access order: the victims return
\* in front in the order they had, and the journal's key behind its predecessor.
LEMMA RollbackOrders ==
    ASSUME IInv, JournalExact, RestoreMutation, EvictionPolicy = "lru"
    PROVE  store'.older = journal.before.older
<1> DEFINE k == journal.key
           f == journal.evicted.entries
           earlier == journal.evicted.earlier
           b == journal.before
           B == DOMAIN b.entries
           s1 == RemoveLeases(RemoveEntries(store, {k}), {k})
           s2 == Reinstated(s1, f, earlier)
           s3 == IF k \in DOMAIN journal.entry
                   THEN PutBack(s2, k, journal.entry[k], journal.predecessor) ELSE s2
<1>1. /\ Coherent(b) /\ JournalKeeps(b) /\ JournalOrders(b) /\ Coherent(store)
      /\ journal.open
  BY DEF RestoreMutation, JournalExact, IInv
<1>2. store'.older = s3.older
  BY DEF RestoreMutation, RolledBack, Store
<1>3. /\ DOMAIN s1.entries = DOMAIN store.entries \ {k}
      /\ s1.older = [x \in DOMAIN store.entries \ {k} |-> store.older[x] \ {k}]
      /\ Coherent(s1)
  <2> DEFINE a == RemoveEntries(store, {k})
  <2>1. /\ a.entries = [x \in DOMAIN store.entries \ {k} |-> store.entries[x]]
        /\ a.older = [x \in DOMAIN store.entries \ {k} |-> store.older[x] \ {k}]
    BY <1>1, RemoveEntriesParts
  <2> HIDE DEF a
  <2>2. s1.entries = a.entries /\ s1.older = a.older
    BY DEF RemoveLeases, Store, a
  <2>3. Coherent(s1)
    BY <1>1, RemovalCoherent
  <2> QED
    BY <2>1, <2>2, <2>3
<1> HIDE DEF s1
<1>4. /\ DOMAIN f \subseteq B \ {k}
      /\ DOMAIN store.entries \ {k} = (B \ {k}) \ DOMAIN f
      /\ DOMAIN earlier = DOMAIN f
      /\ \A x \in DOMAIN f : earlier[x] = b.older[x] \ {k}
      /\ \A x \in DOMAIN store.entries \ {k} :
            /\ store.older[x] \ {k} = (b.older[x] \ {k}) \ DOMAIN f
            /\ DOMAIN f \subseteq b.older[x]
  <2>1. \A x \in DOMAIN store.entries \ {k} : \A y \in DOMAIN f : y \in b.older[x]
    BY <1>1, GoneAreOlder
  <2>2. DOMAIN earlier = DOMAIN f
    BY <1>1 DEF IInv, JournalSound, StrictOrder
  <2>3. DOMAIN f \subseteq B \ {k} /\ DOMAIN store.entries \ {k} = (B \ {k}) \ DOMAIN f
    BY <1>1 DEF JournalKeeps
  <2>4. /\ \A x \in DOMAIN f : earlier[x] = b.older[x] \ {k}
        /\ \A x \in DOMAIN store.entries \ {k} :
              store.older[x] \ {k} = (b.older[x] \ {k}) \ DOMAIN f
    BY <1>1 DEF JournalOrders
  <2> QED
    BY <2>1, <2>2, <2>3, <2>4
<1>5. s2.older = [x \in B \ {k} |-> b.older[x] \ {k}] /\ DOMAIN s2.entries = B \ {k}
  <2> DEFINE c == RemoveEntries(s1, DOMAIN f)
             above == [x \in DOMAIN c.entries |-> c.older[x] \cup DOMAIN f]
  <2>1. /\ c.entries = [x \in DOMAIN s1.entries \ DOMAIN f |-> s1.entries[x]]
        /\ c.older = [x \in DOMAIN s1.entries \ DOMAIN f |-> s1.older[x] \ DOMAIN f]
    <3>1. Coherent(s1)
      BY <1>3
    <3> QED
      BY ONLY <3>1, RemoveEntriesParts DEF c
  <2> HIDE DEF c
  <2>2. s2.older = Updated(above, earlier) /\ s2.entries = Updated(c.entries, f)
    BY DEF Reinstated, Store, c
  <2> HIDE DEF s2, f, b, k, earlier, B
  <2>3. DOMAIN c.entries = (B \ {k}) \ DOMAIN f
    BY <1>3, <1>4, <2>1
  <2>4. \A x \in DOMAIN c.entries : c.older[x] \cup DOMAIN f = b.older[x] \ {k}
    <3> SUFFICES ASSUME NEW x \in DOMAIN c.entries
                 PROVE  c.older[x] \cup DOMAIN f = b.older[x] \ {k}
      OBVIOUS
    <3>1. x \in DOMAIN store.entries \ {k} /\ x \in DOMAIN s1.entries \ DOMAIN f
      BY <1>3, <1>4, <2>1
    <3>2. c.older[x] = (store.older[x] \ {k}) \ DOMAIN f
      BY <1>3, <2>1, <3>1
    <3>3. /\ store.older[x] \ {k} = (b.older[x] \ {k}) \ DOMAIN f
          /\ DOMAIN f \subseteq b.older[x] /\ k \notin DOMAIN f
      BY <1>4, <3>1
    <3> QED
      BY <3>2, <3>3
  <2>5. DOMAIN c.entries \cup DOMAIN f = B \ {k}
    BY <1>4, <2>3
  <2>6. s2.older = [x \in B \ {k} |-> b.older[x] \ {k}]
    BY <1>4, <2>2, <2>3, <2>4, <2>5 DEF Updated
  <2>7. DOMAIN s2.entries = B \ {k}
    BY <2>2, <2>5 DEF Updated
  <2> QED
    BY <2>6, <2>7
<1>6. /\ b.older = [x \in B |-> b.older[x]] /\ \A x \in B : b.older[x] \subseteq B
      /\ journal.entry = [x \in {k} \cap B |-> b.entries[x]]
  BY <1>1 DEF Coherent, StoreType, JournalKeeps, Restrict
<1>7. CASE k \notin B
  <2>1. s3 = s2
    BY <1>6, <1>7
  <2> HIDE DEF s2, s3, b, k, B
  <2>2. B \ {k} = B /\ \A x \in B : b.older[x] \ {k} = b.older[x]
    BY <1>6, <1>7
  <2>3. s2.older = [x \in B |-> b.older[x]]
    BY <1>5, <2>2
  <2> QED
    BY <1>2, <1>6, <2>1, <2>3 DEF b
<1>8. CASE k \in B
  <2> DEFINE pred == journal.predecessor
             below == UNION {s2.older[p] \cup {p} : p \in pred}
             lifted == [x \in DOMAIN s2.entries |->
                          IF x \in below THEN s2.older[x] ELSE s2.older[x] \cup {k}]
  <2>1. s3.older = Updated(lifted, Only(k, below))
    <3>1. k \in DOMAIN journal.entry
      BY <1>6, <1>8
    <3> QED
      BY <3>1 DEF PutBack, Store
  <2>2. pred = {p \in B : b.older[k] = b.older[p] \cup {p}}
    BY <1>1, <1>8 DEF JournalOrders
  <2>3. /\ k \notin b.older[k] /\ b.older[k] \subseteq B
        /\ \A x \in b.older[k] : k \notin b.older[x]
        /\ \A x \in B \ {k} : x \notin b.older[k] => k \in b.older[x]
    BY <1>1, <1>6, <1>8 DEF Coherent, TotallyOrdered
  <2>4. ASSUME NEW p \in pred PROVE s2.older[p] \cup {p} = b.older[k]
    <3>1. p \in B /\ b.older[k] = b.older[p] \cup {p}
      BY <2>2
    <3>2. p # k /\ k \notin b.older[p]
      BY <2>3, <3>1
    <3> HIDE DEF s2, b, k, B, pred
    <3> QED
      BY <1>5, <3>1, <3>2
  <2>5. below = b.older[k]
    <3>1. CASE pred = {}
      <4>1. b.older[k] = {}
        BY <1>1, <1>8, <2>2, <3>1, PredecessorExists
      <4> QED
        BY <3>1, <4>1
    <3>2. CASE pred # {}
      <4> HIDE DEF s2, b, k, pred
      <4> QED
        BY <2>4, <3>2
    <3> QED
      BY <3>1, <3>2
  <2> HIDE DEF s2, s3, b, k, B, pred, below
  <2>6. /\ DOMAIN lifted = B \ {k}
        /\ \A x \in B \ {k} : lifted[x] = b.older[x]
    <3>1. \A x \in B \ {k} : /\ s2.older[x] = b.older[x] \ {k}
                             /\ x \in below => k \notin b.older[x]
                             /\ x \notin below => k \in b.older[x]
      BY <1>5, <2>3, <2>5
    <3>2. DOMAIN lifted = B \ {k}
      BY <1>5
    <3> SUFFICES ASSUME NEW x \in B \ {k} PROVE lifted[x] = b.older[x]
      BY <3>2
    <3>3. lifted[x] = IF x \in below THEN s2.older[x] ELSE s2.older[x] \cup {k}
      BY <1>5
    <3> HIDE DEF lifted
    <3> QED
      BY <3>1, <3>3
  <2>7. (B \ {k}) \cup {k} = B
    BY <1>8
  <2> HIDE DEF lifted
  <2>8. s3.older = [x \in B |-> b.older[x]]
    BY <2>1, <2>5, <2>6, <2>7 DEF Updated, Only
  <2> QED
    BY <1>2, <1>6, <2>8 DEF b
<1> QED
  BY <1>7, <1>8

----------------------------------------------------------------------------
(* The second invariant and its theorems *)

\* Rollback leaves the very store the journal was opened on, counters included.
LEMMA RollbackBooked ==
    ASSUME IInv, IInv', JournalExact, RestoreMutation
    PROVE  Booked(store')
<1> DEFINE b == journal.before
<1>1. /\ store'.entries = b.entries /\ store'.leases = b.leases
      /\ store'.usedBytes = b.usedBytes /\ store'.leaseBytes = b.leaseBytes
  BY RollbackGivesBack
<1>2. Counted(b) /\ Limited(b)
  BY DEF RestoreMutation, JournalExact
<1>3. Coherent(store')
  BY DEF IInv, Coherent
<1> HIDE DEF b
<1> QED
  BY <1>1, <1>2, <1>3 DEF Booked, Counted, Limited, Fits

\* A put inside the journal, like any other.
LEMMA JournaledBooked ==
    ASSUME IInv, Booked(store), NEW e, JournaledPut(e)
    PROVE  Booked(store')
<1> DEFINE k == journal.key
<1>1. k \in Keys /\ e \in Entry
  BY RequestsAreEntries DEF JournaledPut, IInv, JournalSound, TypeOK
<1>2. PICK at \in Evictions(Written(store, k, e)) :
        store' = Lookup(RemoveEntries(Written(store, k, e), DOMAIN at), k, clock)
  BY DEF JournaledPut
<1> HIDE DEF k
<1> QED
  BY <1>1, <1>2, PutBooked

\* The steps around the journal.
LEMMA MutationBooked ==
    ASSUME IInv, IInv', Booked(store), JournalExact, Mutation
    PROVE  Booked(store') /\ JournalExact'
<1>1. ASSUME NEW k \in JournalKeys, BeginMutation(k) PROVE Booked(store') /\ JournalExact'
  BY <1>1, BeginExact DEF BeginMutation
<1>2. ASSUME NEW e, JournaledPut(e) PROVE Booked(store') /\ JournalExact'
  BY <1>2, JournaledBooked, JournaledPutExact
<1>3. CASE JournaledDelete
  <2>1. store' = RemoveLeases(RemoveEntries(store, {journal.key}), {journal.key})
    BY <1>3 DEF JournaledDelete
  <2>2. Booked(store')
    BY <2>1, RemovalBooked
  <2> QED
    BY <1>3, <2>2, JournaledTouchExact
<1>4. CASE JournaledGet
  <2>1. Shrunk(Lookup(store, journal.key, clock), store)
    BY LookupCounted DEF Booked
  <2>2. Booked(store')
    BY <1>4, <2>1, ShrunkBooked DEF JournaledGet
  <2> QED
    BY <1>4, <2>2, JournaledTouchExact
<1>5. CASE CommitMutation
  BY <1>5 DEF CommitMutation, NoJournal, JournalExact
<1>6. CASE RestoreMutation
  BY <1>6, RollbackBooked DEF RestoreMutation, NoJournal, JournalExact
<1> QED
  BY <1>1, <1>2, <1>3, <1>4, <1>5, <1>6 DEF Mutation

\* An empty cache and no journal.
LEMMA InitBInv == Init => BInv
<1> SUFFICES ASSUME Init PROVE BInv
  OBVIOUS
<1>1. Booked(store)
  BY EmptyBooked DEF Init
<1>2. JournalExact
  BY DEF Init, NoJournal, JournalExact
<1> QED
  BY <1>1, <1>2, InitIInv DEF BInv, Booked

\* Every step keeps the counters, the limits and the journal exact.
LEMMA NextBInv == BInv /\ [Next]_vars => BInv'
<1> SUFFICES ASSUME BInv, [Next]_vars PROVE BInv'
  OBVIOUS
<1>1. IInv /\ Booked(store) /\ JournalExact
  BY DEF BInv, Booked, IInv
<1>2. IInv'
  BY <1>1, NextIInv
<1>3. ASSUME UNCHANGED journal, ~journal.open PROVE JournalExact'
  BY <1>3 DEF JournalExact
<1>4. ASSUME UNCHANGED <<store, journal>> PROVE Booked(store') /\ JournalExact'
  BY <1>1, <1>4 DEF JournalExact, JournalKeeps, JournalOrders
<1> SUFFICES Booked(store') /\ JournalExact'
  BY <1>2 DEF BInv, Booked, Counted, Limited
<1>5. CASE Tick \/ (\E t \in Threads : ReadClock(t)) \/ UNCHANGED vars
  BY <1>4, <1>5 DEF Tick, ReadClock, vars
<1>6. CASE Write \/ WriteMany
  <2>1. UNCHANGED journal /\ ~journal.open
    BY <1>6 DEF Write, WriteMany, PutStored, PutRefused, PutGuarded, PutLeaseExpired,
                MSet, MSetPartial, Locked
  <2> QED
    BY <1>1, <1>3, <1>6, <2>1, WriteBooked
<1>7. CASE Remove
  <2>1. UNCHANGED journal /\ ~journal.open
    BY <1>7 DEF Remove, Delete, Expire, DeleteMany, InvalidateTags, Flush, Locked
  <2> QED
    BY <1>1, <1>3, <1>7, <2>1, RemoveBooked
<1>8. CASE Observe
  <2>1. UNCHANGED journal /\ ~journal.open
    BY <1>8 DEF Observe, Get, Export, Stats, Locked
  <2> QED
    BY <1>1, <1>3, <1>8, <2>1, ObserveBooked
<1>9. CASE Refresh
  <2>1. UNCHANGED journal /\ ~journal.open
    BY <1>9 DEF Refresh, AcquireLease, AcquireNothing, ReleaseLease, RenewLease, Locked
  <2> QED
    BY <1>1, <1>2, <1>3, <1>9, <2>1, RefreshBooked
<1>10. CASE Restore
  <2>1. UNCHANGED journal /\ ~journal.open
    BY <1>10 DEF Restore, RestoreEntries, Locked
  <2> QED
    BY <1>1, <1>3, <1>10, <2>1, RestoreBooked
<1>11. CASE Mutation
  BY <1>1, <1>2, <1>11, MutationBooked
<1> QED
  BY <1>5, <1>6, <1>7, <1>8, <1>9, <1>10, <1>11 DEF Next

\* The counters, the limits and the journal are exact in every reachable state.
THEOREM BooksAreExact == Spec => []BInv
<1>1. Init => BInv
  BY InitBInv
<1>2. BInv /\ [Next]_vars => BInv'
  BY NextBInv
<1>3. QED
  BY <1>1, <1>2, PTL DEF Spec

\* used_bytes and lease_bytes, kept by adding and subtracting on every path, are
\* at all times the sums over what is stored and leased: no path of put, expiry,
\* eviction, restore or rollback leaks or double-frees a byte.
THEOREM AccountingIsExact == Spec => []Accounting
<1>1. BInv => Accounting
  BY DEF BInv, Counted, Accounting
<1>2. QED
  BY <1>1, BooksAreExact, PTL

\* No sequence of operations takes the cache over max_entries, max_memory_bytes
\* or the number of leases, under either eviction policy.
THEOREM CapacityIsKept == Spec => []Capacity
<1>1. BInv => Capacity
  BY DEF BInv, Counted, Accounting, Limited, Capacity
<1>2. QED
  BY <1>1, BooksAreExact, PTL

\* Under "lru" the store after restore_mutation_checkpoint is the store at
\* begin_mutation_checkpoint, whatever was put, deleted, read, expired and
\* evicted between the two.
THEOREM RollbackIsExact ==
    ASSUME EvictionPolicy = "lru"
    PROVE  Spec => RollbackExact
<1>1. BInv /\ BInv' /\ [Next]_vars => [RestoreMutation => store' = journal.before]_vars
  <2> SUFFICES ASSUME BInv, BInv', RestoreMutation PROVE store' = journal.before
    OBVIOUS
  <2> DEFINE b == journal.before
  <2>1. IInv /\ JournalExact /\ Coherent(store')
    BY DEF BInv, IInv, Coherent
  <2>2. Coherent(b)
    BY <2>1 DEF RestoreMutation, JournalExact
  <2>3. /\ store'.entries = b.entries /\ store'.leases = b.leases
        /\ store'.usedBytes = b.usedBytes /\ store'.leaseBytes = b.leaseBytes
        /\ store'.older = b.older
    BY <2>1, RollbackGivesBack, RollbackOrders
  <2> HIDE DEF b
  <2>4. store'.tagIndex = b.tagIndex
    <3>1. \A t \in Tags : store'.tagIndex[t] = b.tagIndex[t]
      BY <2>1, <2>2, <2>3 DEF Coherent, TagsIndexed
    <3>2. store'.tagIndex \in [Tags -> SUBSET Keys] /\ b.tagIndex \in [Tags -> SUBSET Keys]
      BY <2>1, <2>2 DEF Coherent, StoreType
    <3> QED
      BY <3>1, <3>2
  <2>5. /\ store' = Store(store'.entries, store'.older, store'.tagIndex, store'.leases,
                          store'.usedBytes, store'.leaseBytes)
        /\ b = Store(b.entries, b.older, b.tagIndex, b.leases, b.usedBytes, b.leaseBytes)
    BY <2>1, <2>2 DEF Coherent, StoreType
  <2>6. store' = b
    BY <2>3, <2>4, <2>5, Zenon
  <2> QED
    BY <2>6 DEF b
<1>2. QED
  BY <1>1, BooksAreExact, PTL DEF Spec, RollbackExact

----------------------------------------------------------------------------
(* A put is never its own victim *)

\* The memory the other keys' leases reserve, once the put's own lease is gone.
LEMMA WrittenReserve ==
    ASSUME NEW s, Coherent(s), Counted(s), NEW k \in Keys, NEW e \in Entry
    PROVE  Written(s, k, e).leaseBytes =
              s.leaseBytes - (IF k \in DOMAIN s.leases THEN LeaseBytes ELSE 0)
<1> DEFINE w == Written(s, k, e)
           n == Cardinality(DOMAIN s.leases)
<1>1. Counted(w) /\ w.leases = [x \in DOMAIN s.leases \ {k} |-> s.leases[x]]
  BY WrittenCounted, WrittenCoherent
<1> HIDE DEF w
<1>2. DOMAIN w.leases = DOMAIN s.leases \ {k}
  BY <1>1
<1>3. /\ IsFiniteSet(DOMAIN s.leases) /\ n \in Nat
      /\ Cardinality(DOMAIN w.leases) = IF k \in DOMAIN s.leases THEN n - 1 ELSE n
  BY <1>2, StoreIsFinite, FS_RemoveElement
<1>4. s.leaseBytes = LeaseBytes * n /\ w.leaseBytes = LeaseBytes * Cardinality(DOMAIN w.leases)
  BY <1>1 DEF Counted
<1>5. CASE k \notin DOMAIN s.leases
  <2>1. s.leaseBytes \in Nat
    BY CountersAreNatural
  <2> QED
    BY <1>3, <1>4, <1>5, <2>1 DEF w
<1>6. CASE k \in DOMAIN s.leases
  <2> DEFINE m == Cardinality(DOMAIN w.leases)
  <2>1. m \in Nat /\ n = m + 1
    <3>1. n # 0
      BY <1>3, <1>6, FS_EmptySet
    <3> QED
      BY <1>3, <1>6, <3>1
  <2> HIDE DEF m, n
  <2>2. LeaseBytes * (m + 1) = LeaseBytes * m + LeaseBytes /\ LeaseBytes * m \in Nat
    BY <2>1, LimitsAreNatural, TimesSum
  <2>3. s.leaseBytes = w.leaseBytes + LeaseBytes /\ w.leaseBytes \in Nat
    BY <1>4, <2>1, <2>2 DEF m
  <2> QED
    BY <1>6, <2>3, LimitsAreNatural DEF w
<1> QED
  BY <1>5, <1>6

\* With nothing else stored, an admitted entry fits.
LEMMA AloneFits ==
    ASSUME NEW s, Coherent(s), Counted(s), NEW k \in Keys, NEW e \in Entry,
           HasRoom(s, k, e), NEW V, V = DOMAIN Written(s, k, e).entries \ {k}
    PROVE  Fits(RemoveEntries(Written(s, k, e), V))
<1> DEFINE w == Written(s, k, e)
           v == RemoveEntries(w, V)
<1>1. Coherent(w) /\ Counted(w) /\ DOMAIN w.entries = DOMAIN s.entries \cup {k}
  BY WrittenCoherent, WrittenCounted
<1>2. w.entries[k] = e
  BY WrittenOwnKey
<1>3. w.leaseBytes = s.leaseBytes - (IF k \in DOMAIN s.leases THEN LeaseBytes ELSE 0)
  BY WrittenReserve
<1>4. V = DOMAIN w.entries \ {k}
  OBVIOUS
<1> HIDE DEF w
<1>5. v.entries = [x \in DOMAIN w.entries \ V |-> w.entries[x]]
  BY <1>1, RemoveEntriesParts
<1>6. Coherent(v) /\ Counted(v) /\ v.leaseBytes = w.leaseBytes
  BY <1>1, RemoveEntriesCounted DEF Shrunk
<1> HIDE DEF v
<1>7. DOMAIN v.entries = {k} /\ v.entries = [x \in {k} |-> e]
  <2>1. DOMAIN w.entries \ V = {k}
    BY <1>1, <1>4
  <2> QED
    BY <1>2, <1>5, <2>1
<1>8. Cardinality(DOMAIN v.entries) = 1
  BY <1>7, FS_Singleton
<1>9. EntryBytes(v.entries) = EntrySize(e)
  BY <1>7, OneEntryBytes
<1>10. EntrySize(e) \in Nat /\ s.leaseBytes \in Nat /\ v.leaseBytes \in Nat
  BY <1>6, SizeIsNatural, CountersAreNatural
<1>11. v.usedBytes = EntrySize(e) + v.leaseBytes
  BY <1>6, <1>9 DEF Counted
<1>12. v.usedBytes <= MaxMemoryBytes
  BY <1>3, <1>6, <1>10, <1>11, LimitsAreNatural DEF HasRoom
<1> QED
  BY <1>8, <1>12, LimitsAreNatural DEF Fits, v, w

\* The eviction loop of "lru" reaches the entry just written last of all, and
\* has already stopped by then.
LEMMA NotItsOwnVictim ==
    ASSUME NEW s, Coherent(s), Counted(s), NEW k \in Keys, NEW e \in Entry,
           HasRoom(s, k, e), EvictionPolicy = "lru",
           NEW at \in Evictions(Written(s, k, e))
    PROVE  k \notin DOMAIN at
<1> DEFINE w == Written(s, k, e)
           D == DOMAIN w.entries
           last == Cardinality(DOMAIN at)
<1> SUFFICES ASSUME k \in DOMAIN at PROVE FALSE
  OBVIOUS
<1>1. /\ Coherent(w) /\ D = DOMAIN s.entries \cup {k}
  BY WrittenCoherent
<1>2. w.older[k] = D \ {k}
  <2>1. w.older[k] = DOMAIN s.entries \ {k}
    BY WrittenOwnKey
  <2> QED
    BY <1>1, <2>1
<1>3. Fits(RemoveEntries(w, D \ {k}))
  BY AloneFits
<1> HIDE DEF w
<1>4. /\ at \in VictimOrders(w)
      /\ \A n \in 0..(last - 1) : ~Fits(RemoveEntries(w, {x \in DOMAIN at : at[x] <= n}))
  BY DEF Evictions, w
<1>5. /\ DOMAIN at \subseteq D
      /\ \A x \in DOMAIN at : /\ at[x] = Cardinality(w.older[x]) + 1
                              /\ w.older[x] \subseteq DOMAIN at
  BY <1>1, <1>4, OldestFirst
<1>6. DOMAIN at = D
  BY <1>2, <1>5
<1>7. /\ IsFiniteSet(D) /\ last \in Nat /\ Cardinality(D \ {k}) = last - 1
      /\ last - 1 \in Nat
  <2>1. IsFiniteSet(D) /\ last \in Nat
    BY <1>1, <1>6, StoreIsFinite
  <2>2. Cardinality(D \ {k}) = last - 1
    BY <1>6, <2>1, FS_RemoveElement
  <2>3. IsFiniteSet(D \ {k}) /\ Cardinality(D \ {k}) \in Nat
    BY <2>1, FS_RemoveElement, FS_CardinalityType
  <2> QED
    BY <2>1, <2>2, <2>3
<1>8. \A x \in D : at[x] <= last - 1 <=> x # k
  <2>1. at[k] = last - 1 + 1
    BY <1>2, <1>5, <1>7
  <2>2. ASSUME NEW x \in D, x # k PROVE at[x] <= last - 1
    <3>1. x \in w.older[k] /\ k \in D
      BY <1>1, <1>2, <2>2
    <3>2. Cardinality(w.older[x]) < last - 1 /\ Cardinality(w.older[x]) \in Nat
      <4>1. Cardinality(w.older[x]) < Cardinality(w.older[k])
        BY <1>1, <3>1, OlderIsSmaller
      <4>2. Cardinality(w.older[x]) \in Nat
        BY <1>1, OlderIsSmaller
      <4> QED
        BY <1>2, <1>7, <4>1, <4>2
    <3>3. at[x] = Cardinality(w.older[x]) + 1
      BY <1>5, <1>6
    <3> QED
      BY <1>7, <3>2, <3>3
  <2> QED
    BY <1>7, <2>1, <2>2
<1>9. {x \in DOMAIN at : at[x] <= last - 1} = D \ {k}
  BY <1>6, <1>8
<1>10. last - 1 \in 0..(last - 1)
  BY <1>7
<1> QED
  BY <1>3, <1>4, <1>9, <1>10

\* Under "lru" an accepted put finds its entry stored when it returns, however
\* full the cache was and whatever it evicted, unless the entry expired while
\* the caller waited for the lock.
THEOREM WritesSurvive ==
    ASSUME EvictionPolicy = "lru"
    PROVE  Spec => WriteSurvives
<1>1. ASSUME BInv, NEW t \in Threads, NEW k \in Keys, NEW e \in Requests(readAt[t]),
             PutStored(t, k, e)
      PROVE  (k \in DOMAIN store'.entries /\ store'.entries[k] = e) \/ clock >= e.stale
  <2> DEFINE w == Written(store, k, e)
  <2>1. e \in Entry /\ Coherent(store) /\ Counted(store) /\ HasRoom(store, k, e)
    <3>1. readAt[t] \in Nat
      BY <1>1 DEF BInv, IInv, TypeOK, PutStored
    <3> QED
      BY <1>1, <3>1, RequestsAreEntries DEF PutStored, BInv, IInv
  <2>2. PICK at \in Evictions(w) :
          store' = Lookup(RemoveEntries(w, DOMAIN at), k, clock)
    BY <1>1 DEF PutStored, PutResults
  <2>3. k \notin DOMAIN at
    BY <2>1, <2>2, NotItsOwnVictim
  <2>4. Coherent(w) /\ DOMAIN w.entries = DOMAIN store.entries \cup {k}
    BY <2>1, WrittenCoherent
  <2>5. w.entries[k] = e
    BY <2>1, WrittenOwnKey
  <2> HIDE DEF w
  <2> DEFINE v == RemoveEntries(w, DOMAIN at)
  <2>6. Coherent(v) /\ k \in DOMAIN v.entries /\ v.entries[k] = e
    BY <2>3, <2>4, <2>5, RemoveEntriesCoherent
  <2>7. store' = Lookup(v, k, clock)
    BY <2>2
  <2> HIDE DEF v
  <2>8. CASE k \in ExpiredEntries(v, clock)
    BY <2>6, <2>8 DEF ExpiredEntries
  <2>9. CASE k \notin ExpiredEntries(v, clock)
    <3>1. store' = Touch(v, k)
      BY <2>6, <2>7, <2>9 DEF Lookup
    <3>2. store'.entries = v.entries
      BY <3>1 DEF Touch, Store
    <3> QED
      BY <2>6, <3>2
  <2> QED
    BY <2>8, <2>9
<1>2. BInv /\ [Next]_vars =>
        [\A t \in Threads, k \in Keys : \A e \in Requests(readAt[t]) :
            PutStored(t, k, e) =>
               (k \in DOMAIN store'.entries /\ store'.entries[k] = e)
               \/ clock >= e.stale]_vars
  BY <1>1
<1>3. QED
  BY <1>2, BooksAreExact, PTL DEF Spec, WriteSurvives

----------------------------------------------------------------------------
(* get_or_load and coordinate: SingleFlight *)

\* A leader's flight is the one its key's table slot holds, and is not closed.
LeadersOwnTheirSlot ==
    \A t \in Callers : pc[t] \in Leading =>
        /\ joined[t] \in Flights /\ table[asked[t]] = joined[t]
        /\ joined[t] \notin released
        /\ outcome[joined[t]] # "unused"
        /\ pc[t] = "closing" => outcome[joined[t]] \in {"value", "error"}

\* An occupied slot has a leader; no flight sits in two slots.
SlotsAreLed ==
    \A k \in FlightKeys : table[k] # NoFlight =>
        /\ \E t \in Callers : pc[t] \in Leading /\ asked[t] = k
        /\ outcome[table[k]] # "unused"
        /\ \A x \in FlightKeys : table[x] = table[k] => x = k

\* A follower's flight exists: it is released or still in its key's slot.
WaitersJoined ==
    \A t \in Callers : pc[t] = "waiting" =>
        /\ joined[t] \in Flights /\ outcome[joined[t]] # "unused"
        /\ joined[t] \in released \/ table[asked[t]] = joined[t]

ClosedFlights == \A f \in released : outcome[f] \in {"value", "error"}

FlightIInv ==
    /\ FlightTypeOK /\ OneLoader
    /\ LeadersOwnTheirSlot /\ SlotsAreLed /\ WaitersJoined /\ ClosedFlights

\* Nobody leads or waits at first.
LEMMA InitFlight == FlightInit => FlightIInv
BY DEF FlightInit, FlightIInv, FlightTypeOK, OneLoader, LeadersOwnTheirSlot,
       SlotsAreLed, WaitersJoined, ClosedFlights, Leading

\* Every critical section keeps the invariant.
LEMMA NextFlight ==
    ASSUME FlightIInv, [FlightNext]_flightVars
    PROVE  FlightIInv'
<1> USE NoFlightIsNone, CachedKeysAreKeys DEF FlightIInv, FlightTypeOK, Leading
<1>1. ASSUME NEW t \in Callers, NEW k \in FlightKeys, Hit(t, k) PROVE FlightIInv'
  BY <1>1 DEF Hit, OneLoader, LeadersOwnTheirSlot, SlotsAreLed,
              WaitersJoined, ClosedFlights
<1>2. ASSUME NEW t \in Callers, NEW k \in FlightKeys, NEW f \in Flights, Lead(t, k, f)
      PROVE  FlightIInv'
  <2>1. FlightTypeOK' /\ OneLoader'
    BY <1>2 DEF Lead, OneLoader, LeadersOwnTheirSlot
  <2>2. \A x \in FlightKeys : table[x] # f
    BY <1>2 DEF Lead, SlotsAreLed
  <2>3. f \notin released
    BY <1>2 DEF Lead, ClosedFlights
  <2>4. LeadersOwnTheirSlot'
    BY <1>2, <2>2, <2>3 DEF Lead, LeadersOwnTheirSlot
  <2>5. SlotsAreLed'
    BY <1>2, <2>2 DEF Lead, SlotsAreLed
  <2>6. WaitersJoined' /\ ClosedFlights'
    BY <1>2, <2>3 DEF Lead, WaitersJoined, ClosedFlights
  <2>7. QED
    BY <2>1, <2>4, <2>5, <2>6
<1>3. ASSUME NEW t \in Callers, NEW k \in FlightKeys, Follow(t, k) PROVE FlightIInv'
  BY <1>3 DEF Follow, OneLoader, LeadersOwnTheirSlot, SlotsAreLed,
              WaitersJoined, ClosedFlights
<1>4. ASSUME NEW t \in Callers,
             LoadReturns(t) \/ Fails(t) \/ Stores(t)
      PROVE  FlightIInv'
  <2>1. /\ pc[t] \in {"loading", "storing"} /\ pc'[t] \in {"storing", "closing"}
        /\ pc' = [pc EXCEPT ![t] = pc'[t]]
        /\ UNCHANGED <<table, released, asked, joined>>
    BY <1>4 DEF LoadReturns, Fails, Stores
  <2>2. /\ joined[t] \in Flights /\ joined[t] \notin released
    BY <2>1 DEF LeadersOwnTheirSlot
  <2>3. /\ outcome' \in [Flights -> {"unused", "pending", "value", "error"}]
        /\ \A f \in Flights \ {joined[t]} : outcome'[f] = outcome[f]
        /\ outcome'[joined[t]] # "unused"
        /\ pc'[t] = "closing" => outcome'[joined[t]] \in {"value", "error"}
    BY <1>4, <2>2 DEF LoadReturns, Fails, Stores, LeadersOwnTheirSlot
  <2>4. FlightTypeOK' /\ OneLoader'
    BY <1>4, <2>1, <2>3 DEF LoadReturns, Fails, Stores, OneLoader
  <2>5. \A u \in Callers \ {t} : pc[u] \in Leading => joined[u] # joined[t]
    BY <2>1 DEF LeadersOwnTheirSlot, SlotsAreLed, OneLoader
  <2>6. LeadersOwnTheirSlot'
    BY <2>1, <2>2, <2>3, <2>5 DEF LeadersOwnTheirSlot
  <2>7. SlotsAreLed'
    BY <2>1, <2>2, <2>3 DEF SlotsAreLed
  <2>8. WaitersJoined' /\ ClosedFlights'
    BY <2>1, <2>2, <2>3 DEF WaitersJoined, ClosedFlights
  <2>9. QED
    BY <2>4, <2>6, <2>7, <2>8
<1>5. ASSUME NEW t \in Callers, Close(t) PROVE FlightIInv'
  <2>1. /\ joined[t] \in Flights /\ table[asked[t]] = joined[t]
        /\ outcome[joined[t]] \in {"value", "error"}
    BY <1>5 DEF Close, LeadersOwnTheirSlot
  <2>2. \A x \in FlightKeys : table[x] = joined[t] => x = asked[t]
    BY <2>1 DEF SlotsAreLed
  <2>3. FlightTypeOK' /\ OneLoader'
    BY <1>5, <2>1 DEF Close, OneLoader
  <2>4. LeadersOwnTheirSlot'
    BY <1>5, <2>1, <2>2 DEF Close, LeadersOwnTheirSlot, OneLoader
  <2>5. SlotsAreLed'
    BY <1>5, <2>1 DEF Close, SlotsAreLed
  <2>6. WaitersJoined' /\ ClosedFlights'
    BY <1>5, <2>1, <2>2 DEF Close, WaitersJoined, ClosedFlights
  <2>7. QED
    BY <2>3, <2>4, <2>5, <2>6
<1>6. ASSUME NEW t \in Callers, Wake(t) PROVE FlightIInv'
  BY <1>6 DEF Wake, OneLoader, LeadersOwnTheirSlot, SlotsAreLed,
              WaitersJoined, ClosedFlights
<1>7. ASSUME NEW k \in FlightKeys, Elsewhere(k) PROVE FlightIInv'
  BY <1>7 DEF Elsewhere, OneLoader, LeadersOwnTheirSlot, SlotsAreLed,
              WaitersJoined, ClosedFlights
<1>8. CASE UNCHANGED flightVars
  BY <1>8 DEF flightVars, OneLoader, LeadersOwnTheirSlot, SlotsAreLed,
              WaitersJoined, ClosedFlights
<1>9. QED
  BY <1>1, <1>2, <1>3, <1>4, <1>5, <1>6, <1>7, <1>8
  DEF FlightNext, Call, Leader

\* The inductive invariant of the protocol.
THEOREM FlightInvariant == FlightSpec => []FlightIInv
<1>1. FlightIInv /\ [FlightNext]_flightVars => FlightIInv'
  BY NextFlight
<1>2. QED
  BY <1>1, InitFlight, PTL DEF FlightSpec

\* No two callers load one key at once.
THEOREM LoadsOnce == FlightSpec => []OneLoader
<1>1. FlightIInv => OneLoader
  BY DEF FlightIInv
<1>2. QED
  BY <1>1, FlightInvariant, PTL

\* A follower that wakes finds a result or an error.
THEOREM ResultIsPublished == FlightSpec => []OutcomeBeforeEvent
<1>1. FlightIInv => OutcomeBeforeEvent
  BY DEF FlightIInv, ClosedFlights, OutcomeBeforeEvent
<1>2. QED
  BY <1>1, FlightInvariant, PTL

\* A follower's flight is released or has a leader that will release it.
THEOREM WaitersHaveLeaders == FlightSpec => []NoOrphanWaiter
<1>1. FlightIInv => NoOrphanWaiter
  <2> SUFFICES ASSUME FlightIInv, NEW t \in Callers,
                      pc[t] = "waiting", joined[t] \notin released
               PROVE  /\ table[asked[t]] = joined[t]
                      /\ \E u \in Callers : pc[u] \in Leading /\ joined[u] = joined[t]
    BY DEF NoOrphanWaiter
  <2>1. /\ asked[t] \in FlightKeys /\ joined[t] \in Flights /\ table[asked[t]] = joined[t]
    BY DEF FlightIInv, FlightTypeOK, WaitersJoined
  <2>2. PICK u \in Callers : pc[u] \in Leading /\ asked[u] = asked[t]
    BY <2>1, NoFlightIsNone DEF FlightIInv, SlotsAreLed
  <2>3. QED
    BY <2>1, <2>2 DEF FlightIInv, LeadersOwnTheirSlot
<1>2. QED
  BY <1>1, FlightInvariant, PTL

\* Who holds a permit, read off the threads.
LEMMA LoadersOf ==
    \A k \in FlightKeys :
        Loaders[k] = {t \in Callers : pc[t] \in Leading /\ asked[t] = k}
BY DEF Loaders

\* A step of the protocol takes a free permit, gives one back or changes none.
LEMMA PermitStep ==
    ASSUME FlightIInv, [FlightNext]_flightVars
    PROVE  [Permit!Next]_Loaders
<1> USE NoFlightIsNone, CachedKeysAreKeys DEF FlightIInv, FlightTypeOK, Leading
<1>1. ASSUME NEW t \in Callers, NEW k \in FlightKeys, NEW f \in Flights, Lead(t, k, f)
      PROVE  Permit!Take(t, k)
  <2>1. Loaders[k] = {}
    BY <1>1 DEF Lead, Loaders, LeadersOwnTheirSlot
  <2>2. \A x \in FlightKeys : t \notin Loaders[x]
    BY <1>1 DEF Lead, Loaders
  <2>3. ASSUME NEW x \in FlightKeys
        PROVE  Loaders'[x] = IF x = k THEN {t} ELSE Loaders[x]
    BY <1>1, <2>1 DEF Lead, Loaders
  <2>4. Loaders' = [Loaders EXCEPT ![k] = {t}]
    BY <2>3 DEF Loaders
  <2>5. QED
    BY <2>1, <2>2, <2>4 DEF Permit!Take
<1>2. ASSUME NEW t \in Callers, Close(t) PROVE Permit!Give(t, asked[t])
  <2>1. Loaders[asked[t]] = {t}
    BY <1>2 DEF Close, Loaders, OneLoader
  <2>2. ASSUME NEW x \in FlightKeys
        PROVE  Loaders'[x] = IF x = asked[t] THEN {} ELSE Loaders[x]
    <3>1. \A u \in Callers : (pc'[u] \in Leading /\ asked'[u] = x)
                             <=> (pc[u] \in Leading /\ asked[u] = x /\ u # t)
      BY <1>2 DEF Close
    <3>2. Loaders'[x] = Loaders[x] \ {t}
      BY <3>1 DEF Loaders
    <3>3. x # asked[t] => t \notin Loaders[x]
      BY DEF Loaders
    <3>4. QED
      BY <2>1, <3>2, <3>3
  <2>3. Loaders' = [Loaders EXCEPT ![asked[t]] = {}]
    BY <2>2 DEF Loaders
  <2>4. QED
    BY <2>1, <2>3 DEF Permit!Give
<1>3. ASSUME NEW t \in Callers,
             \/ \E k \in FlightKeys : Hit(t, k) \/ Follow(t, k)
             \/ LoadReturns(t) \/ Fails(t) \/ Stores(t) \/ Wake(t)
      PROVE  Loaders' = Loaders
  <2>1. ASSUME NEW x \in FlightKeys
        PROVE  Loaders'[x] = Loaders[x]
    <3>1. \A u \in Callers : (pc'[u] \in Leading /\ asked'[u] = x)
                             <=> (pc[u] \in Leading /\ asked[u] = x)
      BY <1>3 DEF Hit, Follow, LoadReturns, Fails,
                   Stores, Wake
    <3>2. QED
      BY <3>1 DEF Loaders
  <2>2. QED
    BY <2>1 DEF Loaders
<1>4. ASSUME NEW k \in FlightKeys, Elsewhere(k) PROVE Loaders' = Loaders
  BY <1>4 DEF Elsewhere, Loaders
<1>5. CASE UNCHANGED flightVars
  BY <1>5 DEF flightVars, Loaders
<1>6. \A t \in Callers : asked[t] \in FlightKeys
  OBVIOUS
<1>7. QED
  BY <1>1, <1>2, <1>3, <1>4, <1>5, <1>6
  DEF FlightNext, Call, Leader, Permit!Next

\* The safety part of the refinement: get_or_load and coordinate implement
\* LoaderPermit's initial condition and its steps.
THEOREM ImplementsPermit == FlightSpec => Permit!Init /\ [][Permit!Next]_Loaders
<1>1. FlightInit => Permit!Init
  BY DEF FlightInit, Permit!Init, Loaders, Leading
<1>2. FlightIInv /\ [FlightNext]_flightVars => [Permit!Next]_Loaders
  BY PermitStep
<1>3. QED
  BY <1>1, <1>2, FlightInvariant, PTL DEF FlightSpec
=============================================================================
