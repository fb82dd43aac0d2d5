------------------------- MODULE ClusterLeasesProofs -------------------------
(***************************************************************************)
(* Proofs about ClusterLeases for any number of nodes, keys and callers: a *)
(* guarded put is never accepted once its lease has been ended, though a   *)
(* failed transaction may put the lease back into the table, and the byte  *)
(* count of the table never falls short of it.                             *)
(*                                                                         *)
(* Every method but acquire_lease and renew_lease only shrinks the table;  *)
(* the first part shows this helper by helper.                             *)
(***************************************************************************)
EXTENDS ClusterLeases, FiniteSetTheorems, TLAPS

LeaseType == [token : 1..MaxTokens, until : 0..MaxClock + LeaseSeconds,
              fence : [term : Nat \ {0}, leader : Nodes]]

LeaseTables == UNION {[D -> LeaseType] : D \in SUBSET Keys}

ClusterType ==
    [status : [Nodes -> {"active", "down"}], late : SUBSET Nodes, leader : Nodes,
     term : Nat \ {0}, leases : LeaseTables, bytes : Int, tombstones : SUBSET Keys]

HistoryType ==
    [granted : 0..MaxTokens, void : SUBSET Nat, lost : Nat, late : BOOLEAN]

Typed ==
    /\ cluster \in ClusterType /\ clock \in 0..MaxClock
    /\ readAt \in [Callers -> {NotReading} \cup 0..MaxClock]
    /\ history \in HistoryType

\* Tokens are numbered as they are granted, and no lease is of a later term.
TokensAreGranted ==
    /\ \A token \in history.void : token \in 1..history.granted
    /\ \A k \in DOMAIN cluster.leases :
          /\ cluster.leases[k].token \in 1..history.granted
          /\ cluster.leases[k].fence.term <= cluster.term

\* A lease that was ended and is in the table all the same belongs to a term that
\* is over: its fence does not match any more.
EndedLeasesAreOld ==
    \A k \in DOMAIN cluster.leases :
        cluster.leases[k].token \in history.void => cluster.leases[k].fence.term < cluster.term

BytesCounted ==
    /\ cluster.bytes = Cardinality(DOMAIN cluster.leases) + history.lost
    /\ cluster.bytes <= MaxLeaseBytes

IInv == Typed /\ TokensAreGranted /\ EndedLeasesAreOld /\ BytesCounted /\ NoLateWrite

Surplus(c) == c.bytes - Cardinality(DOMAIN c.leases)

\* d has some of c's leases, no earlier term, and counts no byte of its own.
Shrinks(c, d) ==
    /\ d \in ClusterType
    /\ DOMAIN d.leases \subseteq DOMAIN c.leases
    /\ \A k \in DOMAIN d.leases : d.leases[k] = c.leases[k]
    /\ d.term >= c.term
    /\ Surplus(d) = Surplus(c) \/ (d.bytes = 0 /\ Surplus(d) = 0)

----------------------------------------------------------------------------
(* Helpers only shrink the table *)

\* A set of node numbers has a first one.
LEMMA FirstNode ==
    ASSUME NEW S, S \subseteq Nodes, S # {}
    PROVE  Min(S) \in S
<1>1. S \subseteq Nat
  BY NodesAreNumbers
<1>2. PICK x \in S : \A y \in S : ~(<<y, x>> \in OpToRel(<, Nat))
  BY <1>1, NatLessThanWellFounded, WFMin
<1>3. \A y \in S : ~(y < x)
  BY <1>1, <1>2 DEF OpToRel
<1>4. \A y \in S : x =< y
  BY <1>1, <1>3
<1> QED
  BY <1>4 DEF Min

\* A table is a finite one, and an empty table is a table.
LEMMA TablesAreFinite ==
    /\ NoLease \in LeaseTables /\ DOMAIN NoLease = {} /\ Cardinality(DOMAIN NoLease) = 0
    /\ \A f \in LeaseTables : /\ DOMAIN f \subseteq Keys /\ IsFiniteSet(DOMAIN f)
                              /\ Cardinality(DOMAIN f) \in Nat
<1>1. NoLease \in [{} -> LeaseType] /\ DOMAIN NoLease = {}
  BY DEF NoLease
<1>2. ASSUME NEW f \in LeaseTables
      PROVE  DOMAIN f \subseteq Keys
  BY <1>2 DEF LeaseTables
<1>3. ASSUME NEW f \in LeaseTables
      PROVE  IsFiniteSet(DOMAIN f) /\ Cardinality(DOMAIN f) \in Nat
  BY <1>2, <1>3, KeysAreFinite, FS_Subset, FS_CardinalityType
<1> QED
  BY <1>1, <1>2, <1>3, FS_EmptySet DEF LeaseTables

\* Shrinking twice is shrinking.
LEMMA ShrinksTwice ==
    ASSUME NEW c \in ClusterType, NEW d, NEW e, Shrinks(c, d), Shrinks(d, e)
    PROVE  Shrinks(c, e)
<1>1. /\ c.term \in Int /\ d.term \in Int /\ e.term \in Int
  BY DEF Shrinks, ClusterType
<1>2. e.term >= c.term
  BY <1>1 DEF Shrinks
<1>3. Surplus(e) = Surplus(c) \/ (e.bytes = 0 /\ Surplus(e) = 0)
  <2>1. CASE Surplus(d) = Surplus(c)
    BY <2>1 DEF Shrinks
  <2>2. CASE d.bytes = 0 /\ Surplus(d) = 0 /\ Surplus(e) = 0
    <3>1. /\ Cardinality(DOMAIN d.leases) \in Nat /\ IsFiniteSet(DOMAIN d.leases)
          /\ Cardinality(DOMAIN e.leases) \in Nat /\ IsFiniteSet(DOMAIN e.leases)
          /\ e.bytes \in Int
      BY TablesAreFinite DEF Shrinks, ClusterType
    <3>2. Cardinality(DOMAIN d.leases) = 0
      BY <2>2, <3>1 DEF Surplus
    <3>3. Cardinality(DOMAIN e.leases) <= Cardinality(DOMAIN d.leases)
      BY <3>1, FS_Subset DEF Shrinks
    <3>4. e.bytes = 0
      BY <2>2, <3>1, <3>2, <3>3 DEF Surplus
    <3> QED
      BY <2>2, <3>4
  <2> QED
    BY <2>1, <2>2 DEF Shrinks
<1> QED
  BY <1>2, <1>3 DEF Shrinks

\* A change that keeps the term, the leases and the bytes shrinks nothing.
LEMMA ShrinksNothing ==
    ASSUME NEW c \in ClusterType, NEW d \in ClusterType,
           d.term = c.term, d.leases = c.leases, d.bytes = c.bytes
    PROVE  Shrinks(c, d)
BY DEF Shrinks, Surplus, ClusterType

\* An election empties the table or changes nothing.
LEMMA ElectedShrinks ==
    ASSUME NEW c \in ClusterType
    PROVE  Shrinks(c, Elected(c))
<1> DEFINE candidates == HealthyNodes(c)
           leader == IF candidates = {} THEN c.leader ELSE Min(candidates)
           d == [c EXCEPT !.term = c.term + 1, !.leases = NoLease, !.bytes = 0,
                          !.leader = leader]
<1>1. CASE c.leader \in candidates
  BY <1>1, ShrinksNothing DEF Elected
<1>2. CASE c.leader \notin candidates
  <2>1. leader \in Nodes
    BY FirstNode DEF HealthyNodes, ClusterType
  <2>2. Elected(c) = d
    BY <1>2 DEF Elected
  <2> HIDE DEF leader
  <2>a. c.term \in Int /\ c.term + 1 \in Nat \ {0} /\ NoLease \in LeaseTables
    BY TablesAreFinite DEF ClusterType
  <2> DEFINE term == c.term + 1
  <2>b. term \in Nat \ {0} /\ term >= c.term
    BY <2>a
  <2> HIDE DEF term
  <2>3. /\ d \in ClusterType /\ d.term = term /\ d.leases = NoLease /\ d.bytes = 0
    <3>1. d = [c EXCEPT !.term = term, !.leases = NoLease, !.bytes = 0, !.leader = leader]
      BY DEF term
    <3> HIDE DEF d
    <3>2. /\ d = [status |-> c.status, late |-> c.late, leader |-> leader, term |-> term,
                  leases |-> NoLease, bytes |-> 0, tombstones |-> c.tombstones]
      BY <3>1 DEF ClusterType
    <3> QED
      BY <2>1, <2>a, <2>b, <3>2 DEF ClusterType
  <2> HIDE DEF d
  <2>4. Surplus(d) = 0
    BY <2>3, TablesAreFinite DEF Surplus
  <2>5. Shrinks(c, d)
    BY <2>b, <2>3, <2>4, TablesAreFinite DEF Shrinks
  <2> QED
    BY <2>2, <2>5
<1> QED
  BY <1>1, <1>2

\* Failure detection elects, if anybody has failed.
LEMMA DetectedShrinks ==
    ASSUME NEW c \in ClusterType
    PROVE  Shrinks(c, Detected(c))
<1> DEFINE failed == {n \in c.late : c.status[n] = "active"}
           status == [n \in Nodes |-> IF n \in failed THEN "down" ELSE c.status[n]]
           d == [c EXCEPT !.status = status]
<1>1. CASE failed = {}
  BY <1>1, ShrinksNothing DEF Detected
<1>2. CASE failed # {}
  <2>1. status \in [Nodes -> {"active", "down"}]
    BY DEF ClusterType
  <2>2. Detected(c) = Elected(d)
    BY <1>2 DEF Detected
  <2> HIDE DEF status
  <2>3. d \in ClusterType /\ d.term = c.term /\ d.leases = c.leases /\ d.bytes = c.bytes
    BY <2>1 DEF ClusterType
  <2> HIDE DEF d
  <2>4. Shrinks(c, d) /\ Shrinks(d, Elected(d))
    BY <2>3, ShrinksNothing, ElectedShrinks
  <2> QED
    BY <2>2, <2>4, ShrinksTwice
<1> QED
  BY <1>1, <1>2

\* Removing leases uncounts exactly what is removed.
LEMMA RemoveShrinks ==
    ASSUME NEW c \in ClusterType, NEW S
    PROVE  Shrinks(c, RemoveLeases(c, S)) /\ RemoveLeases(c, S).tombstones = c.tombstones
<1> DEFINE removed == S \cap DOMAIN c.leases
           kept == DOMAIN c.leases \ S
           leases == Restrict(c.leases, kept)
           bytes == c.bytes - Cardinality(removed)
           d == [c EXCEPT !.leases = leases, !.bytes = bytes]
<1>1. /\ IsFiniteSet(removed) /\ IsFiniteSet(kept) /\ Cardinality(removed) \in Nat
      /\ Cardinality(kept) \in Nat /\ IsFiniteSet(DOMAIN c.leases) /\ c.bytes \in Int
  <2>1. IsFiniteSet(DOMAIN c.leases) /\ c.bytes \in Int
    BY TablesAreFinite DEF ClusterType
  <2>2. removed \in SUBSET DOMAIN c.leases /\ kept \in SUBSET DOMAIN c.leases
    OBVIOUS
  <2> HIDE DEF removed, kept
  <2> QED
    BY <2>1, <2>2, FS_Subset, FS_CardinalityType
<1>2. Cardinality(DOMAIN c.leases) = Cardinality(removed) + Cardinality(kept)
  <2>1. removed \cup kept = DOMAIN c.leases /\ removed \cap kept = {}
    OBVIOUS
  <2> HIDE DEF removed, kept
  <2>2. Cardinality(removed \cup kept)
            = Cardinality(removed) + Cardinality(kept) - Cardinality(removed \cap kept)
    BY <1>1, FS_Union
  <2>3. Cardinality(removed \cap kept) = 0
    BY <2>1, FS_EmptySet
  <2>4. Cardinality(DOMAIN c.leases) = Cardinality(removed \cup kept)
    BY <2>1
  <2> QED
    BY <1>1, <2>2, <2>3, <2>4
<1>3. /\ leases \in LeaseTables /\ DOMAIN leases = kept
      /\ \A k \in kept : leases[k] = c.leases[k]
  <2>1. PICK D \in SUBSET Keys : c.leases \in [D -> LeaseType]
    BY DEF ClusterType, LeaseTables
  <2>2. leases \in [kept -> LeaseType] /\ kept \in SUBSET Keys
    BY <2>1 DEF Restrict
  <2>3. \A k \in kept : leases[k] = c.leases[k]
    BY DEF Restrict
  <2> HIDE DEF leases, kept
  <2> QED
    BY <2>2, <2>3 DEF LeaseTables
<1>4. RemoveLeases(c, S) = d
  BY DEF RemoveLeases
<1> HIDE DEF leases, kept, removed
<1>5. bytes \in Int
  BY <1>1
<1>6. /\ d \in ClusterType /\ d.leases = leases /\ d.bytes = bytes /\ d.term = c.term
      /\ d.tombstones = c.tombstones /\ c.term \in Int
  <2> HIDE DEF bytes
  <2>0. d = [c EXCEPT !.leases = leases, !.bytes = bytes]
    OBVIOUS
  <2> HIDE DEF d
  <2>1. d = [status |-> c.status, late |-> c.late, leader |-> c.leader, term |-> c.term,
             leases |-> leases, bytes |-> bytes, tombstones |-> c.tombstones]
    BY <2>0 DEF ClusterType
  <2> QED
    BY <1>3, <1>5, <2>1 DEF ClusterType
<1> HIDE DEF d
<1>7. Surplus(d) = Surplus(c)
  BY <1>1, <1>2, <1>3, <1>6 DEF Surplus
<1>8. Shrinks(c, d)
  <2>1. kept \subseteq DOMAIN c.leases
    BY DEF kept
  <2> QED
    BY <1>3, <1>6, <1>7, <2>1 DEF Shrinks
<1> QED
  BY <1>4, <1>6, <1>8

\* What else changes is the set of tombstones.
LEMMA TombstonesOnly ==
    ASSUME NEW c \in ClusterType, NEW T \in SUBSET Keys
    PROVE  Shrinks(c, [c EXCEPT !.tombstones = T])
<1>1. /\ [c EXCEPT !.tombstones = T] \in ClusterType
      /\ [c EXCEPT !.tombstones = T].term = c.term
      /\ [c EXCEPT !.tombstones = T].leases = c.leases
      /\ [c EXCEPT !.tombstones = T].bytes = c.bytes
  BY DEF ClusterType
<1> QED
  BY <1>1, ShrinksNothing

\* Removing the leases of some keys while their tombstones come or go.
LEMMA RemoveWithTombstones ==
    ASSUME NEW c \in ClusterType, NEW S, NEW T \in SUBSET Keys
    PROVE  Shrinks(c, [RemoveLeases(c, S) EXCEPT !.tombstones = T])
<1>1. Shrinks(c, RemoveLeases(c, S)) /\ RemoveLeases(c, S) \in ClusterType
  BY RemoveShrinks DEF Shrinks
<1> QED
  BY <1>1, TombstonesOnly, ShrinksTwice

\* A collection drops leases.
LEMMA CollectionsShrink ==
    ASSUME NEW c \in ClusterType, NEW d \in Collections(c)
    PROVE  Shrinks(c, d)
<1>1. CASE d = c
  BY <1>1, ShrinksNothing
<1>2. ASSUME NEW S \in SUBSET c.tombstones,
             d = [RemoveLeases(c, S) EXCEPT !.tombstones = c.tombstones \ S]
      PROVE  Shrinks(c, d)
  <2>1. c.tombstones \ S \in SUBSET Keys
    BY DEF ClusterType
  <2> QED
    BY <1>2, <2>1, RemoveWithTombstones
<1> QED
  BY <1>1, <1>2 DEF Collections

\* A write drops the leases of its keys.
LEMMA StoredShrinks ==
    ASSUME NEW c \in ClusterType, NEW S
    PROVE  Shrinks(c, Stored(c, S))
<1>1. c.tombstones \ S \in SUBSET Keys
  BY DEF ClusterType
<1> QED
  BY <1>1, RemoveWithTombstones DEF Stored

\* A transaction drops leases; a failed one puts them back as they were.
LEMMA TransactionShrinks ==
    ASSUME NEW c \in ClusterType, NEW S \in SUBSET Keys, NEW failing, NEW raises \in BOOLEAN
    PROVE  Shrinks(c, Transaction(c, S, failing, raises))
<1> DEFINE d == Detected(c)
<1>1. Shrinks(c, d) /\ d \in ClusterType
  BY DetectedShrinks DEF Shrinks
<1>2. Shrinks(c, Buried(d, S, failing))
  <2> DEFINE T == IF HealthyNodes(d) = Nodes /\ failing = {} THEN d.tombstones \ S
                                                           ELSE d.tombstones \cup S
  <2> HIDE DEF d
  <2>1. T \in SUBSET Keys
    BY <1>1 DEF ClusterType
  <2>2. Buried(d, S, failing) = [RemoveLeases(d, S) EXCEPT !.tombstones = T]
    BY DEF Buried
  <2> HIDE DEF T
  <2> QED
    BY <1>1, <2>1, <2>2, RemoveWithTombstones, ShrinksTwice
<1>3. Shrinks(c, Undone(d, c))
  <2> DEFINE e == [d EXCEPT !.leases = c.leases, !.bytes = c.bytes]
  <2> HIDE DEF d
  <2>1. e \in ClusterType /\ e.leases = c.leases /\ e.bytes = c.bytes /\ e.term = d.term
    BY <1>1 DEF ClusterType
  <2>2. Undone(d, c) = e
    BY DEF Undone
  <2> HIDE DEF e
  <2>3. Shrinks(c, e)
    BY <1>1, <2>1 DEF Shrinks, Surplus
  <2> QED
    BY <2>2, <2>3
<1>4. Transaction(c, S, failing, raises) \in {Undone(d, c), Buried(d, S, failing)}
  BY DEF Transaction
<1> QED
  BY <1>2, <1>3, <1>4

----------------------------------------------------------------------------
(* Every step keeps the invariant *)

\* A step that shrinks the table and ends leases, of those it had, that are gone
\* from it or whose term is over.
LEMMA ShrinkStep ==
    ASSUME IInv, NEW d, Shrinks(cluster, d), cluster' = d,
           NEW V, V \subseteq Tokens(cluster),
           V \cap Tokens(d) = {} \/ cluster.term < d.term,
           history' = [granted |-> history.granted, void |-> history.void \cup V,
                       lost |-> IF d.bytes = 0 THEN 0 ELSE history.lost, late |-> FALSE],
           clock' \in 0..MaxClock, readAt' \in [Callers -> {NotReading} \cup 0..MaxClock]
    PROVE  IInv'
<1>1. /\ cluster \in ClusterType /\ d \in ClusterType /\ history \in HistoryType
      /\ cluster.term \in Nat /\ d.term \in Nat /\ d.term >= cluster.term
      /\ DOMAIN d.leases \subseteq DOMAIN cluster.leases
      /\ \A k \in DOMAIN d.leases : d.leases[k] = cluster.leases[k]
  BY DEF IInv, Typed, Shrinks, ClusterType
<1>2. \A k \in DOMAIN cluster.leases :
         /\ cluster.leases[k].fence.term \in Nat
         /\ cluster.leases[k].token \in Nat
  BY <1>1 DEF ClusterType, LeaseTables, LeaseType
<1>3. V \subseteq 1..history.granted
  BY DEF IInv, TokensAreGranted, Tokens
<1>4. Typed'
  <2>1. history.void \cup V \in SUBSET Nat
    <3>1. history.void \in SUBSET Nat /\ history.granted \in Int
      BY <1>1, LimitsArePositive DEF HistoryType
    <3>2. V \in SUBSET Nat
      BY <1>3, <3>1
    <3> QED
      BY <3>1, <3>2
  <2>2. (IF d.bytes = 0 THEN 0 ELSE history.lost) \in Nat
    BY <1>1 DEF HistoryType
  <2> DEFINE void == history.void \cup V
             lost == IF d.bytes = 0 THEN 0 ELSE history.lost
  <2>3. history' \in HistoryType
    <3>1. /\ history' = [granted |-> history.granted, void |-> void, lost |-> lost, late |-> FALSE]
          /\ void \in SUBSET Nat /\ lost \in Nat /\ history.granted \in 0..MaxTokens
      BY <1>1, <2>1, <2>2 DEF HistoryType
    <3>2. ASSUME NEW g \in 0..MaxTokens, NEW v \in SUBSET Nat, NEW l \in Nat
          PROVE  [granted |-> g, void |-> v, lost |-> l, late |-> FALSE] \in HistoryType
      BY DEF HistoryType
    <3> HIDE DEF void, lost
    <3> QED
      BY <3>1, <3>2
  <2> QED
    BY <1>1, <2>3 DEF Typed
<1>5. TokensAreGranted'
  <2>1. \A token \in history.void \cup V : token \in 1..history.granted
    BY <1>3 DEF IInv, TokensAreGranted
  <2>2. ASSUME NEW k \in DOMAIN d.leases
        PROVE  d.leases[k].token \in 1..history.granted /\ d.leases[k].fence.term <= d.term
    <3>1. /\ d.leases[k] = cluster.leases[k] /\ cluster.leases[k].token \in 1..history.granted
          /\ cluster.leases[k].fence.term <= cluster.term
          /\ cluster.leases[k].fence.term \in Nat
      BY <1>1, <1>2 DEF IInv, TokensAreGranted
    <3> QED
      BY <1>1, <3>1
  <2>3. history'.void = history.void \cup V /\ history'.granted = history.granted
    OBVIOUS
  <2> QED
    BY <2>1, <2>2, <2>3 DEF TokensAreGranted
<1>6. EndedLeasesAreOld'
  <2>1. ASSUME NEW k \in DOMAIN d.leases, d.leases[k].token \in history.void \cup V
        PROVE  d.leases[k].fence.term < d.term
    <3>1. /\ d.leases[k] = cluster.leases[k] /\ k \in DOMAIN cluster.leases
          /\ cluster.leases[k].fence.term <= cluster.term
          /\ cluster.leases[k].fence.term \in Nat
      BY <1>1, <1>2 DEF IInv, TokensAreGranted
    <3>2. CASE d.leases[k].token \in history.void
      BY <1>1, <3>1, <3>2 DEF IInv, EndedLeasesAreOld
    <3>3. CASE d.leases[k].token \in V
      <4>1. d.leases[k].token \in Tokens(d)
        BY DEF Tokens
      <4>2. cluster.term < d.term
        BY <3>3, <4>1
      <4> QED
        BY <1>1, <3>1, <4>2
    <3> QED
      BY <2>1, <3>2, <3>3
  <2>2. history'.void = history.void \cup V
    OBVIOUS
  <2> QED
    BY <2>1, <2>2 DEF EndedLeasesAreOld
<1>7. BytesCounted'
  <2>1. /\ Cardinality(DOMAIN d.leases) \in Nat /\ IsFiniteSet(DOMAIN cluster.leases)
        /\ Cardinality(DOMAIN cluster.leases) \in Nat
        /\ d.bytes \in Int /\ cluster.bytes \in Int /\ history.lost \in Nat
        /\ MaxLeaseBytes \in Nat
    BY <1>1, TablesAreFinite, LimitsArePositive DEF ClusterType, HistoryType
  <2>2. Cardinality(DOMAIN d.leases) <= Cardinality(DOMAIN cluster.leases)
    BY <1>1, <2>1, FS_Subset
  <2>3. /\ cluster.bytes = Cardinality(DOMAIN cluster.leases) + history.lost
        /\ cluster.bytes <= MaxLeaseBytes
    BY DEF IInv, BytesCounted
  <2>4. history'.lost = IF d.bytes = 0 THEN 0 ELSE history.lost
    OBVIOUS
  <2>5. CASE Surplus(d) = Surplus(cluster)
    BY <2>1, <2>2, <2>3, <2>4, <2>5 DEF Surplus, BytesCounted
  <2>6. CASE d.bytes = 0 /\ Surplus(d) = 0
    BY <2>1, <2>2, <2>3, <2>4, <2>6 DEF Surplus, BytesCounted
  <2> QED
    BY <2>5, <2>6 DEF Shrinks
<1>8. NoLateWrite'
  BY DEF NoLateWrite
<1> QED
  BY <1>4, <1>5, <1>6, <1>7, <1>8 DEF IInv

\* What a method leaves behind when it only shrinks the table.
LEMMA BecomesStep ==
    ASSUME IInv, NEW d, Shrinks(cluster, d), Becomes(d),
           clock' \in 0..MaxClock, readAt' \in [Callers -> {NotReading} \cup 0..MaxClock]
    PROVE  IInv'
<1> DEFINE V == Tokens(cluster) \ Tokens(d)
<1>1. history' = [granted |-> history.granted, void |-> history.void \cup V,
                  lost |-> IF d.bytes = 0 THEN 0 ELSE history.lost, late |-> FALSE]
  BY DEF Becomes, IInv, Typed, HistoryType, NoLateWrite
<1>2. V \subseteq Tokens(cluster) /\ V \cap Tokens(d) = {} /\ cluster' = d
  BY DEF Becomes
<1> HIDE DEF V
<1> QED
  BY <1>1, <1>2, ShrinkStep

\* The clocks are typed.
LEMMA ClocksStay ==
    ASSUME IInv, NEW t \in Callers
    PROVE  /\ clock \in 0..MaxClock /\ readAt \in [Callers -> {NotReading} \cup 0..MaxClock]
           /\ [readAt EXCEPT ![t] = NotReading] \in [Callers -> {NotReading} \cup 0..MaxClock]
           /\ [readAt EXCEPT ![t] = clock] \in [Callers -> {NotReading} \cup 0..MaxClock]
           /\ readAt[t] # NotReading => readAt[t] \in 0..MaxClock
BY DEF IInv, Typed

\* A step that leaves the leases, their count and the history alone.
LEMMA QuietStep ==
    ASSUME IInv, NEW d \in ClusterType, cluster' = d, history' = history,
           d.term = cluster.term, d.leases = cluster.leases, d.bytes = cluster.bytes,
           clock' \in 0..MaxClock, readAt' \in [Callers -> {NotReading} \cup 0..MaxClock]
    PROVE  IInv'
BY DEF IInv, Typed, TokensAreGranted, EndedLeasesAreOld, BytesCounted, NoLateWrite

\* The clock goes on, and a caller reads it.
LEMMA ClockSteps ==
    ASSUME IInv
    PROVE  /\ Tick => IInv'
           /\ \A t \in Callers : ReadClock(t) => IInv'
           /\ UNCHANGED vars => IInv'
<1>1. /\ cluster \in ClusterType /\ clock \in 0..MaxClock
      /\ readAt \in [Callers -> {NotReading} \cup 0..MaxClock]
  BY DEF IInv, Typed
<1>2. ASSUME Tick PROVE IInv'
  <2>1. /\ cluster' = cluster /\ history' = history /\ clock' \in 0..MaxClock
        /\ readAt' = readAt
    BY <1>1, <1>2, LimitsArePositive DEF Tick
  <2> QED
    BY <1>1, <2>1, QuietStep
<1>3. ASSUME NEW t \in Callers, ReadClock(t) PROVE IInv'
  <2>1. /\ cluster' = cluster /\ history' = history /\ clock' = clock
        /\ readAt' \in [Callers -> {NotReading} \cup 0..MaxClock]
    BY <1>1, <1>3, ClocksStay DEF ReadClock
  <2> QED
    BY <1>1, <2>1, QuietStep
<1>4. ASSUME UNCHANGED vars PROVE IInv'
  BY <1>1, <1>4, QuietStep DEF vars
<1> QED
  BY <1>2, <1>3, <1>4

\* Nodes come and go, and the cluster elects.
LEMMA MembershipSteps ==
    ASSUME IInv, NEW n \in Nodes
    PROVE  /\ BecomeLate(n) => IInv'
           /\ MarkNodeDown(n) => IInv'
           /\ Heartbeat(n) => IInv'
           /\ DetectFailures => IInv'
           /\ Stats => IInv'
           /\ Flush => IInv'
<1>1. /\ cluster \in ClusterType /\ clock \in 0..MaxClock
      /\ readAt \in [Callers -> {NotReading} \cup 0..MaxClock]
  BY DEF IInv, Typed
<1>2. ASSUME BecomeLate(n) PROVE IInv'
  <2> DEFINE d == [cluster EXCEPT !.late = cluster.late \cup {n}]
  <2>1. d \in ClusterType /\ d.term = cluster.term /\ d.leases = cluster.leases
        /\ d.bytes = cluster.bytes
    BY <1>1 DEF ClusterType
  <2>2. cluster' = d /\ history' = history /\ clock' = clock /\ readAt' = readAt
    BY <1>2 DEF BecomeLate
  <2> HIDE DEF d
  <2> QED
    BY <1>1, <2>1, <2>2, QuietStep
<1>3. ASSUME MarkNodeDown(n) PROVE IInv'
  <2> DEFINE status == [cluster.status EXCEPT ![n] = "down"]
             d == [cluster EXCEPT !.status = status]
  <2>1. status \in [Nodes -> {"active", "down"}]
    BY <1>1 DEF ClusterType
  <2>2. [cluster EXCEPT !.status[n] = "down"] = d
    BY <1>1 DEF ClusterType
  <2> HIDE DEF status
  <2>3. d \in ClusterType /\ d.term = cluster.term /\ d.leases = cluster.leases
        /\ d.bytes = cluster.bytes
    BY <1>1, <2>1 DEF ClusterType
  <2>4. Becomes(Elected(d)) /\ clock' = clock /\ readAt' = readAt
    BY <1>3, <2>2 DEF MarkNodeDown
  <2> HIDE DEF d
  <2>5. Shrinks(cluster, Elected(d))
    BY <1>1, <2>3, ShrinksNothing, ElectedShrinks, ShrinksTwice
  <2> QED
    BY <1>1, <2>4, <2>5, BecomesStep
<1>4. ASSUME Heartbeat(n) PROVE IInv'
  <2>1. Alive(n) \in ClusterType /\ Alive(n).term = cluster.term
        /\ Alive(n).leases = cluster.leases /\ Alive(n).bytes = cluster.bytes
    <3> DEFINE status == [cluster.status EXCEPT ![n] = "active"]
               late == cluster.late \ {n}
               d == [cluster EXCEPT !.late = late, !.status = status]
    <3>1. status \in [Nodes -> {"active", "down"}] /\ late \in SUBSET Nodes
      BY <1>1 DEF ClusterType
    <3>2. Alive(n) = d
      BY <1>1 DEF ClusterType, Alive
    <3> HIDE DEF status, late
    <3>3. d \in ClusterType /\ d.term = cluster.term /\ d.leases = cluster.leases
          /\ d.bytes = cluster.bytes
      BY <1>1, <3>1 DEF ClusterType
    <3> QED
      BY <3>2, <3>3
  <2>2. PICK d \in Collections(Elected(Alive(n))) : Becomes(d)
    BY <1>4 DEF Heartbeat
  <2>3. Shrinks(cluster, Elected(Alive(n))) /\ Elected(Alive(n)) \in ClusterType
    BY <1>1, <2>1, ShrinksNothing, ElectedShrinks, ShrinksTwice DEF Shrinks
  <2>4. Shrinks(cluster, d)
    BY <1>1, <2>3, CollectionsShrink, ShrinksTwice
  <2>5. clock' = clock /\ readAt' = readAt
    BY <1>4 DEF Heartbeat
  <2> QED
    BY <1>1, <2>2, <2>4, <2>5, BecomesStep
<1>5. ASSUME DetectFailures PROVE IInv'
  BY <1>1, <1>5, DetectedShrinks, BecomesStep DEF DetectFailures
<1>6. ASSUME Stats PROVE IInv'
  BY <1>1, <1>6, RemoveShrinks, BecomesStep DEF Stats
<1>7. ASSUME Flush PROVE IInv'
  <2> DEFINE d == Detected(cluster)
             e == [d EXCEPT !.leases = NoLease, !.bytes = 0, !.tombstones = {}]
  <2>1. Shrinks(cluster, d) /\ d \in ClusterType
    BY <1>1, DetectedShrinks DEF Shrinks
  <2>2. Becomes(IF HealthyNodes(d) = Nodes THEN e ELSE d) /\ clock' = clock /\ readAt' = readAt
    BY <1>7 DEF Flush
  <2>3. Shrinks(d, e)
    <3> HIDE DEF d
    <3>0. e = [d EXCEPT !.leases = NoLease, !.bytes = 0, !.tombstones = {}]
      OBVIOUS
    <3> HIDE DEF e
    <3>1. e \in ClusterType /\ e.leases = NoLease /\ e.bytes = 0 /\ e.term = d.term
          /\ d.term \in Nat
      <4>1. e = [status |-> d.status, late |-> d.late, leader |-> d.leader, term |-> d.term,
                 leases |-> NoLease, bytes |-> 0, tombstones |-> {}]
        BY <2>1, <3>0 DEF ClusterType
      <4> QED
        BY <2>1, <4>1, TablesAreFinite DEF ClusterType
    <3>2. Surplus(e) = 0
      BY <3>1, TablesAreFinite DEF Surplus
    <3> QED
      BY <3>1, <3>2, TablesAreFinite DEF Shrinks
  <2> HIDE DEF d, e
  <2>4. Shrinks(cluster, e)
    BY <1>1, <2>1, <2>3, ShrinksTwice
  <2> QED
    BY <1>1, <2>1, <2>2, <2>4, BecomesStep
<1> QED
  BY <1>2, <1>3, <1>4, <1>5, <1>6, <1>7

\* Puts, msets and deletes end leases.
LEMMA MutatingSteps ==
    ASSUME IInv, NEW failing
    PROVE  /\ \A k \in Keys : Put(k, failing) => IInv'
           /\ \A S \in SUBSET Keys \ {{}} :
                 /\ MSet(S, failing) => IInv'
                 /\ \A raises \in BOOLEAN :
                       /\ DeleteMany(S, failing, raises) => IInv'
                       /\ InvalidateTags(S, failing, raises) => IInv'
<1>1. /\ cluster \in ClusterType /\ clock \in 0..MaxClock
      /\ readAt \in [Callers -> {NotReading} \cup 0..MaxClock]
      /\ Shrinks(cluster, Detected(cluster)) /\ Detected(cluster) \in ClusterType
  BY DetectedShrinks DEF IInv, Typed, Shrinks
<1>2. ASSUME NEW k \in Keys, Put(k, failing) PROVE IInv'
  <2> DEFINE d == Detected(cluster)
  <2>1. Becomes(IF HasQuorum(d, failing) THEN Stored(d, {k}) ELSE d)
        /\ clock' = clock /\ readAt' = readAt
    BY <1>2 DEF Put
  <2> HIDE DEF d
  <2>2. Shrinks(cluster, d) /\ Shrinks(cluster, Stored(d, {k}))
    BY <1>1, StoredShrinks, ShrinksTwice DEF d
  <2> QED
    BY <1>1, <2>1, <2>2, BecomesStep
<1>3. ASSUME NEW S \in SUBSET Keys \ {{}}, MSet(S, failing) PROVE IInv'
  BY <1>1, <1>3, StoredShrinks, BecomesStep DEF MSet
<1>4. ASSUME NEW S \in SUBSET Keys \ {{}}, NEW raises \in BOOLEAN,
             DeleteMany(S, failing, raises)
      PROVE  IInv'
  <2>1. PICK d \in Collections(Detected(cluster)) :
           Becomes(Transaction(d, S, failing, raises))
    BY <1>4 DEF DeleteMany
  <2>2. Shrinks(cluster, d) /\ d \in ClusterType
    BY <1>1, CollectionsShrink, ShrinksTwice DEF Shrinks
  <2>3. Shrinks(cluster, Transaction(d, S, failing, raises))
    BY <1>1, <2>2, TransactionShrinks, ShrinksTwice
  <2>4. clock' = clock /\ readAt' = readAt
    BY <1>4 DEF DeleteMany
  <2> QED
    BY <1>1, <2>1, <2>3, <2>4, BecomesStep
<1>5. ASSUME NEW S \in SUBSET Keys \ {{}}, NEW raises \in BOOLEAN,
             InvalidateTags(S, failing, raises)
      PROVE  IInv'
  <2>1. PICK c \in Collections(cluster) :
           LET d == Transaction(c, S, failing, raises) IN
           /\ cluster' = d
           /\ history' = [history EXCEPT
                 !.void = history.void \cup (Tokens(cluster) \ Tokens(d))
                          \cup (IF d.term = cluster.term THEN {} ELSE Tokens(cluster)),
                 !.lost = IF d.bytes = 0 THEN 0 ELSE history.lost]
    BY <1>5 DEF InvalidateTags
  <2> DEFINE d == Transaction(c, S, failing, raises)
             V == (Tokens(cluster) \ Tokens(d))
                      \cup (IF d.term = cluster.term THEN {} ELSE Tokens(cluster))
  <2>2. Shrinks(cluster, c) /\ c \in ClusterType
    BY <1>1, CollectionsShrink DEF Shrinks
  <2>3. Shrinks(cluster, d)
    BY <1>1, <2>2, TransactionShrinks, ShrinksTwice
  <2>4. /\ cluster' = d /\ history \in HistoryType /\ history.late = FALSE
        /\ history' = [history EXCEPT !.void = history.void \cup V,
                                     !.lost = IF d.bytes = 0 THEN 0 ELSE history.lost]
    <3>1. history \in HistoryType /\ history.late = FALSE
      BY DEF IInv, Typed, NoLateWrite, HistoryType
    <3>2. history.void \cup V = history.void \cup (Tokens(cluster) \ Tokens(d))
                          \cup (IF d.term = cluster.term THEN {} ELSE Tokens(cluster))
      OBVIOUS
    <3> QED
      BY <2>1, <3>1, <3>2
  <2> HIDE DEF d
  <2>5. /\ V \subseteq Tokens(cluster)
        /\ V \cap Tokens(d) = {} \/ cluster.term < d.term
    BY <1>1, <2>3 DEF Shrinks, ClusterType
  <2> HIDE DEF V
  <2>6. history' = [granted |-> history.granted, void |-> history.void \cup V,
                    lost |-> IF d.bytes = 0 THEN 0 ELSE history.lost, late |-> FALSE]
    BY <2>4 DEF HistoryType
  <2>7. clock' = clock /\ readAt' = readAt
    BY <1>5 DEF InvalidateTags
  <2> QED
    BY <1>1, <2>3, <2>4, <2>5, <2>6, <2>7, ShrinkStep
<1> QED
  BY <1>2, <1>3, <1>4, <1>5

\* A put under a lease, accepted or refused, and a release.  A lease whose fence
\* matches is of this term, and so was not ended before.
LEMMA GuardedSteps ==
    ASSUME IInv, NEW k \in Keys, NEW token \in 1..MaxTokens, NEW failing
    PROVE  /\ PutGuarded(k, token, failing) => IInv'
           /\ PutRefused(k, token, failing) => IInv'
           /\ ReleaseLease(k, token) => IInv'
<1> DEFINE d == Detected(cluster)
<1>1. /\ cluster \in ClusterType /\ clock \in 0..MaxClock
      /\ readAt \in [Callers -> {NotReading} \cup 0..MaxClock]
      /\ Shrinks(cluster, d) /\ d \in ClusterType
  BY DetectedShrinks DEF IInv, Typed, Shrinks
<1>2. ASSUME PutGuarded(k, token, failing) PROVE IInv'
  <2> DEFINE e == Stored(d, {k})
             V == Tokens(cluster) \ Tokens(e)
  <2>1. /\ ValidLease(d, k, token) /\ cluster' = e /\ clock' = clock /\ readAt' = readAt
        /\ history' = [history EXCEPT
              !.late = history.late \/ token \in history.void,
              !.void = history.void \cup V,
              !.lost = IF e.bytes = 0 THEN 0 ELSE history.lost]
    BY <1>2 DEF PutGuarded
  <2> HIDE DEF d
  <2>2. Shrinks(cluster, e)
    BY <1>1, StoredShrinks, ShrinksTwice
  <2>3. token \notin history.void
    <3>1. /\ k \in DOMAIN cluster.leases /\ cluster.leases[k].token = token
          /\ cluster.leases[k].fence.term = d.term
      BY <1>1, <2>1 DEF ValidLease, Matches, Shrinks, Fence
    <3>2. cluster.leases[k].fence.term >= cluster.term /\ cluster.leases[k].fence.term \in Nat
          /\ cluster.term \in Nat
      BY <1>1, <3>1 DEF Shrinks, ClusterType
    <3> QED
      BY <3>1, <3>2 DEF IInv, EndedLeasesAreOld
  <2>4. history \in HistoryType /\ history.late = FALSE
    BY DEF IInv, Typed, NoLateWrite, HistoryType
  <2>5. V \subseteq Tokens(cluster) /\ V \cap Tokens(e) = {}
    OBVIOUS
  <2> HIDE DEF V, e
  <2>6. history' = [granted |-> history.granted, void |-> history.void \cup V,
                    lost |-> IF e.bytes = 0 THEN 0 ELSE history.lost, late |-> FALSE]
    <3>1. (history.late \/ token \in history.void) = FALSE
      BY <2>3, <2>4
    <3> QED
      BY <2>1, <2>4, <3>1 DEF HistoryType
  <2> QED
    BY <1>1, <2>1, <2>2, <2>5, <2>6, ShrinkStep
<1>3. ASSUME PutRefused(k, token, failing) PROVE IInv'
  <2>1. /\ Becomes(RemoveLeases(d, {k} \cap Expired(d, clock)))
        /\ clock' = clock /\ readAt' = readAt
    BY <1>3 DEF PutRefused
  <2> HIDE DEF d
  <2>2. Shrinks(cluster, RemoveLeases(d, {k} \cap Expired(d, clock)))
    BY <1>1, RemoveShrinks, ShrinksTwice
  <2> QED
    BY <1>1, <2>1, <2>2, BecomesStep
<1>4. ASSUME ReleaseLease(k, token) PROVE IInv'
  BY <1>1, <1>4, RemoveShrinks, BecomesStep DEF ReleaseLease
<1> QED
  BY <1>2, <1>3, <1>4

\* A renewal changes how long a lease holds and nothing else.
LEMMA RenewStep ==
    ASSUME IInv, NEW t \in Callers, NEW k \in Keys, NEW token \in 1..MaxTokens,
           RenewLease(t, k, token)
    PROVE  IInv'
<1> DEFINE now == readAt[t]
           d == [cluster EXCEPT !.leases[k].until = now + LeaseSeconds]
<1>1. /\ cluster \in ClusterType /\ clock' \in 0..MaxClock /\ now \in 0..MaxClock
      /\ readAt' \in [Callers -> {NotReading} \cup 0..MaxClock]
  BY ClocksStay DEF IInv, Typed, RenewLease
<1>2. CASE Becomes(RemoveLeases(cluster, {k}))
  BY <1>1, <1>2, RemoveShrinks, BecomesStep
<1>3. CASE Matches(cluster, k, token) /\ Becomes(d)
  <2> DEFINE lease == [cluster.leases[k] EXCEPT !.until = now + LeaseSeconds]
             table == [cluster.leases EXCEPT ![k] = lease]
             D == DOMAIN cluster.leases
  <2>1. /\ D \in SUBSET Keys /\ cluster.leases \in [D -> LeaseType] /\ k \in D
    BY <1>1, <1>3 DEF ClusterType, LeaseTables, Matches
  <2>2. now + LeaseSeconds \in 0..MaxClock + LeaseSeconds
    BY <1>1, LimitsArePositive
  <2>3. /\ lease \in LeaseType /\ lease.token = cluster.leases[k].token
        /\ lease.fence = cluster.leases[k].fence
    <3> HIDE DEF now
    <3> QED
      BY <2>1, <2>2 DEF LeaseType
  <2>4. d = [cluster EXCEPT !.leases = table]
    BY <1>1 DEF ClusterType
  <2> HIDE DEF lease, d
  <2>5. /\ table \in [D -> LeaseType] /\ table \in LeaseTables /\ DOMAIN table = D
        /\ \A x \in D : /\ table[x].token = cluster.leases[x].token
                        /\ table[x].fence = cluster.leases[x].fence
    BY <2>1, <2>3 DEF LeaseTables
  <2> HIDE DEF table
  <2>6. /\ d \in ClusterType /\ d.leases = table /\ d.bytes = cluster.bytes
        /\ d.term = cluster.term
    BY <1>1, <2>4, <2>5 DEF ClusterType
  <2>7. Tokens(d) = Tokens(cluster)
    BY <2>5, <2>6 DEF Tokens
  <2>8. history' = history
    <3>1. history \in HistoryType /\ history.void \cup (Tokens(cluster) \ Tokens(d)) = history.void
      BY <2>7 DEF IInv, Typed
    <3>2. (IF d.bytes = 0 THEN 0 ELSE history.lost) = history.lost
      <4>1. /\ Cardinality(D) \in Nat /\ history.lost \in Nat
            /\ cluster.bytes = Cardinality(D) + history.lost
        BY <1>1, <3>1, TablesAreFinite DEF ClusterType, HistoryType, IInv, BytesCounted
      <4> HIDE DEF D
      <4> QED
        BY <2>6, <4>1
    <3> QED
      BY <1>3, <3>1, <3>2 DEF Becomes, HistoryType
  <2>9. cluster' = d
    BY <1>3 DEF Becomes
  <2>10. Typed'
    BY <1>1, <2>6, <2>8, <2>9 DEF IInv, Typed
  <2>11. TokensAreGranted' /\ EndedLeasesAreOld'
    BY <2>5, <2>6, <2>8, <2>9 DEF IInv, TokensAreGranted, EndedLeasesAreOld
  <2>12. BytesCounted' /\ NoLateWrite'
    BY <2>5, <2>6, <2>8, <2>9 DEF IInv, BytesCounted, NoLateWrite
  <2> QED
    BY <2>10, <2>11, <2>12 DEF IInv
<1>4. CASE UNCHANGED <<cluster, history>>
  BY <1>1, <1>4, QuietStep
<1> QED
  BY <1>2, <1>3, <1>4 DEF RenewLease

\* What acquire_lease has looked at, and dropped, when it decides.
LEMMA ReadsShrink ==
    ASSUME NEW now, NEW k, cluster \in ClusterType, NEW d \in Reads(Prepared(now), k)
    PROVE  Shrinks(cluster, d)
<1> DEFINE c == Detected(cluster)
<1>1. Shrinks(cluster, c) /\ c \in ClusterType
  BY DetectedShrinks DEF Shrinks
<1>2. Prepared(now) = RemoveLeases(c, Expired(c, now))
  BY DEF Prepared
<1> HIDE DEF c
<1>3. Shrinks(cluster, Prepared(now)) /\ Prepared(now) \in ClusterType
  BY <1>1, <1>2, RemoveShrinks, ShrinksTwice DEF Shrinks
<1>4. d = Prepared(now) \/ d \in Collections(Prepared(now))
  BY DEF Reads
<1> QED
  BY <1>3, <1>4, CollectionsShrink, ShrinksTwice

\* An acquisition that grants nothing.
LEMMA AcquireNothingStep ==
    ASSUME IInv, NEW t \in Callers, NEW k \in Keys, AcquireNothing(t, k)
    PROVE  IInv'
<1>1. /\ cluster \in ClusterType /\ clock' \in 0..MaxClock
      /\ readAt' \in [Callers -> {NotReading} \cup 0..MaxClock]
  BY ClocksStay DEF IInv, Typed, AcquireNothing
<1>2. PICK d \in Reads(Prepared(readAt[t]), k) : Becomes(d)
  BY DEF AcquireNothing
<1> QED
  BY <1>1, <1>2, ReadsShrink, BecomesStep

\* A lease is granted: its token is new, and one more byte is counted.
LEMMA AcquireStep ==
    ASSUME IInv, NEW t \in Callers, NEW k \in Keys, AcquireLease(t, k)
    PROVE  IInv'
<1> DEFINE token == history.granted + 1
<1>1. /\ cluster \in ClusterType /\ clock' \in 0..MaxClock /\ readAt[t] \in 0..MaxClock
      /\ readAt' \in [Callers -> {NotReading} \cup 0..MaxClock]
      /\ history \in HistoryType /\ history.late = FALSE
  BY ClocksStay DEF IInv, Typed, AcquireLease, NoLateWrite, HistoryType
<1>2. PICK d \in Reads(Prepared(readAt[t]), k) :
         /\ LeaseCapacity(d)
         /\ LET lease == [token |-> token, until |-> readAt[t] + LeaseSeconds,
                          fence |-> Fence(d)]
                table == [x \in DOMAIN d.leases \cup {k} |->
                             IF x = k THEN lease ELSE d.leases[x]]
            IN /\ cluster' = [d EXCEPT !.leases = table, !.bytes = d.bytes + 1]
               /\ history' = [history EXCEPT
                     !.granted = token,
                     !.void = history.void \cup (Tokens(cluster) \ Tokens(cluster')),
                     !.lost = (IF d.bytes = 0 THEN 0 ELSE history.lost)
                              + (IF k \in DOMAIN d.leases THEN 1 ELSE 0)]
  BY DEF AcquireLease
<1> DEFINE D == DOMAIN d.leases
           until == readAt[t] + LeaseSeconds
           lease == [token |-> token, until |-> until, fence |-> Fence(d)]
           table == [x \in D \cup {k} |-> IF x = k THEN lease ELSE d.leases[x]]
           bytes == d.bytes + 1
           V == Tokens(cluster) \ Tokens(cluster')
           lost == (IF d.bytes = 0 THEN 0 ELSE history.lost) + (IF k \in D THEN 1 ELSE 0)
<1>3. /\ cluster' = [d EXCEPT !.leases = table, !.bytes = bytes]
      /\ history' = [history EXCEPT !.granted = token, !.void = history.void \cup V,
                                   !.lost = lost]
      /\ Shrinks(cluster, d)
  BY <1>1, <1>2, ReadsShrink
<1>4. /\ d \in ClusterType /\ D \in SUBSET Keys /\ d.leases \in [D -> LeaseType]
      /\ D \subseteq DOMAIN cluster.leases /\ \A x \in D : d.leases[x] = cluster.leases[x]
      /\ d.term \in Nat \ {0} /\ cluster.term \in Nat \ {0} /\ d.term >= cluster.term
      /\ d.bytes \in Int /\ cluster.bytes \in Int /\ d.leader \in Nodes
  BY <1>1, <1>3 DEF Shrinks, ClusterType, LeaseTables
<1>5. /\ token \in 1..MaxTokens /\ token = history.granted + 1 /\ history.granted \in Nat
      /\ history.granted < MaxTokens /\ MaxTokens \in Nat /\ history.lost \in Nat
      /\ history.void \in SUBSET Nat
  BY <1>1, LimitsArePositive DEF AcquireLease, HistoryType
<1> HIDE DEF token
<1>6. lease \in LeaseType /\ lease.token = token /\ lease.fence.term = d.term
  <2>1. until \in 0..MaxClock + LeaseSeconds
    BY <1>1, LimitsArePositive
  <2> HIDE DEF until
  <2> QED
    BY <1>4, <1>5, <2>1 DEF LeaseType, Fence
<1> HIDE DEF lease
<1>7. /\ table \in [D \cup {k} -> LeaseType] /\ table \in LeaseTables
      /\ DOMAIN table = D \cup {k} /\ table[k] = lease
      /\ \A x \in D \ {k} : table[x] = d.leases[x]
  <2>1. table \in [D \cup {k} -> LeaseType] /\ D \cup {k} \in SUBSET Keys
    BY <1>4, <1>6
  <2> QED
    BY <1>6, <2>1 DEF LeaseTables
<1> HIDE DEF table
<1>8. bytes \in Int
  BY <1>4
<1>9. /\ cluster' \in ClusterType /\ cluster'.leases = table /\ cluster'.bytes = bytes
      /\ cluster'.term = d.term
  <2> HIDE DEF bytes
  <2>1. cluster' = [status |-> d.status, late |-> d.late, leader |-> d.leader,
                    term |-> d.term, leases |-> table, bytes |-> bytes,
                    tombstones |-> d.tombstones]
    BY <1>3, <1>4 DEF ClusterType
  <2> QED
    BY <1>4, <1>7, <1>8, <2>1 DEF ClusterType
<1>10. lost \in Nat
  BY <1>5
<1>11. V \subseteq 1..history.granted /\ history.void \subseteq 1..history.granted
  BY DEF IInv, TokensAreGranted, Tokens
<1>12. V \cap Tokens(cluster') = {}
  OBVIOUS
<1> HIDE DEF V, lost
<1>13. /\ history' \in HistoryType /\ history'.granted = token /\ history'.lost = lost
       /\ history'.void = history.void \cup V /\ history'.late = FALSE
  <2>1. V \subseteq Nat
    BY <1>5, <1>11
  <2>2. history.void \cup V \in SUBSET Nat
    BY <1>5, <2>1
  <2>3. history' = [granted |-> token, void |-> history.void \cup V, lost |-> lost,
                    late |-> FALSE]
    BY <1>1, <1>3 DEF HistoryType
  <2> QED
    BY <1>5, <1>10, <2>2, <2>3 DEF HistoryType
<1>14. Typed'
  BY <1>1, <1>9, <1>13 DEF Typed
<1>15. \A x \in D : /\ d.leases[x].token \in 1..history.granted
                    /\ d.leases[x].fence.term \in Nat
                    /\ d.leases[x].fence.term <= cluster.term
  BY <1>4 DEF IInv, TokensAreGranted, LeaseType
<1>16. TokensAreGranted'
  <2>1. ASSUME NEW x \in history.void \cup V
        PROVE  x \in 1..token
    <3>1. x \in 1..history.granted
      BY <1>11
    <3> QED
      BY <1>5, <3>1
  <2>2. ASSUME NEW x \in D \cup {k}
        PROVE  table[x].token \in 1..token /\ table[x].fence.term <= d.term
    <3>1. CASE x = k
      BY <1>4, <1>5, <1>6, <1>7, <3>1
    <3>2. CASE x # k
      <4>1. /\ table[x] = d.leases[x] /\ d.leases[x].token \in 1..history.granted
            /\ d.leases[x].fence.term \in Nat /\ d.leases[x].fence.term <= cluster.term
        BY <1>7, <1>15, <3>2
      <4> QED
        BY <1>4, <1>5, <4>1
    <3> QED
      BY <3>1, <3>2
  <2> QED
    BY <1>7, <1>9, <1>13, <2>1, <2>2 DEF TokensAreGranted
<1>17. EndedLeasesAreOld'
  <2>1. ASSUME NEW x \in D \cup {k}, table[x].token \in history.void \cup V
        PROVE  table[x].fence.term < d.term
    <3>1. x # k
      BY <1>5, <1>6, <1>7, <1>11, <2>1
    <3>2. table[x] = d.leases[x] /\ d.leases[x] = cluster.leases[x]
          /\ x \in DOMAIN cluster.leases /\ table[x].fence.term \in Nat
      BY <1>4, <1>7, <1>15, <3>1
    <3>3. table[x].token \in Tokens(cluster')
      BY <1>7, <1>9 DEF Tokens
    <3>4. cluster.leases[x].token \in history.void
      BY <1>12, <2>1, <3>2, <3>3
    <3>5. cluster.leases[x].fence.term < cluster.term
      BY <3>2, <3>4 DEF IInv, EndedLeasesAreOld
    <3> QED
      BY <1>4, <3>2, <3>5
  <2> QED
    BY <1>7, <1>9, <1>13, <2>1 DEF EndedLeasesAreOld
<1>18. BytesCounted'
  <2>1. /\ Cardinality(D) \in Nat /\ IsFiniteSet(D) /\ MaxLeaseBytes \in Nat
        /\ Cardinality(DOMAIN cluster.leases) \in Nat /\ d.bytes < MaxLeaseBytes
    BY <1>1, <1>2, <1>4, TablesAreFinite, LimitsArePositive DEF ClusterType, LeaseCapacity
  <2>2. d.bytes = Cardinality(D) + (IF d.bytes = 0 THEN 0 ELSE history.lost)
    <3>1. cluster.bytes = Cardinality(DOMAIN cluster.leases) + history.lost
      BY DEF IInv, BytesCounted
    <3>2. CASE Surplus(d) = Surplus(cluster)
      BY <1>4, <1>5, <2>1, <3>1, <3>2 DEF Surplus
    <3>3. CASE d.bytes = 0 /\ Surplus(d) = 0
      BY <1>4, <2>1, <3>3 DEF Surplus
    <3> QED
      BY <1>3, <3>2, <3>3 DEF Shrinks
  <2>3. Cardinality(D \cup {k}) = Cardinality(D) + (IF k \in D THEN 0 ELSE 1)
    <3> HIDE DEF D
    <3>1. CASE k \in D
      <4>1. D \cup {k} = D
        BY <3>1
      <4> QED
        BY <2>1, <3>1, <4>1
    <3>2. CASE k \notin D
      BY <2>1, <3>2, FS_AddElement
    <3> QED
      BY <3>1, <3>2
  <2> HIDE DEF D
  <2>4. bytes = Cardinality(D \cup {k}) + lost
    BY <1>4, <1>5, <2>1, <2>2, <2>3 DEF lost
  <2>5. bytes <= MaxLeaseBytes
    BY <1>4, <2>1
  <2> HIDE DEF bytes
  <2>6. DOMAIN cluster'.leases = D \cup {k}
    BY <1>7, <1>9
  <2> QED
    BY <1>9, <1>13, <2>4, <2>5, <2>6 DEF BytesCounted
<1>19. NoLateWrite'
  BY <1>13 DEF NoLateWrite
<1> QED
  BY <1>14, <1>16, <1>17, <1>18, <1>19 DEF IInv

----------------------------------------------------------------------------
(* Theorems *)

\* A cluster starts with an empty table and its first node as the leader.
LEMMA InitEstablishes == Init => IInv
<1> SUFFICES ASSUME Init PROVE IInv
  OBVIOUS
<1>1. Min(Nodes) \in Nodes
  BY FirstNode, NodesAreNumbers
<1>2. cluster \in ClusterType /\ cluster.leases = NoLease /\ cluster.bytes = 0
  BY <1>1, TablesAreFinite DEF Init, ClusterType
<1>3. /\ history \in HistoryType /\ history.lost = 0 /\ history.void = {}
      /\ history.late = FALSE
  BY LimitsArePositive DEF Init, HistoryType
<1>4. Typed
  BY <1>2, <1>3, LimitsArePositive DEF Init, Typed
<1>5. TokensAreGranted /\ EndedLeasesAreOld /\ NoLateWrite
  BY <1>2, <1>3, TablesAreFinite DEF TokensAreGranted, EndedLeasesAreOld, NoLateWrite
<1>6. BytesCounted
  BY <1>2, <1>3, TablesAreFinite, LimitsArePositive DEF BytesCounted
<1> QED
  BY <1>4, <1>5, <1>6 DEF IInv

\* Tokens are granted once, a lease that was ended and is still in the table is of
\* a term that is over, and bytes count the table: every method of the coordinator
\* keeps all of it.
THEOREM LeaseInvariant == Spec => []IInv
<1>1. IInv /\ [Next]_vars => IInv'
  <2> SUFFICES ASSUME IInv, [Next]_vars PROVE IInv'
    OBVIOUS
  <2>1. CASE Tick \/ UNCHANGED vars
    BY <2>1, ClockSteps
  <2>2. PICK n : n \in Nodes
    BY NodesAreNumbers
  <2>3. CASE Membership \/ Flush \/ Stats
    BY <2>2, <2>3, MembershipSteps DEF Membership
  <2>4. CASE Acquiring
    BY <2>4, ClockSteps, AcquireStep, AcquireNothingStep DEF Acquiring
  <2>5. CASE Leasing
    BY <2>5, GuardedSteps, RenewStep DEF Leasing
  <2>6. CASE Mutating
    BY <2>6, MutatingSteps DEF Mutating
  <2> QED
    BY <2>1, <2>3, <2>4, <2>5, <2>6 DEF Next
<1> QED
  BY <1>1, InitEstablishes, PTL DEF Spec

\* put never accepts a token whose lease an election, a write, a delete, a flush or
\* a release has ended, whatever a failed transaction put back into the table.
THEOREM GuardedWritesAreNotLate == Spec => []NoLateWrite
<1>1. IInv => NoLateWrite
  BY DEF IInv
<1> QED
  BY <1>1, LeaseInvariant, PTL

\* The byte count is that of the table and of the leases acquire_lease wrote over,
\* and keeps to its limit.
THEOREM LeaseBytesAreCounted == Spec => []LeasesCounted
<1>1. IInv => LeasesCounted
  <2> SUFFICES ASSUME IInv PROVE LeasesCounted
    OBVIOUS
  <2>1. cluster \in ClusterType /\ DOMAIN cluster.leases \subseteq Keys
    BY TablesAreFinite DEF IInv, Typed, ClusterType
  <2>2. ASSUME NEW k \in DOMAIN cluster.leases
        PROVE  cluster.leases[k] \in [token : 1..MaxTokens, until : 0..MaxClock + LeaseSeconds,
                                      fence : [term : 1..cluster.term, leader : Nodes]]
    <3> DEFINE lease == cluster.leases[k]
    <3>1. lease \in LeaseType /\ lease.fence.term <= cluster.term /\ cluster.term \in Nat
      BY <2>1 DEF ClusterType, LeaseTables, IInv, TokensAreGranted
    <3> HIDE DEF lease
    <3>2. lease.fence.term \in 1..cluster.term
      BY <3>1 DEF LeaseType
    <3>3. lease.fence \in [term : 1..cluster.term, leader : Nodes]
      BY <3>1, <3>2 DEF LeaseType
    <3>4. lease \in [token : 1..MaxTokens, until : 0..MaxClock + LeaseSeconds,
                     fence : [term : 1..cluster.term, leader : Nodes]]
      BY <3>1, <3>3 DEF LeaseType
    <3> QED
      BY <3>4 DEF lease
  <2>3. TypeOK
    BY <2>1, <2>2 DEF TypeOK, ClusterType, IInv, Typed
  <2> QED
    BY <2>3 DEF LeasesCounted, IInv, BytesCounted
<1> QED
  BY <1>1, LeaseInvariant, PTL
=============================================================================
