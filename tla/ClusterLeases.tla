--------------------------- MODULE ClusterLeases ---------------------------
(* Leadership, fences and refresh leases of the cluster coordinator            *)
(* (src/src/megacache/cluster.py).                                             *)
(*                                                                             *)
(* A refresh lease belongs to the leadership term it was granted in: an        *)
(* election ends every lease.  One lock guards every method, so a method is    *)
(* one action; acquire_lease and renew_lease read the clock before they ask    *)
(* for the lock and are two.  Replicas and versions are the subject of         *)
(* ClusterStorage: here a read or a write only meets its quorum or not, and    *)
(* every node owns every key of a fixed ring.                                  *)
EXTENDS Integers, FiniteSets, FiniteSetsExt, Functions

CONSTANTS
    Nodes,          \* node identifiers, integers: the first in order is elected
    Keys,
    Callers,        \* threads that acquire and renew
    FailingNodes,   \* nodes whose storage may raise
    LeaseSeconds,
    MaxLeases,
    MaxLeaseBytes,  \* in leases: all have the same size here
    MaxTokens,      \* bounds of the instance
    MaxClock,
    MaxFaults

ASSUME NodesAreNumbers == Nodes \subseteq Nat /\ Nodes # {} /\ IsFiniteSet(Nodes)
ASSUME KeysAreFinite == IsFiniteSet(Keys)
ASSUME LimitsArePositive ==
    {LeaseSeconds, MaxLeases, MaxLeaseBytes, MaxTokens, MaxClock, MaxFaults} \subseteq Nat \ {0}

VARIABLES
    cluster,  \* status, late, leader, term, leases, bytes, tombstones
    clock,
    readAt,   \* what the clock said when a caller read it, or NotReading
    faults,
    history   \* tokens granted so far, those whose lease was ended, bytes of
              \* leases overwritten in the table, and a guarded put that came late

vars == <<cluster, clock, readAt, faults, history>>

NotReading == -1

NoLease == [k \in {} |-> 0]

Majority == Cardinality(Nodes) \div 2 + 1

----------------------------------------------------------------------------
(* Failure detection and leadership *)

\* late: the last heartbeat is older than the timeout.
Healthy(c, n) == c.status[n] = "active" /\ n \notin c.late

HealthyNodes(c) == {n \in Nodes : Healthy(c, n)}

Fence(c) == [term |-> c.term, leader |-> c.leader]

\* A leader that is no candidate ends its term, and every lease with it; without
\* a candidate it keeps its name.
Elected(c) ==
    LET candidates == HealthyNodes(c) IN
    IF c.leader \in candidates THEN c
    ELSE [c EXCEPT !.term = c.term + 1, !.leases = NoLease, !.bytes = 0,
                   !.leader = IF candidates = {} THEN c.leader ELSE Min(candidates)]

Detected(c) ==
    LET failed == {n \in c.late : c.status[n] = "active"} IN
    IF failed = {} THEN c
    ELSE Elected([c EXCEPT !.status = [n \in Nodes |->
                               IF n \in failed THEN "down" ELSE c.status[n]]])

HasQuorum(c, failing) == Cardinality(HealthyNodes(c) \ failing) >= Majority

----------------------------------------------------------------------------
(* The lease table *)

\* _remove_lease_locked, for several keys
RemoveLeases(c, S) ==
    LET removed == S \cap DOMAIN c.leases IN
    [c EXCEPT !.leases = Restrict(c.leases, DOMAIN c.leases \ S),
              !.bytes = c.bytes - Cardinality(removed)]

Expired(c, now) == {k \in DOMAIN c.leases : c.leases[k].until <= now}

\* Collecting tombstones drops the leases of their keys, whoever holds them.  All
\* owners are healthy and have the tombstone.
Collections(c) ==
    IF HealthyNodes(c) # Nodes THEN {c}
    ELSE {[RemoveLeases(c, S) EXCEPT !.tombstones = c.tombstones \ S] :
              S \in SUBSET c.tombstones}

Tokens(c) == {c.leases[k].token : k \in DOMAIN c.leases}

\* What a method leaves behind: a lease that has gone from the table is void.
Becomes(d) ==
    /\ cluster' = d
    /\ history' = [history EXCEPT !.void = history.void \cup (Tokens(cluster) \ Tokens(d)),
                                  !.lost = IF d.bytes = 0 THEN 0 ELSE history.lost]

----------------------------------------------------------------------------
(* Nodes *)

Init ==
    /\ cluster = [status |-> [n \in Nodes |-> "active"], late |-> {},
                  leader |-> Min(Nodes), term |-> 1,
                  leases |-> NoLease, bytes |-> 0, tombstones |-> {}]
    /\ clock = 0 /\ faults = 0
    /\ readAt = [t \in Callers |-> NotReading]
    /\ history = [granted |-> 0, void |-> {}, lost |-> 0, late |-> FALSE]

Tick ==
    /\ clock < MaxClock /\ clock' = clock + 1
    /\ UNCHANGED <<cluster, readAt, faults, history>>

ReadClock(t) ==
    /\ readAt[t] = NotReading
    /\ readAt' = [readAt EXCEPT ![t] = clock]
    /\ UNCHANGED <<cluster, clock, faults, history>>

\* A node's heartbeats stop arriving.
BecomeLate(n) ==
    /\ faults < MaxFaults /\ faults' = faults + 1
    /\ n \notin cluster.late
    /\ cluster' = [cluster EXCEPT !.late = cluster.late \cup {n}]
    /\ UNCHANGED <<clock, readAt, history>>

MarkNodeDown(n) ==
    /\ faults < MaxFaults /\ faults' = faults + 1
    /\ Becomes(Elected([cluster EXCEPT !.status[n] = "down"]))
    /\ UNCHANGED <<clock, readAt>>

Alive(n) == [cluster EXCEPT !.late = cluster.late \ {n}, !.status[n] = "active"]

\* Mutant: a node that comes back does not stand for election.
HeartbeatUnelected(n) ==
    /\ \E d \in Collections(Alive(n)) : Becomes(d)
    /\ UNCHANGED <<clock, readAt, faults>>

\* heartbeat of a ring member
Heartbeat(n) ==
    /\ \E d \in Collections(Elected(Alive(n))) : Becomes(d)
    /\ UNCHANGED <<clock, readAt, faults>>

\* detect_failures and leadership
DetectFailures ==
    /\ Becomes(Detected(cluster))
    /\ UNCHANGED <<clock, readAt, faults>>

\* stats purges by the present time
Stats ==
    /\ Becomes(RemoveLeases(cluster, Expired(cluster, clock)))
    /\ UNCHANGED <<clock, readAt, faults>>

----------------------------------------------------------------------------
(* Leases *)

\* get detects failures, and the collection that follows its repairs may drop
\* the lease of the key it reads.
Reads(c, k) == IF HasQuorum(c, {})
                 THEN {d \in Collections(c) : c.tombstones \ d.tombstones \subseteq {k}}
                 ELSE {c}

InForce(c, k, now) ==
    /\ k \in DOMAIN c.leases /\ c.leases[k].until > now
    /\ c.leases[k].fence = Fence(c)

LeaseCapacity(c) ==
    Cardinality(DOMAIN c.leases) < MaxLeases /\ c.bytes < MaxLeaseBytes

Prepared(now) == LET d == Detected(cluster) IN RemoveLeases(d, Expired(d, now))

\* A new lease, written over one of an ended term if the table has such a one,
\* whose bytes then stay counted.
AcquireLease(t, k) ==
    /\ readAt[t] # NotReading /\ readAt' = [readAt EXCEPT ![t] = NotReading]
    /\ history.granted < MaxTokens
    /\ \E d \in Reads(Prepared(readAt[t]), k) :
         /\ HasQuorum(d, {}) /\ ~InForce(d, k, readAt[t]) /\ LeaseCapacity(d)
         /\ LET token == history.granted + 1
                lease == [token |-> token, until |-> readAt[t] + LeaseSeconds,
                          fence |-> Fence(d)]
                table == [x \in DOMAIN d.leases \cup {k} |->
                             IF x = k THEN lease ELSE d.leases[x]]
            IN /\ cluster' = [d EXCEPT !.leases = table, !.bytes = d.bytes + 1]
               /\ history' = [history EXCEPT
                     !.granted = token,
                     !.void = history.void \cup (Tokens(cluster) \ Tokens(cluster')),
                     !.lost = (IF d.bytes = 0 THEN 0 ELSE history.lost)
                              + (IF k \in DOMAIN d.leases THEN 1 ELSE 0)]
    /\ UNCHANGED <<clock, faults>>

\* acquire_lease without a lease: the value is fresh, another caller has one, the
\* quorum or the capacity is missing.
AcquireNothing(t, k) ==
    /\ readAt[t] # NotReading /\ readAt' = [readAt EXCEPT ![t] = NotReading]
    /\ \E d \in Reads(Prepared(readAt[t]), k) : Becomes(d)
    /\ UNCHANGED <<clock, faults>>

Matches(c, k, token) == k \in DOMAIN c.leases /\ c.leases[k].token = token

\* release_lease does not ask for the fence.
ReleaseLease(k, token) ==
    /\ Matches(cluster, k, token)
    /\ Becomes(RemoveLeases(cluster, {k}))
    /\ UNCHANGED <<clock, readAt, faults>>

\* An expired lease is dropped; another caller's returns false, one of an ended term
\* raises.
RenewLease(t, k, token) ==
    LET now == readAt[t] IN
    /\ now # NotReading /\ readAt' = [readAt EXCEPT ![t] = NotReading]
    /\ \/ k \in Expired(cluster, now) /\ Becomes(RemoveLeases(cluster, {k}))
       \/ /\ k \notin Expired(cluster, now)
          /\ Matches(cluster, k, token) /\ cluster.leases[k].fence = Fence(cluster)
          /\ Becomes([cluster EXCEPT !.leases[k].until = now + LeaseSeconds])
       \/ k \notin Expired(cluster, now) /\ UNCHANGED <<cluster, history>>
    /\ UNCHANGED <<clock, faults>>

----------------------------------------------------------------------------
(* Writes and deletes *)

Stored(c, S) == [RemoveLeases(c, S) EXCEPT !.tombstones = c.tombstones \ S]

\* Mutant: the lease's fence is not compared.
ValidLeaseOfAnyTerm(c, k, token) ==
    Matches(c, k, token) /\ c.leases[k].until > clock

\* _validate_lease_locked
ValidLease(c, k, token) ==
    /\ Matches(c, k, token) /\ c.leases[k].until > clock
    /\ c.leases[k].fence = Fence(c)

\* put with a lease's token: the write ends the lease.
PutGuarded(k, token, failing) ==
    LET d == Detected(cluster) IN
    /\ ValidLease(d, k, token) /\ HasQuorum(d, failing)
    /\ cluster' = Stored(d, {k})
    /\ history' = [history EXCEPT
          !.late = history.late \/ token \in history.void,
          !.void = history.void \cup (Tokens(cluster) \ Tokens(cluster')),
          !.lost = IF cluster'.bytes = 0 THEN 0 ELSE history.lost]
    /\ UNCHANGED <<clock, readAt, faults>>

\* A refused one drops a lease that has expired.
PutRefused(k, token, failing) ==
    LET d == Detected(cluster) IN
    /\ ~ValidLease(d, k, token) \/ ~HasQuorum(d, failing)
    /\ Becomes(RemoveLeases(d, {k} \cap Expired(d, clock)))
    /\ UNCHANGED <<clock, readAt, faults>>

\* put without a token; get_or_load stores this way, too.
Put(k, failing) ==
    LET d == Detected(cluster) IN
    /\ Becomes(IF HasQuorum(d, failing) THEN Stored(d, {k}) ELSE d)
    /\ UNCHANGED <<clock, readAt, faults>>

\* mset detects no failure; a failed one puts the leases back as they are.
MSet(S, failing) ==
    /\ HasQuorum(cluster, failing)
    /\ Becomes(Stored(cluster, S))
    /\ UNCHANGED <<clock, readAt, faults>>

\* The delete transaction's reads detect failures; when it succeeds, the keys lose
\* their leases and keep tombstones unless all owners took them.
Buried(c, S, failing) ==
    [RemoveLeases(c, S) EXCEPT !.tombstones =
        IF HealthyNodes(c) = Nodes /\ failing = {} THEN c.tombstones \ S
                                                   ELSE c.tombstones \cup S]

\* Mutant: the count of bytes is not put back.
UndoneLeavingBytes(c, saved) == [c EXCEPT !.leases = saved.leases]

\* When it fails, the table is put back as it was saved, also if the reads ended
\* the term of its leases.
Undone(c, saved) == [c EXCEPT !.leases = saved.leases, !.bytes = saved.bytes]

\* A transaction begun in c that raises in between: a storage, or the limit on
\* tombstones.
Transaction(c, S, failing, raises) ==
    LET d == Detected(c) IN
    IF raises \/ ~HasQuorum(d, failing) THEN Undone(d, c) ELSE Buried(d, S, failing)

\* delete and delete_many detect failures first, invalidate_tags does not.
DeleteMany(S, failing, raises) ==
    LET c == Detected(cluster) IN
    /\ HasQuorum(c, {})
    /\ \E d \in Collections(c) : Becomes(Transaction(d, S, failing, raises))
    /\ UNCHANGED <<clock, readAt, faults>>

\* The history is kept by hand: the saved leases come back, those of an ended term
\* are void all the same.
InvalidateTags(S, failing, raises) ==
    /\ HasQuorum(cluster, {})
    /\ \E c \in Collections(cluster) :
         LET d == Transaction(c, S, failing, raises) IN
         /\ cluster' = d
         /\ history' = [history EXCEPT
               !.void = history.void \cup (Tokens(cluster) \ Tokens(d))
                        \cup (IF d.term = cluster.term THEN {} ELSE Tokens(cluster)),
               !.lost = IF d.bytes = 0 THEN 0 ELSE history.lost]
    /\ UNCHANGED <<clock, readAt, faults>>

\* flush needs every ring member.
Flush ==
    LET d == Detected(cluster) IN
    /\ Becomes(IF HealthyNodes(d) = Nodes
                 THEN [d EXCEPT !.leases = NoLease, !.bytes = 0, !.tombstones = {}] ELSE d)
    /\ UNCHANGED <<clock, readAt, faults>>

----------------------------------------------------------------------------

Membership == \/ \E n \in Nodes : BecomeLate(n) \/ MarkNodeDown(n) \/ Heartbeat(n)
              \/ DetectFailures

Leasing == \E k \in Keys, token \in 1..MaxTokens :
    \/ \E t \in Callers : RenewLease(t, k, token)
    \/ ReleaseLease(k, token)
    \/ \E failing \in SUBSET FailingNodes :
          PutGuarded(k, token, failing) \/ PutRefused(k, token, failing)

Acquiring == \E t \in Callers :
    ReadClock(t) \/ \E k \in Keys : AcquireLease(t, k) \/ AcquireNothing(t, k)

Mutating == \E failing \in SUBSET FailingNodes :
    \/ \E k \in Keys : Put(k, failing)
    \/ \E S \in SUBSET Keys \ {{}} :
          \/ MSet(S, failing)
          \/ \E raises \in BOOLEAN :
                DeleteMany(S, failing, raises) \/ InvalidateTags(S, failing, raises)

Next == Tick \/ Membership \/ Acquiring \/ Leasing \/ Mutating \/ Flush \/ Stats

\* Nodes that are healthy go on sending heartbeats.
Beating == \E n \in Nodes : Healthy(cluster, n) /\ Heartbeat(n)

Spec == Init /\ [][Next]_vars /\ WF_vars(Beating)

----------------------------------------------------------------------------
(* Properties *)

\* Every part of the state has its type.
TypeOK ==
    /\ cluster.status \in [Nodes -> {"active", "down"}]
    /\ cluster.late \subseteq Nodes /\ cluster.leader \in Nodes /\ cluster.term \in Nat \ {0}
    /\ cluster.tombstones \subseteq Keys
    /\ DOMAIN cluster.leases \subseteq Keys
    /\ \A k \in DOMAIN cluster.leases :
          cluster.leases[k] \in [token : 1..MaxTokens, until : 0..MaxClock + LeaseSeconds,
                                 fence : [term : 1..cluster.term, leader : Nodes]]
    /\ readAt \in [Callers -> {NotReading} \cup 0..MaxClock]

\* A guarded put is never accepted after its lease was ended by an election, a
\* write, a delete, a flush or a release, though a failed transaction may have put
\* the lease back into the table.
NoLateWrite == ~history.late

\* The byte count never falls short of the table, so that the table keeps to its
\* limit, and exceeds it by no more than the leases that were written over.
LeasesCounted ==
    /\ TypeOK
    /\ cluster.bytes = Cardinality(DOMAIN cluster.leases) + history.lost
    /\ cluster.bytes <= MaxLeaseBytes

\* A cluster with a healthy node gets a healthy leader.
LedAgain ==
    ~Healthy(cluster, cluster.leader)
        ~> (Healthy(cluster, cluster.leader) \/ HealthyNodes(cluster) = {})
=============================================================================
