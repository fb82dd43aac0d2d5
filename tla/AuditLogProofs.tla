--------------------------- MODULE AuditLogProofs ---------------------------
(***************************************************************************)
(* Proofs about AuditLog for any number of actors, segments and records:   *)
(* no audited record is lost, and the log in memory and on disk is sound   *)
(* at every step of an append, a prune, a crash or a start.                *)
(***************************************************************************)
EXTENDS AuditLog, FiniteSetTheorems, WellFoundedInduction, TLAPS

\* The records in the files, read at a start or not.
Disk == UNION {files[n] : n \in Numbers}

\* The records of the first w writes.
RecordOf(w) == [sequence : 1..w, previous : 0..w, hash : 1..w]

\* What the runs' TypeOK says, and that no sequence number is ahead of the writes.
Typed ==
    /\ writes \in 0..MaxWrites
    /\ files \in [Numbers -> SUBSET RecordOf(writes)]
    /\ records \cup archive \cup logged \subseteq RecordOf(writes)
    /\ {anchor, checkpoint} \subseteq RecordOf(writes) \cup {Zero}
    /\ segments \subseteq Numbers /\ ranges \in [Numbers -> 0..writes]
    /\ running \in {"up", "down", "refused"}
    /\ actor \in [Actors -> [step : {"idle", "logged", "pruned"},
                             record : RecordOf(writes) \cup {Zero}]]
    /\ pruning \in [left : SUBSET Numbers, all : SUBSET Numbers, by : Actors \cup {None}]
    /\ pruning.left \subseteq pruning.all
    /\ unsure \in BOOLEAN /\ damaged \in BOOLEAN

\* Later segments hold later writes, and the limits on files are kept.
FilesOK ==
    /\ \A n \in Numbers : IsFiniteSet(files[n]) /\ Cardinality(files[n]) <= SegmentRecords
    /\ \A n \in Numbers : files[n] # {} => n <= writes
    /\ Cardinality({n \in Numbers : files[n] # {}}) <= MaxSegments
    /\ \A m, n \in Numbers : m < n => \A x \in files[m], y \in files[n] : x.hash < y.hash
    /\ \A x, y \in Disk : x.hash = y.hash => x = y

\* A record before all that are both in memory and on disk.
Past(x) ==
    x.sequence <= anchor.sequence /\ \A z \in records \cap Disk : x.sequence < z.sequence

\* Segments in memory: a segment's range ends with the last of its records in memory.
SegmentsOK ==
    /\ Cardinality(segments) <= MaxSegments
    /\ \A n \in segments : n <= writes + 1
    /\ running = "up" => \A n \in Numbers : files[n] # {} => n \in segments
    /\ \A n \in Numbers : ranges[n] # 0 =>
           \E r \in files[n] \cap records : r.sequence = ranges[n]
    /\ \A n \in Numbers : \A r \in files[n] \cap records : r.sequence <= ranges[n]

\* A record on disk the memory does not know: of an append that failed.
Unknown(x) == unsure /\ (~damaged => x.sequence = LogHead.sequence + 1)

\* Records in memory and on disk are the same but for those before the anchor and
\* those of failed appends.
MemoryOK ==
    /\ \A x, y \in records :
           (x.hash = y.hash => x = y) /\ (x.hash < y.hash => x.sequence < y.sequence)
    /\ anchor \in records \/ \A r \in records : Later(r)
    /\ \A r \in records : r \in Disk \/ Past(r)
    /\ running = "up" => \A x \in Disk : x \in records \/ Past(x) \/ Unknown(x)
    /\ pruning = NoPrune => records = {} \/ records \cap Disk # {}

\* A prune under way: what is left of it ends at the anchor or before, all else after.
PruneOK ==
    /\ running # "up" => records = {} /\ segments = {} /\ pruning = NoPrune
                         /\ \A a \in Actors : actor[a] = Idle
    /\ pruning # NoPrune => anchor \in records /\ pruning.by \in Actors
    /\ pruning # NoPrune => \A n \in Numbers :
           IF n \in pruning.left THEN ranges[n] \in 1..anchor.sequence
           ELSE ranges[n] = 0 \/ ranges[n] > anchor.sequence
    /\ \A n \in pruning.all \ pruning.left : files[n] = {}

\* What is not exported is on disk, after the anchor and all that is exported.
ExportedOK ==
    /\ \A r \in logged \ archive :
           /\ r \in Disk /\ Later(r) /\ (running = "up" => r \in records)
           /\ \A x \in archive : x.sequence < r.sequence
    /\ \A x \in archive :
           IF running = "up" THEN x \in records \cap Disk \/ Past(x)
           ELSE x \in Disk \/ ~Later(x)

\* The records the control state names or is about to name.
Heads == {checkpoint} \cup {actor[a].record : a \in {b \in Actors : At(b, "logged")}}

\* The first on disk may follow the anchor, the others one another.
Chained(y) ==
    \/ \E x \in Disk : x.sequence + 1 = y.sequence /\ x.hash = y.previous
    \/ /\ \A z \in Disk : y.sequence <= z.sequence
       /\ y.sequence <= anchor.sequence + 1
       /\ y.sequence = anchor.sequence + 1 => y.previous = anchor.hash

\* A head is on disk or no later than the anchor.
HeadOK(c) ==
    \/ c \in Disk
    \/ /\ \A z \in Disk : c.sequence < z.sequence
       /\ c.sequence <= anchor.sequence
       /\ c.sequence = anchor.sequence => c.hash = anchor.hash

ChainOK ==
    /\ \A x, y \in Disk : x.hash < y.hash => x.sequence < y.sequence
    /\ \A y \in Disk : Chained(y)
    /\ \A x \in Disk : x.sequence = anchor.sequence => x.hash = anchor.hash
    /\ \A c \in Heads : HeadOK(c)
    /\ running = "up" => \A c \in Heads : c.sequence <= LogHead.sequence
    /\ running = "up" => \A n \in Numbers : files[n] # {} =>
           ranges[n] # 0 \/ \A z \in files[n] : z.sequence = LogHead.sequence + 1

IInv == /\ Typed /\ FilesOK /\ SegmentsOK /\ MemoryOK /\ PruneOK /\ ExportedOK
        /\ (~damaged => ChainOK)

----------------------------------------------------------------------------
(* Orders *)

\* A set of numbers has a least one, and a greatest if it is bounded.
LEMMA LeastOf ==
    ASSUME NEW S, S \subseteq Nat, S # {}
    PROVE  \E x \in S : \A y \in S : x <= y
<1>1. PICK x \in S : \A y \in S : ~(<<y, x>> \in OpToRel(<, Nat))
  BY NatLessThanWellFounded, WFMin
<1>2. \A y \in S : ~(y < x) BY <1>1 DEF OpToRel
<1>3. \A y \in S : x <= y BY <1>2
<1> QED BY <1>3

LEMMA GreatestOf ==
    ASSUME NEW S, NEW w \in Nat, S \subseteq 0..w, S # {}
    PROVE  \E x \in S : \A y \in S : y <= x
<1> DEFINE T == {w - y : y \in S}
<1>0. \A y \in S : w - y \in Nat OBVIOUS
<1>1. T \subseteq Nat /\ T # {}
  <2>1. T \subseteq Nat BY <1>0
  <2>2. T # {} OBVIOUS
  <2> QED BY <2>1, <2>2
<1>2. PICK t \in T : \A u \in T : t <= u BY <1>1, LeastOf
<1>3. PICK x \in S : t = w - x OBVIOUS
<1>4. ASSUME NEW y \in S PROVE y <= x
  <2>1. w - y \in T OBVIOUS
  <2> HIDE DEF T
  <2>2. w - x <= w - y BY <2>1, <1>2, <1>3
  <2> QED BY <2>2
<1> QED BY <1>4

LEMMA GreatestIs ==
    ASSUME NEW S, NEW w \in Nat, S \subseteq 0..w, S # {}
    PROVE  Max(S) \in S /\ \A y \in S : y <= Max(S)
<1>1. PICK x \in S : \A y \in S : y <= x BY GreatestOf
<1>2. \A y \in S : x >= y BY <1>1
<1> QED BY <1>2 DEF Max

LEMMA LeastIs ==
    ASSUME NEW S, S \subseteq Nat, S # {}
    PROVE  Min(S) \in S /\ \A y \in S : Min(S) <= y
<1>1. PICK x \in S : \A y \in S : x <= y BY LeastOf
<1> QED BY <1>1 DEF Min

\* Numbers of segments are natural numbers, and finitely many.
LEMMA NumbersAre ==
    /\ Numbers \subseteq 1 .. MaxWrites + 1 /\ Numbers \subseteq Nat /\ IsFiniteSet(Numbers)
    /\ MaxWrites \in Nat /\ MaxSegments \in Nat \ {0} /\ SegmentRecords \in Nat \ {0}
<1>1. /\ MaxWrites \in Nat /\ MaxSegments \in Nat \ {0} /\ SegmentRecords \in Nat \ {0}
  BY LimitsArePositive
<1>2. IsFiniteSet(1 .. MaxWrites + 1) BY <1>1, FS_Interval
<1> QED BY <1>1, <1>2 DEF Numbers

\* A record on disk is in a file and has its type.
LEMMA DiskTyped ==
    ASSUME Typed
    PROVE  /\ \A x \in Disk : \E n \in Numbers : x \in files[n]
           /\ \A n \in Numbers : files[n] \subseteq Disk
           /\ Disk \subseteq RecordOf(writes)
           /\ OnDisk = {x \in Disk : Later(x)}
<1>1. Disk \subseteq RecordOf(writes) BY DEF Typed, Disk
<1>2. OnDisk = {x \in Disk : Later(x)} BY DEF OnDisk, LaterIn, Disk
<1> QED BY <1>1, <1>2 DEF Disk

\* The fields of records are natural numbers.
LEMMA Fields ==
    ASSUME NEW w \in Nat
    PROVE  /\ \A x \in RecordOf(w) : /\ x.sequence \in 1..w /\ x.hash \in 1..w
                                     /\ x.previous \in 0..w
           /\ \A x \in RecordOf(w) \cup {Zero} : /\ x.sequence \in 0..w /\ x.hash \in 0..w
                                                 /\ x.previous \in 0..w
BY DEF RecordOf, Zero

\* Files are read in the order of their writing.
LEMMA ReadOrder ==
    ASSUME Typed, FilesOK, NEW x \in Disk, NEW y \in Disk
    PROVE  ReadBefore(x, y) <=> x.hash < y.hash
<1>1. PICK m \in Numbers : x \in files[m] BY DiskTyped
<1>2. PICK n \in Numbers : y \in files[n] BY DiskTyped
<1>3. x.hash \in Nat /\ y.hash \in Nat BY DiskTyped, Fields DEF Typed
<1>4. ASSUME x.hash < y.hash PROVE ReadBefore(x, y)
  <2>1. ~(n < m) BY <1>1, <1>2, <1>3, <1>4 DEF FilesOK
  <2>2. m < n \/ m = n BY <2>1, NumbersAre
  <2> QED BY <1>1, <1>2, <1>4, <2>2 DEF ReadBefore
<1>5. ASSUME ReadBefore(x, y) PROVE x.hash < y.hash
  BY <1>5 DEF ReadBefore, FilesOK
<1> QED BY <1>4, <1>5

\* The last of some records is the one written last.
LEMMA LastReadIs ==
    ASSUME Typed, FilesOK, NEW R, R \subseteq Disk, R # {}
    PROVE  LastRead(R) \in R /\ \A x \in R : x.hash <= LastRead(R).hash
<1> DEFINE H == {x.hash : x \in R}
<1>1. writes \in Nat /\ \A x \in R : x.hash \in 0..writes
  BY DiskTyped, Fields, NumbersAre DEF Typed
<1>2. H \subseteq 0..writes /\ H # {} BY <1>1
<1>3. PICK h \in H : \A g \in H : g <= h BY <1>1, <1>2, GreatestOf
<1>4. PICK r \in R : h = r.hash OBVIOUS
<1>5. \A x \in R : x.hash <= r.hash BY <1>3, <1>4
<1>6. \A x \in R \ {r} : x.hash < r.hash
  <2>1. ASSUME NEW x \in R \ {r} PROVE x.hash < r.hash
    <3>1. x.hash # r.hash BY DEF FilesOK
    <3> QED BY <3>1, <1>5, <1>1
  <2> QED BY <2>1
<1>7. \A x \in R \ {r} : ReadBefore(x, r) BY <1>6, ReadOrder
<1>8. LastRead(R) \in R /\ \A x \in R \ {LastRead(R)} : ReadBefore(x, LastRead(R))
  BY <1>7 DEF LastRead
<1>9. ASSUME NEW x \in R PROVE x.hash <= LastRead(R).hash
  <2>1. CASE x = LastRead(R) BY <2>1, <1>1
  <2>2. CASE x # LastRead(R)
    <3>1. ReadBefore(x, LastRead(R)) BY <2>2, <1>8
    <3>2. x.hash < LastRead(R).hash BY <3>1, <1>8, ReadOrder
    <3> QED BY <3>2, <1>1, <1>8
  <2> QED BY <2>1, <2>2
<1> QED BY <1>8, <1>9

\* The head of the log is its newest record, or the anchor.
LEMMA HeadIs ==
    ASSUME Typed, MemoryOK
    PROVE  /\ writes \in Nat
           /\ LogHead \in RecordOf(writes) \cup {Zero}
           /\ records # {} => LogHead \in records
           /\ records = {} => LogHead = anchor
           /\ \A r \in records : r.sequence <= LogHead.sequence
           /\ anchor.sequence <= LogHead.sequence
           /\ LogHead.sequence = anchor.sequence => LogHead = anchor
<1>1. writes \in Nat BY NumbersAre DEF Typed
<1>2. /\ \A r \in records : r.sequence \in 1..writes /\ r.hash \in 1..writes
      /\ anchor.sequence \in 0..writes
  BY <1>1, Fields DEF Typed
<1>3. CASE records = {}
  <2>1. LogHead = anchor BY <1>3 DEF LogHead
  <2> QED BY <1>1, <1>2, <1>3, <2>1 DEF Typed
<1>4. CASE records # {}
  <2> DEFINE S == {r.sequence : r \in records}
  <2>1. S \subseteq 0..writes /\ S # {} BY <1>2, <1>4
  <2>2. PICK s \in S : \A t \in S : t <= s BY <1>1, <2>1, GreatestOf
  <2>3. PICK r \in records : \A x \in records : x.sequence <= r.sequence BY <2>2
  <2>4. LogHead \in records /\ \A x \in records : x.sequence <= LogHead.sequence
    BY <1>4, <2>3 DEF LogHead, Newest
  <2>5. CASE anchor \in records
    <3>1. anchor.sequence <= LogHead.sequence BY <2>4, <2>5
    <3>2. ASSUME LogHead.sequence = anchor.sequence PROVE LogHead = anchor
      <4>1. ~(LogHead.hash < anchor.hash) /\ ~(anchor.hash < LogHead.hash)
        BY <2>4, <2>5, <3>2, <1>2 DEF MemoryOK
      <4>2. LogHead.hash = anchor.hash BY <4>1, <1>2, <2>4, <2>5
      <4> QED BY <4>2, <2>4, <2>5 DEF MemoryOK
    <3> QED BY <1>1, <1>4, <2>4, <3>1, <3>2 DEF Typed
  <2>6. CASE \A x \in records : Later(x)
    <3>1. LogHead.sequence > anchor.sequence BY <2>4, <2>6 DEF Later
    <3> QED BY <1>1, <1>2, <1>4, <2>4, <3>1 DEF Typed
  <2> QED BY <2>5, <2>6 DEF MemoryOK
<1> QED BY <1>3, <1>4

\* A chain that verifies is in the order of its sequence numbers.
LEMMA ChainOrders ==
    ASSUME Typed, FilesOK, ChainVerifies, NEW x \in OnDisk, NEW y \in OnDisk,
           x.hash < y.hash
    PROVE  x.sequence < y.sequence
<1> DEFINE Bad(v) == \E u \in OnDisk : u.hash < v.hash /\ ~(u.sequence < v.sequence)
<1> DEFINE B == {v \in OnDisk : Bad(v)}
<1> DEFINE H == {v.hash : v \in B}
<1>0. OnDisk \subseteq Disk BY DiskTyped
<1>1. \A v \in OnDisk : v.sequence \in Nat /\ v.hash \in Nat
  BY <1>0, DiskTyped, Fields, NumbersAre DEF Typed
<1>2. SUFFICES ASSUME B # {} PROVE FALSE
  BY <1>2
<1>3. H \subseteq Nat /\ H # {} BY <1>1, <1>2
<1>4. PICK h \in H : \A g \in H : h <= g BY <1>3, LeastOf
<1>5. PICK v \in B : \A u \in B : v.hash <= u.hash BY <1>4
<1>6. PICK u \in OnDisk : u.hash < v.hash /\ ~(u.sequence < v.sequence) BY <1>5
<1> DEFINE earlier == {z \in OnDisk : ReadBefore(z, v)}
<1>7. \A z \in OnDisk : z \in earlier <=> z.hash < v.hash BY <1>0, <1>5, ReadOrder
<1>8. u \in earlier /\ earlier \subseteq Disk BY <1>0, <1>6, <1>7
<1> DEFINE l == LastRead(earlier)
<1>9. l \in earlier /\ \A z \in earlier : z.hash <= l.hash BY <1>8, LastReadIs
<1>10. v.sequence = l.sequence + 1 BY <1>5, <1>8 DEF ChainVerifies
<1> HIDE DEF l
<1>11. l \in OnDisk /\ l.hash < v.hash BY <1>7, <1>9
<1>12. CASE u = l BY <1>1, <1>6, <1>10, <1>11, <1>12
<1>13. CASE u # l
  <2>1. u.hash <= l.hash /\ u.hash # l.hash
    BY <1>0, <1>6, <1>8, <1>9, <1>11, <1>13 DEF FilesOK
  <2>2. u.hash < l.hash BY <2>1, <1>1, <1>6, <1>11
  <2>3. l \notin B BY <1>1, <1>5, <1>11
  <2>4. u.sequence < l.sequence BY <2>2, <2>3, <1>6, <1>11
  <2> QED BY <2>4, <1>1, <1>5, <1>6, <1>10, <1>11
<1> QED BY <1>12, <1>13

\* The chain on disk verifies, and the control state names none of another chain.
LEMMA ChainHolds ==
    ASSUME Typed, FilesOK, ChainOK
    PROVE  Startable
<1>0. OnDisk \subseteq Disk /\ OnDisk = {x \in Disk : Later(x)} BY DiskTyped
<1>1. /\ \A v \in Disk : v.sequence \in Nat /\ v.hash \in Nat
      /\ anchor.sequence \in Nat /\ checkpoint.sequence \in Nat
  BY <1>0, DiskTyped, Fields, NumbersAre DEF Typed
<1>2. \A x, y \in Disk : x.sequence < y.sequence <=> x.hash < y.hash
  <2>1. ASSUME NEW x \in Disk, NEW y \in Disk, x.sequence < y.sequence
        PROVE  x.hash < y.hash
    <3>1. ~(y.hash < x.hash) BY <1>1, <2>1 DEF ChainOK
    <3>2. y.hash # x.hash BY <1>1, <2>1 DEF FilesOK
    <3> QED BY <1>1, <3>1, <3>2
  <2> QED BY <2>1 DEF ChainOK
<1>3. ASSUME NEW r \in OnDisk,
             NEW earlier, earlier = {x \in OnDisk : ReadBefore(x, r)},
             NEW before, before = IF earlier = {} THEN anchor ELSE LastRead(earlier)
      PROVE  r.previous = before.hash /\ r.sequence = before.sequence + 1
  <2>1. \A x \in OnDisk : x \in earlier <=> x.sequence < r.sequence
    BY <1>0, <1>2, <1>3, ReadOrder
  <2>2. r \in Disk /\ r.sequence > anchor.sequence BY <1>0 DEF Later
  <2>3. CASE \E x \in Disk : x.sequence + 1 = r.sequence /\ x.hash = r.previous
    <3>1. PICK x \in Disk : x.sequence + 1 = r.sequence /\ x.hash = r.previous
      BY <2>3
    <3>2. CASE x \in OnDisk
      <4>1. x \in earlier BY <3>1, <3>2, <2>1, <1>1
      <4>2. LastRead(earlier) \in earlier /\ x.hash <= LastRead(earlier).hash
        BY <4>1, <1>0, <1>3, LastReadIs
      <4>3. LastRead(earlier).sequence < r.sequence /\ LastRead(earlier) \in Disk
        BY <4>2, <2>1, <1>0, <1>3
      <4>4. ~(x.sequence < LastRead(earlier).sequence) BY <4>3, <3>1, <1>1, <2>2
      <4>5. ~(x.hash < LastRead(earlier).hash) BY <4>3, <4>4, <3>1, <1>2
      <4>6. x.hash = LastRead(earlier).hash BY <4>2, <4>3, <4>5, <3>1, <1>1
      <4>7. x = LastRead(earlier) BY <4>3, <4>6, <3>1 DEF FilesOK
      <4> QED BY <4>1, <4>7, <3>1, <1>3, <1>1, <2>2
    <3>3. CASE x \notin OnDisk
      <4>1. x.sequence <= anchor.sequence BY <3>1, <3>3, <1>0, <1>1 DEF Later
      <4>2. x.sequence = anchor.sequence BY <4>1, <3>1, <2>2, <1>1
      <4>3. x.hash = anchor.hash BY <4>2, <3>1 DEF ChainOK
      <4>4. \A z \in OnDisk : ~(z.sequence < r.sequence)
        BY <4>2, <3>1, <1>0, <1>1 DEF Later
      <4>5. earlier = {} BY <4>4, <2>1, <1>3
      <4> QED BY <4>2, <4>3, <4>5, <3>1, <1>3, <1>1, <2>2
    <3> QED BY <3>2, <3>3
  <2>4. CASE /\ \A z \in Disk : r.sequence <= z.sequence
             /\ r.sequence <= anchor.sequence + 1
             /\ r.sequence = anchor.sequence + 1 => r.previous = anchor.hash
    <3>1. r.sequence = anchor.sequence + 1 BY <2>2, <2>4, <1>1
    <3>2. \A z \in OnDisk : ~(z.sequence < r.sequence) BY <2>4, <1>0, <1>1, <2>2
    <3>3. earlier = {} BY <3>2, <2>1, <1>3
    <3> QED BY <3>1, <3>3, <2>4, <1>3
  <2> QED BY <2>2, <2>3, <2>4 DEF ChainOK, Chained
<1>4. ChainVerifies BY <1>3 DEF ChainVerifies
<1>5. CheckpointAgrees
  <2>1. HeadOK(checkpoint) BY DEF ChainOK, Heads
  <2>2. CASE OnDisk = {}
    <3>1. DiskHead = anchor BY <2>2 DEF DiskHead
    <3>2. CASE checkpoint \in Disk
      <4>1. checkpoint.sequence <= anchor.sequence BY <2>2, <3>2, <1>0, <1>1 DEF Later
      <4> QED BY <3>1, <3>2, <4>1 DEF CheckpointAgrees, ChainOK
    <3>3. CASE checkpoint \notin Disk
      BY <3>1, <3>3, <2>1 DEF CheckpointAgrees, HeadOK
    <3> QED BY <3>2, <3>3
  <2>3. CASE OnDisk # {}
    <3>1. /\ DiskHead \in OnDisk /\ \A x \in OnDisk : x.hash <= DiskHead.hash
      BY <2>3, <1>0, LastReadIs DEF DiskHead
    <3>2. DiskHead \in Disk /\ DiskHead.sequence > anchor.sequence
      BY <3>1, <1>0 DEF Later
    <3>3. CASE checkpoint \in OnDisk
      <4>1. ~(DiskHead.hash < checkpoint.hash) BY <3>1, <3>2, <3>3, <1>0, <1>1
      <4>2. ~(DiskHead.sequence < checkpoint.sequence) BY <4>1, <3>2, <3>3, <1>0, <1>2
      <4>3. checkpoint.sequence = DiskHead.sequence => checkpoint.hash = DiskHead.hash
        BY <3>1, <3>2, <3>3, <1>0, <1>1, <1>2
      <4> QED BY <4>2, <4>3, <3>2, <1>1 DEF CheckpointAgrees
    <3>4. CASE checkpoint \notin OnDisk
      <4>1. checkpoint.sequence <= anchor.sequence
        BY <3>4, <2>1, <1>0, <1>1 DEF HeadOK, Later
      <4> QED BY <4>1, <3>2, <1>1 DEF CheckpointAgrees
    <3> QED BY <3>3, <3>4
  <2> QED BY <2>2, <2>3
<1> QED BY <1>4, <1>5 DEF Startable, FilesOK

----------------------------------------------------------------------------
(* Steps that leave the files alone *)

\* Nothing but the actors and the checkpoint changes, and no new head appears.
LEMMA HeadsFrame ==
    ASSUME IInv, Heads' \subseteq Heads,
           UNCHANGED <<files, anchor, memory, running, pruning, archive, writes, history>>,
           Typed', running # "up" => \A a \in Actors : actor'[a] = Idle
    PROVE  IInv'
<1>1. /\ files' = files /\ anchor' = anchor /\ running' = running /\ pruning' = pruning
      /\ archive' = archive /\ writes' = writes /\ records' = records /\ segments' = segments
      /\ ranges' = ranges /\ logged' = logged /\ unsure' = unsure /\ damaged' = damaged
  BY DEF memory, history
<1>2. Disk' = Disk /\ LogHead' = LogHead BY <1>1 DEF Disk, LogHead, Newest
<1>3. FilesOK' BY <1>1, <1>2 DEF IInv, FilesOK
<1>4. SegmentsOK' BY <1>1, <1>2 DEF IInv, SegmentsOK
<1>5. MemoryOK' BY <1>1, <1>2 DEF IInv, MemoryOK, Past, Later, Unknown
<1>6. PruneOK' BY <1>1, <1>2 DEF IInv, PruneOK
<1>7. ExportedOK' BY <1>1, <1>2 DEF IInv, ExportedOK, Past, Later
<1>8. damaged \/ ChainOK' BY <1>1, <1>2 DEF IInv, ChainOK, Chained, HeadOK
<1> QED BY <1>1, <1>3, <1>4, <1>5, <1>6, <1>7, <1>8 DEF IInv

LEMMA RefusedStep ==
    ASSUME IInv, NEW a \in Actors, AppendRefused(a)
    PROVE  IInv'
<1>1. actor' = [actor EXCEPT ![a] = Idle] /\ checkpoint' = checkpoint
  BY DEF AppendRefused, disk
<1>2. Heads' \subseteq Heads BY <1>1 DEF Heads, At, Idle, IInv, Typed
<1>3. Typed' BY <1>1 DEF AppendRefused, disk, memory, history, IInv, Typed, Idle
<1> QED BY <1>1, <1>2, <1>3, HeadsFrame DEF AppendRefused, Free, disk

LEMMA CheckpointStep ==
    ASSUME IInv, NEW a \in Actors, Checkpoint(a)
    PROVE  IInv'
<1>1. actor' = [actor EXCEPT ![a] = Idle] /\ checkpoint' \in {checkpoint, actor[a].record}
  BY DEF Checkpoint
<1>2. Heads' \subseteq Heads BY <1>1 DEF Checkpoint, Heads, At, Idle, IInv, Typed
<1>3. Typed'
  <2>1. actor[a].record \in RecordOf(writes) \cup {Zero} BY DEF IInv, Typed
  <2> QED BY <1>1, <2>1 DEF Checkpoint, memory, history, IInv, Typed, Idle
<1> QED BY <1>1, <1>2, <1>3, HeadsFrame DEF Checkpoint

LEMMA StutterStep ==
    ASSUME IInv, UNCHANGED vars
    PROVE  IInv'
<1>1. Heads' = Heads BY DEF vars, disk, Heads, At
<1>2. Typed' BY DEF vars, disk, memory, history, IInv, Typed
<1> QED BY <1>1, <1>2, HeadsFrame DEF vars, disk, IInv, PruneOK

\* What is in memory is all that was not exported.
LEMMA ExportStep ==
    ASSUME IInv, Export
    PROVE  IInv'
<1>1. /\ running = "up" /\ archive' = archive \cup records
      /\ UNCHANGED <<files, anchor, checkpoint, records, segments, ranges, running, actor,
                     pruning, writes, logged, unsure, damaged>>
  BY DEF Export, Free, disk, memory, history
<1>2. Disk' = Disk /\ LogHead' = LogHead /\ Heads' = Heads
  BY <1>1 DEF Disk, LogHead, Newest, Heads, At
<1>3. Typed' BY <1>1 DEF IInv, Typed
<1>4. FilesOK' /\ SegmentsOK' BY <1>1, <1>2 DEF IInv, FilesOK, SegmentsOK
<1>5. MemoryOK' BY <1>1, <1>2 DEF IInv, MemoryOK, Past, Later, Unknown
<1>6. PruneOK' BY <1>1, <1>2 DEF IInv, PruneOK
<1>7. logged' \ archive' = {} BY <1>1 DEF IInv, ExportedOK
<1>8. ExportedOK'
  <2>1. \A r \in records : r \in Disk \/ Past(r) BY DEF IInv, MemoryOK
  <2>2. \A x \in archive' : x \in records \cap Disk \/ Past(x)
    BY <1>1, <2>1 DEF IInv, ExportedOK
  <2> QED BY <1>1, <1>2, <1>7, <2>2 DEF ExportedOK, Past
<1>9. damaged \/ ChainOK' BY <1>1, <1>2 DEF IInv, ChainOK, Chained, HeadOK
<1> QED BY <1>1, <1>3, <1>4, <1>5, <1>6, <1>8, <1>9 DEF IInv

\* The segment at which a prune fails has records left on disk.
LEMMA UnlinkFailsStep ==
    ASSUME IInv, UnlinkFails
    PROVE  IInv'
<1>1. /\ running = "up" /\ pruning.left # {} /\ pruning' = NoPrune
      /\ UNCHANGED <<files, anchor, checkpoint, records, segments, ranges, running, actor,
                     archive, writes, logged, unsure, damaged>>
  BY DEF UnlinkFails, disk, memory, history
<1>2. Disk' = Disk /\ LogHead' = LogHead /\ Heads' = Heads
  BY <1>1 DEF Disk, LogHead, Newest, Heads, At
<1>3. Typed' BY <1>1 DEF IInv, Typed, NoPrune
<1>4. FilesOK' /\ SegmentsOK' BY <1>1, <1>2 DEF IInv, FilesOK, SegmentsOK
<1>5. records \cap Disk # {}
  <2>1. PICK n \in pruning.left : TRUE BY <1>1
  <2>2. n \in Numbers /\ pruning # NoPrune BY <2>1 DEF IInv, Typed, NoPrune
  <2>3. ranges[n] # 0 BY <2>1, <2>2 DEF IInv, PruneOK
  <2>4. files[n] \cap records # {} BY <2>2, <2>3 DEF IInv, SegmentsOK
  <2> QED BY <2>2, <2>4 DEF Disk
<1>6. MemoryOK' BY <1>1, <1>2, <1>5 DEF IInv, MemoryOK, Past, Later, Unknown
<1>7. PruneOK' BY <1>1, <1>2 DEF IInv, PruneOK, NoPrune
<1>8. ExportedOK' BY <1>1, <1>2 DEF IInv, ExportedOK, Past, Later
<1>9. damaged \/ ChainOK' BY <1>1, <1>2 DEF IInv, ChainOK, Chained, HeadOK
<1> QED BY <1>1, <1>3, <1>4, <1>6, <1>7, <1>8, <1>9 DEF IInv

\* A crash keeps what is on disk, and what is exported.
LEMMA CrashStep ==
    ASSUME IInv, Crash
    PROVE  IInv'
<1>1. /\ running = "up" /\ running' = "down"
      /\ records' = {} /\ segments' = {} /\ ranges' = [n \in Numbers |-> 0]
      /\ actor' = [a \in Actors |-> Idle] /\ pruning' = NoPrune
      /\ UNCHANGED <<files, anchor, checkpoint, archive, writes, logged, unsure, damaged>>
  BY DEF Crash, disk, history
<1>2. Disk' = Disk /\ Heads' \subseteq Heads BY <1>1 DEF Disk, Heads, At, Idle
<1>3. Typed' BY <1>1, NumbersAre DEF IInv, Typed, NoPrune, Idle
<1>4. FilesOK' BY <1>1, <1>2 DEF IInv, FilesOK
<1>5. SegmentsOK' BY <1>1, FS_EmptySet, NumbersAre DEF SegmentsOK
<1>6. MemoryOK' BY <1>1 DEF MemoryOK
<1>7. PruneOK' BY <1>1 DEF PruneOK, NoPrune
<1>8. ExportedOK'
  <2>1. \A x \in archive : x \in Disk \/ ~Later(x)
    <3>1. ASSUME NEW x \in archive PROVE x \in Disk \/ ~Later(x)
      <4>1. x.sequence \in Nat /\ anchor.sequence \in Nat
        BY Fields, NumbersAre DEF IInv, Typed
      <4> QED BY <1>1, <4>1 DEF IInv, ExportedOK, Past, Later
    <3> QED BY <3>1
  <2> QED BY <1>1, <1>2, <2>1 DEF IInv, ExportedOK, Later
<1>9. damaged \/ ChainOK' BY <1>1, <1>2 DEF IInv, ChainOK, Chained, HeadOK
<1> QED BY <1>1, <1>3, <1>4, <1>5, <1>6, <1>7, <1>8, <1>9 DEF IInv

LEMMA RefuseStep ==
    ASSUME IInv, Refuse
    PROVE  IInv'
<1>1. /\ running = "down" /\ running' = "refused"
      /\ UNCHANGED <<files, anchor, checkpoint, records, segments, ranges, pruning, actor,
                     archive, writes, logged, unsure, damaged>>
  BY DEF Refuse, disk, memory, history
<1>2. Disk' = Disk /\ Heads' = Heads BY <1>1 DEF Disk, Heads, At
<1>3. Typed' BY <1>1 DEF IInv, Typed
<1>4. FilesOK' BY <1>1, <1>2 DEF IInv, FilesOK
<1>5. SegmentsOK' BY <1>1 DEF IInv, SegmentsOK
<1>6. MemoryOK' BY <1>1, <1>2 DEF IInv, MemoryOK, Past, Later
<1>7. PruneOK' BY <1>1 DEF IInv, PruneOK
<1>8. ExportedOK' BY <1>1, <1>2 DEF IInv, ExportedOK, Later
<1>9. damaged \/ ChainOK' BY <1>1, <1>2 DEF IInv, ChainOK, Chained, HeadOK
<1> QED BY <1>1, <1>3, <1>4, <1>5, <1>6, <1>7, <1>8, <1>9 DEF IInv

----------------------------------------------------------------------------
(* append *)

\* The segment to append to is the last, or a new one after it, and has room.
LEMMA SegmentIs ==
    ASSUME IInv, running = "up", NEW n, n = SegmentForAppend, n # 0
    PROVE  /\ n \in Numbers /\ n <= writes + 1
           /\ \A k \in Numbers : files[k] # {} => k <= n
           /\ Cardinality(files[n]) < SegmentRecords
           /\ IsFiniteSet(segments \cup {n}) /\ Cardinality(segments \cup {n}) <= MaxSegments
<1>0. writes \in 0..MaxWrites /\ segments \subseteq Numbers /\ writes \in Nat
  BY NumbersAre DEF IInv, Typed
<1>1. IsFiniteSet(segments) /\ Cardinality(segments) \in Nat
  BY <1>0, NumbersAre, FS_Subset, FS_CardinalityType
<1>2. \A k \in Numbers : /\ files[k] # {} => k \in segments
                         /\ IsFiniteSet(files[k]) /\ Cardinality(files[k]) \in Nat
  BY FS_CardinalityType DEF IInv, SegmentsOK, FilesOK
<1>3. CASE segments = {}
  <2>1. n = 1 BY <1>3 DEF SegmentForAppend
  <2>2. n \in Numbers BY <2>1, NumbersAre DEF Numbers
  <2>3. files[n] = {} BY <2>2, <1>2, <1>3
  <2>4. segments \cup {n} = {n} BY <1>3
  <2>5. IsFiniteSet({n}) /\ Cardinality({n}) = 1 BY FS_Singleton
  <2> QED BY <1>0, <1>2, <1>3, <2>1, <2>2, <2>3, <2>4, <2>5, FS_EmptySet, NumbersAre
<1>4. CASE segments # {}
  <2> DEFINE current == Max(segments)
  <2>1. current \in segments /\ \A k \in segments : k <= current
    <3>1. segments \subseteq 0 .. MaxWrites + 1 BY <1>0, NumbersAre
    <3>2. MaxWrites + 1 \in Nat BY NumbersAre
    <3> QED BY <3>1, <3>2, <1>4, GreatestIs
  <2>2. n = IF Cardinality(files[current]) < SegmentRecords THEN current
            ELSE IF Cardinality(segments) >= MaxSegments THEN 0 ELSE current + 1
    BY <1>4 DEF SegmentForAppend
  <2> HIDE DEF current
  <2>3. current \in Numbers /\ current \in Nat BY <2>1, <1>0, NumbersAre
  <2>4. CASE Cardinality(files[current]) < SegmentRecords
    <3>1. n = current /\ segments \cup {n} = segments BY <2>1, <2>2, <2>4
    <3> QED BY <3>1, <2>1, <2>3, <2>4, <1>1, <1>2 DEF IInv, SegmentsOK
  <2>5. CASE ~(Cardinality(files[current]) < SegmentRecords)
    <3>1. n = current + 1 /\ Cardinality(segments) < MaxSegments
      BY <2>2, <2>5, <1>1, NumbersAre
    <3>2. files[current] # {} BY <2>5, FS_EmptySet, NumbersAre
    <3>3. current <= writes BY <3>2, <2>3 DEF IInv, FilesOK
    <3>4. n \in Numbers /\ n <= writes + 1 BY <3>1, <3>3, <2>3, <1>0, NumbersAre DEF Numbers
    <3>5. n \notin segments BY <3>1, <2>1, <2>3
    <3>6. files[n] = {} BY <3>4, <3>5, <1>2
    <3>7. \A k \in Numbers : files[k] # {} => k <= n
      BY <1>2, <2>1, <2>3, <3>1, NumbersAre
    <3>8. IsFiniteSet(segments \cup {n}) /\ Cardinality(segments \cup {n}) <= MaxSegments
      <4>1. /\ IsFiniteSet(segments \cup {n})
            /\ Cardinality(segments \cup {n}) = Cardinality(segments) + 1
        BY <1>1, <3>5, FS_AddElement
      <4> QED BY <4>1, <1>1, <3>1, NumbersAre
    <3> QED BY <3>4, <3>6, <3>7, <3>8, FS_EmptySet, NumbersAre
  <2> QED BY <2>4, <2>5
<1> QED BY <1>3, <1>4

\* A record that was written is the last on disk.
LEMMA WriteFacts ==
    ASSUME IInv, Free, NEW n, n = SegmentForAppend, n # 0, Written(n),
           NEW x, x = NewRecord
    PROVE  /\ n \in Numbers /\ writes \in Nat /\ writes' = writes + 1
           /\ writes' \in 0..MaxWrites
           /\ x \in RecordOf(writes') /\ RecordOf(writes) \subseteq RecordOf(writes')
           /\ x.sequence = LogHead.sequence + 1 /\ x.previous = LogHead.hash
           /\ x.hash = writes + 1
           /\ files' = [files EXCEPT ![n] = @ \cup {x}]
           /\ files' \in [Numbers -> SUBSET RecordOf(writes')]
           /\ Disk' = Disk \cup {x} /\ x \notin Disk \cup records \cup archive \cup logged
           /\ segments' = segments \cup {n} /\ segments' \subseteq Numbers
           /\ FilesOK'
           /\ Cardinality(segments') <= MaxSegments
           /\ \A k \in segments' : k <= writes' + 1
           /\ \A k \in Numbers : files'[k] # {} => k \in segments'
<1>0. running = "up" /\ Typed /\ MemoryOK BY DEF IInv, Free
<1>1. /\ n \in Numbers /\ n <= writes + 1
      /\ \A k \in Numbers : files[k] # {} => k <= n
      /\ Cardinality(files[n]) < SegmentRecords
      /\ IsFiniteSet(segments \cup {n}) /\ Cardinality(segments \cup {n}) <= MaxSegments
  BY <1>0, SegmentIs
<1>2. /\ writes \in Nat /\ writes' = writes + 1 /\ writes' \in 0..MaxWrites
  BY NumbersAre, <1>0, HeadIs DEF Written
<1>3. /\ LogHead.sequence \in 0..writes /\ LogHead.hash \in 0..writes
  BY <1>0, HeadIs, Fields
<1>4. /\ x.sequence = LogHead.sequence + 1 /\ x.previous = LogHead.hash
      /\ x.hash = writes + 1
      /\ x \in [sequence : 1..writes', previous : 0..writes', hash : 1..writes']
  BY <1>2, <1>3 DEF NewRecord
<1>5. x \in RecordOf(writes') /\ RecordOf(writes) \subseteq RecordOf(writes')
  BY <1>2, <1>4 DEF RecordOf
<1>6. /\ files' = [files EXCEPT ![n] = @ \cup {x}] /\ segments' = segments \cup {n}
  BY DEF Written
<1>7. /\ files \in [Numbers -> SUBSET RecordOf(writes)] /\ Disk \subseteq RecordOf(writes)
      /\ records \cup archive \cup logged \subseteq RecordOf(writes)
  BY <1>0, DiskTyped DEF Typed
<1>8. /\ files' \in [Numbers -> SUBSET RecordOf(writes')]
      /\ \A k \in Numbers : files'[k] = IF k = n THEN files[n] \cup {x} ELSE files[k]
  BY <1>1, <1>5, <1>6, <1>7
<1>9. Disk' = Disk \cup {x} BY <1>1, <1>8 DEF Disk
<1>10. \A y \in RecordOf(writes) : y.hash \in Nat /\ y.hash < x.hash
  BY <1>2, <1>4, Fields
<1>11. x \notin Disk \cup records \cup archive \cup logged
  BY <1>4, <1>7, <1>10, <1>2
<1>12. segments' \subseteq Numbers BY <1>0, <1>1, <1>6 DEF Typed
<1>13. \A k \in segments' : k <= writes' + 1
  <2>1. \A k \in segments' : k <= writes + 1 BY <1>1, <1>6 DEF IInv, SegmentsOK
  <2> QED BY <2>1, <1>2, <1>12, NumbersAre
<1>14. \A k \in Numbers : files'[k] # {} => k \in segments'
  BY <1>0, <1>6, <1>8 DEF IInv, SegmentsOK
<1>15. FilesOK'
  <2>1. ASSUME NEW k \in Numbers
        PROVE  IsFiniteSet(files'[k]) /\ Cardinality(files'[k]) <= SegmentRecords
    <3>1. IsFiniteSet(files[k]) /\ Cardinality(files[k]) <= SegmentRecords
          /\ Cardinality(files[k]) \in Nat
      BY FS_CardinalityType DEF IInv, FilesOK
    <3>2. CASE k # n BY <3>1, <3>2, <1>8
    <3>3. CASE k = n
      <4>1. x \notin files[k] BY <1>11 DEF Disk
      <4>2. /\ IsFiniteSet(files[k] \cup {x})
            /\ Cardinality(files[k] \cup {x}) = Cardinality(files[k]) + 1
        BY <3>1, <4>1, FS_AddElement
      <4> QED BY <3>1, <3>3, <4>2, <1>1, <1>8, NumbersAre
    <3> QED BY <3>2, <3>3
  <2>2. \A k \in Numbers : files'[k] # {} => k <= writes'
    <3>1. \A k \in Numbers : files[k] # {} => k <= writes BY DEF IInv, FilesOK
    <3> QED BY <3>1, <1>1, <1>2, <1>8, NumbersAre
  <2>3. Cardinality({k \in Numbers : files'[k] # {}}) <= MaxSegments
    <3>1. {k \in Numbers : files'[k] # {}} \subseteq segments \cup {n} BY <1>6, <1>14
    <3>2. /\ Cardinality({k \in Numbers : files'[k] # {}}) <= Cardinality(segments \cup {n})
          /\ Cardinality({k \in Numbers : files'[k] # {}}) \in Nat
          /\ Cardinality(segments \cup {n}) \in Nat
      BY <3>1, <1>1, FS_Subset, FS_CardinalityType
    <3> QED BY <3>2, <1>1, NumbersAre
  <2>4. ASSUME NEW k \in Numbers, NEW m \in Numbers, k < m,
               NEW y \in files'[k], NEW z \in files'[m]
        PROVE  y.hash < z.hash
    <3>1. CASE m = n
      <4>1. y \in files[k] BY <3>1, <2>4, <1>8, NumbersAre
      <4>2. CASE z = x BY <4>1, <4>2, <1>7, <1>10
      <4>3. CASE z # x BY <4>1, <4>3, <3>1, <2>4, <1>8 DEF IInv, FilesOK
      <4> QED BY <4>2, <4>3
    <3>2. CASE m # n
      <4>1. z \in files[m] BY <3>2, <1>8
      <4>2. m <= n BY <4>1, <1>1
      <4>3. k # n BY <4>2, <2>4, <1>1, NumbersAre
      <4> QED BY <4>1, <4>3, <2>4, <1>8 DEF IInv, FilesOK
    <3> QED BY <3>1, <3>2
  <2>5. \A y, z \in Disk' : y.hash = z.hash => y = z
    <3>1. ASSUME NEW y \in Disk', NEW z \in Disk', y.hash = z.hash PROVE y = z
      <4>1. CASE y \in Disk /\ z \in Disk BY <3>1, <4>1 DEF IInv, FilesOK
      <4>2. CASE y = x /\ z = x BY <4>2
      <4>3. CASE y \in Disk /\ z = x BY <4>3, <3>1, <1>7, <1>10, <1>2, <1>4
      <4>4. CASE y = x /\ z \in Disk BY <4>4, <3>1, <1>7, <1>10, <1>2, <1>4
      <4> QED BY <4>1, <4>2, <4>3, <4>4, <1>9
    <3> QED BY <3>1
  <2> QED BY <2>1, <2>2, <2>3, <2>4, <2>5 DEF FilesOK
<1> QED BY <1>1, <1>2, <1>4, <1>5, <1>6, <1>8, <1>9, <1>11, <1>12, <1>13, <1>14, <1>15

\* A record larger than all others is the newest.
LEMMA NewestAdded ==
    ASSUME NEW R, NEW x, x.sequence \in Nat,
           \A y \in R : y.sequence \in Nat /\ y.sequence < x.sequence
    PROVE  Newest(R \cup {x}) = x
<1>1. \A y \in R \cup {x} : y.sequence <= x.sequence OBVIOUS
<1>2. ASSUME NEW r \in R \cup {x}, \A y \in R \cup {x} : y.sequence <= r.sequence
      PROVE  r = x
  <2>1. x.sequence <= r.sequence BY <1>2
  <2>2. CASE r \in R BY <2>1, <2>2
  <2> QED BY <2>2
<1> DEFINE N == Newest(R \cup {x})
<1>3. N \in R \cup {x} /\ \A y \in R \cup {x} : y.sequence <= N.sequence
  BY <1>1 DEF Newest
<1> QED BY <1>2, <1>3

\* While no append has failed after its write, the disk ends with the log's head.
LEMMA DiskEnds ==
    ASSUME IInv, Free, ~unsure, ~damaged
    PROVE  /\ \A z \in Disk : z.sequence <= LogHead.sequence
           /\ LogHead \in Disk \/ (Disk = {} /\ LogHead = anchor)
<1>0. running = "up" /\ pruning = NoPrune /\ Typed /\ MemoryOK /\ ChainOK
  BY DEF IInv, Free
<1>1. /\ LogHead.sequence \in Nat /\ anchor.sequence \in Nat
      /\ anchor.sequence <= LogHead.sequence
      /\ \A r \in records : r.sequence <= LogHead.sequence
      /\ \A z \in Disk : z.sequence \in Nat
  BY <1>0, HeadIs, Fields, DiskTyped DEF Typed
<1>2. \A z \in Disk : z.sequence <= LogHead.sequence
  <2>1. ASSUME NEW z \in Disk PROVE z.sequence <= LogHead.sequence
    <3>1. z \in records \/ Past(z) BY <1>0 DEF MemoryOK, Unknown
    <3> QED BY <3>1, <1>1 DEF Past
  <2> QED BY <2>1
<1>3. CASE records = {}
  <2>1. LogHead = anchor BY <1>3, <1>0, HeadIs
  <2>2. ASSUME NEW z \in Disk PROVE FALSE
    <3>1. PICK k \in Numbers : z \in files[k] BY <1>0, DiskTyped
    <3>2. ranges[k] = 0 BY <1>3, <3>1 DEF IInv, SegmentsOK
    <3>3. z.sequence = LogHead.sequence + 1 BY <1>0, <3>1, <3>2 DEF ChainOK
    <3> QED BY <1>1, <1>2, <3>3
  <2> QED BY <1>2, <2>1, <2>2
<1>4. CASE records # {}
  <2>1. LogHead \in records BY <1>4, <1>0, HeadIs
  <2>2. PICK z \in records \cap Disk : TRUE BY <1>4, <1>0 DEF MemoryOK
  <2>3. ~Past(LogHead) BY <2>2, <1>1, <1>2 DEF Past
  <2> QED BY <1>2, <2>1, <2>3, <1>0 DEF MemoryOK
<1> QED BY <1>3, <1>4

\* The new record continues the chain.
LEMMA ChainGrows ==
    ASSUME IInv, Free, ~unsure, ~damaged,
           NEW n, n = SegmentForAppend, n # 0, Written(n), NEW x, x = NewRecord,
           anchor' = anchor, Heads' \subseteq Heads \cup {x}
    PROVE  /\ \A y, z \in Disk' : y.hash < z.hash => y.sequence < z.sequence
           /\ \A y \in Disk' : Chained(y)'
           /\ \A y \in Disk' : y.sequence = anchor'.sequence => y.hash = anchor'.hash
           /\ \A c \in Heads' : HeadOK(c)'
<1>0. Typed /\ MemoryOK /\ ChainOK BY DEF IInv
<1>1. /\ writes \in Nat /\ x.sequence = LogHead.sequence + 1 /\ x.previous = LogHead.hash
      /\ x.hash = writes + 1 /\ Disk' = Disk \cup {x}
  BY WriteFacts
<1>2. /\ \A z \in Disk : z.sequence <= LogHead.sequence
      /\ LogHead \in Disk \/ (Disk = {} /\ LogHead = anchor)
  BY DiskEnds
<1>3. /\ LogHead.sequence \in Nat /\ anchor.sequence \in Nat
      /\ anchor.sequence <= LogHead.sequence
      /\ \A z \in Disk : z.sequence \in Nat /\ z.hash \in Nat /\ z.hash < x.hash
  BY <1>0, <1>1, HeadIs, Fields, DiskTyped DEF Typed
<1>4. \A z \in Disk : z.sequence < x.sequence BY <1>1, <1>2, <1>3
<1>5. ASSUME NEW y \in Disk', NEW z \in Disk', y.hash < z.hash PROVE y.sequence < z.sequence
  <2>1. CASE z = x BY <2>1, <1>5, <1>1, <1>4
  <2>2. CASE z # x BY <2>2, <1>5, <1>1, <1>3, <1>0 DEF ChainOK
  <2> QED BY <2>1, <2>2
<1>6. ASSUME NEW y \in Disk PROVE Chained(y)'
  <2>1. Chained(y) BY <1>0 DEF ChainOK
  <2>2. y.sequence <= x.sequence BY <1>1, <1>3, <1>4
  <2> QED BY <2>1, <2>2, <1>1 DEF Chained
<1>7. Chained(x)'
  <2>1. CASE LogHead \in Disk BY <2>1, <1>1 DEF Chained
  <2>2. CASE Disk = {} /\ LogHead = anchor
    <3>1. \A z \in Disk' : x.sequence <= z.sequence BY <2>2, <1>1, <1>3
    <3>2. x.sequence = anchor.sequence + 1 /\ x.previous = anchor.hash BY <2>2, <1>1
    <3> QED BY <3>1, <3>2, <1>3 DEF Chained
  <2> QED BY <2>1, <2>2, <1>2
<1>8. \A y \in Disk' : y.sequence = anchor'.sequence => y.hash = anchor'.hash
  BY <1>0, <1>1, <1>3 DEF ChainOK
<1>9. ASSUME NEW c \in Heads' PROVE HeadOK(c)'
  <2>1. CASE c = x BY <2>1, <1>1 DEF HeadOK
  <2>2. CASE c \in Heads
    <3>1. HeadOK(c) BY <2>2, <1>0 DEF ChainOK
    <3>2. c \in Disk => c \in Disk' BY <1>1
    <3>3. c.sequence \in Nat BY <2>2, <1>1, Fields DEF IInv, Typed, Heads
    <3>4. c.sequence <= anchor.sequence => c.sequence < x.sequence BY <1>1, <1>3, <3>3
    <3> QED BY <3>1, <3>2, <3>4, <1>1 DEF HeadOK
  <2> QED BY <2>1, <2>2
<1> QED BY <1>1, <1>5, <1>6, <1>7, <1>8, <1>9

\* An append adds one record to the memory and to the disk.
LEMMA AppendStep ==
    ASSUME IInv, NEW a \in Actors, AppendRecord(a)
    PROVE  IInv'
<1> DEFINE x == NewRecord
<1> DEFINE n == SegmentForAppend
<1>0. /\ Free /\ n # 0 /\ Written(n) /\ running = "up" /\ pruning = NoPrune
      /\ Typed /\ MemoryOK
  BY DEF AppendRecord, Appending, Free, IInv
<1>1. /\ n \in Numbers /\ writes \in Nat /\ writes' = writes + 1 /\ writes' \in 0..MaxWrites
      /\ x \in RecordOf(writes') /\ RecordOf(writes) \subseteq RecordOf(writes')
      /\ x.sequence = LogHead.sequence + 1 /\ x.hash = writes + 1
      /\ files' = [files EXCEPT ![n] = @ \cup {x}]
      /\ files' \in [Numbers -> SUBSET RecordOf(writes')]
      /\ Disk' = Disk \cup {x} /\ x \notin Disk \cup records \cup archive \cup logged
      /\ segments' \subseteq Numbers /\ FilesOK'
      /\ Cardinality(segments') <= MaxSegments
      /\ \A k \in segments' : k <= writes' + 1
      /\ \A k \in Numbers : files'[k] # {} => k \in segments'
  <2> HIDE DEF x, n
  <2> QED BY <1>0, WriteFacts DEF x, n
<1>2. /\ records' = records \cup {x} /\ ranges' = [ranges EXCEPT ![n] = x.sequence]
      /\ actor' = [actor EXCEPT ![a] = [step |-> "logged", record |-> x]]
      /\ logged' = logged \cup {x} /\ damaged' = (damaged \/ unsure)
      /\ UNCHANGED <<anchor, checkpoint, running, pruning, archive, unsure>>
  BY DEF AppendRecord
<1>13. \A k \in Numbers : files'[k] = IF k = n THEN files[n] \cup {x} ELSE files[k]
  BY <1>0, <1>1 DEF Typed
<1>14. ASSUME ~unsure, ~damaged, Heads' \subseteq Heads \cup {x}
      PROVE  /\ \A y, z \in Disk' : y.hash < z.hash => y.sequence < z.sequence
             /\ \A y \in Disk' : Chained(y)'
             /\ \A y \in Disk' : y.sequence = anchor'.sequence => y.hash = anchor'.hash
             /\ \A c \in Heads' : HeadOK(c)'
  BY <1>0, <1>2, <1>14, ChainGrows
<1>15. unsure \/ damaged \/ \A z \in Disk : z.sequence <= LogHead.sequence
  BY <1>0, DiskEnds
<1> HIDE DEF x, n
<1>3. /\ LogHead.sequence \in Nat /\ anchor.sequence \in Nat
      /\ anchor.sequence <= LogHead.sequence
      /\ \A r \in records : r.sequence <= LogHead.sequence
      /\ \A r \in records \cup archive \cup logged : r.sequence \in Nat /\ r.hash \in 1..writes
      /\ x.sequence \in Nat
  BY <1>0, <1>1, HeadIs, Fields DEF Typed
<1>4. \A r \in records : r.sequence < x.sequence BY <1>1, <1>3
<1>5. LogHead' = x
  <2>1. Newest(records \cup {x}) = x BY <1>3, <1>4, NewestAdded
  <2>2. records' # {} BY <1>2
  <2>3. LogHead' = Newest(records') BY <2>2 DEF LogHead, Newest
  <2> QED BY <2>1, <2>3, <1>2
<1>6. Typed'
  <2>1. /\ records' \cup archive' \cup logged' \subseteq RecordOf(writes')
        /\ {anchor', checkpoint'} \subseteq RecordOf(writes') \cup {Zero}
    BY <1>0, <1>1, <1>2 DEF Typed
  <2>2. x.sequence \in 0..writes' BY <1>1, Fields
  <2>3. ranges' \in [Numbers -> 0..writes']
    <3>1. ranges \in [Numbers -> 0..writes'] BY <1>0, <1>1 DEF Typed
    <3> QED BY <3>1, <2>2, <1>2
  <2>4. actor' \in [Actors -> [step : {"idle", "logged", "pruned"},
                               record : RecordOf(writes') \cup {Zero}]]
    <3>1. actor \in [Actors -> [step : {"idle", "logged", "pruned"},
                                record : RecordOf(writes') \cup {Zero}]]
      BY <1>0, <1>1 DEF Typed
    <3> QED BY <3>1, <1>1, <1>2
  <2> QED BY <1>0, <1>1, <1>2, <2>1, <2>3, <2>4 DEF Typed
<1>7. ASSUME NEW y, Past(y), y.sequence \in Nat PROVE Past(y)'
  <2>1. y.sequence < x.sequence BY <1>7, <1>1, <1>3 DEF Past
  <2> QED BY <2>1, <1>7, <1>1, <1>2 DEF Past
<1>8. SegmentsOK'
  <2>1. ASSUME NEW k \in Numbers, ranges'[k] # 0
        PROVE  \E r \in files'[k] \cap records' : r.sequence = ranges'[k]
    <3>1. CASE k = n BY <3>1, <1>1, <1>2, <1>13, <1>0 DEF Typed
    <3>2. CASE k # n
      <4>1. ranges'[k] = ranges[k] /\ files'[k] = files[k] BY <3>2, <1>2, <1>13
      <4> QED BY <4>1, <2>1, <1>2 DEF IInv, SegmentsOK
    <3> QED BY <3>1, <3>2
  <2>2. ASSUME NEW k \in Numbers, NEW r \in files'[k] \cap records'
        PROVE  r.sequence <= ranges'[k]
    <3>1. CASE k = n
      <4>1. ranges'[k] = x.sequence BY <3>1, <1>0, <1>2 DEF Typed
      <4> QED BY <4>1, <2>2, <1>2, <1>3, <1>4
    <3>2. CASE k # n
      <4>1. ranges'[k] = ranges[k] /\ files'[k] = files[k] BY <3>2, <1>2, <1>13
      <4>2. r \in files[k] \cap records BY <4>1, <2>2, <1>1, <1>2 DEF Disk
      <4> QED BY <4>1, <4>2 DEF IInv, SegmentsOK
    <3> QED BY <3>1, <3>2
  <2> QED BY <1>1, <2>1, <2>2 DEF SegmentsOK
<1>9. MemoryOK'
  <2>1. ASSUME NEW y \in records', NEW z \in records'
        PROVE  /\ y.hash = z.hash => y = z
               /\ y.hash < z.hash => y.sequence < z.sequence
    <3>1. CASE y \in records /\ z \in records BY <3>1, <1>0 DEF MemoryOK
    <3>2. CASE y \in records /\ z = x BY <3>2, <1>1, <1>3, <1>4
    <3>3. CASE y = x /\ z \in records BY <3>3, <1>1, <1>3
    <3>4. CASE y = x /\ z = x BY <3>4, <1>1
    <3> QED BY <1>2, <3>1, <3>2, <3>3, <3>4
  <2>2. anchor' \in records' \/ \A r \in records' : Later(r)'
    <3>1. x.sequence > anchor.sequence BY <1>1, <1>3
    <3> QED BY <3>1, <1>0, <1>2 DEF MemoryOK, Later
  <2>3. \A r \in records' : r \in Disk' \/ Past(r)'
    BY <1>0, <1>1, <1>2, <1>3, <1>7 DEF MemoryOK
  <2>4. ASSUME NEW y \in Disk' PROVE y \in records' \/ Past(y)' \/ Unknown(y)'
    <3>1. CASE y = x BY <3>1, <1>2
    <3>2. CASE y \in Disk
      <4>1. y.sequence \in Nat BY <3>2, <1>0, <1>1, DiskTyped, Fields
      <4>2. y \in records \/ Past(y) \/ Unknown(y) BY <3>2, <1>0 DEF MemoryOK
      <4>3. unsure => Unknown(y)' BY <1>2 DEF Unknown
      <4> QED BY <4>1, <4>2, <4>3, <1>2, <1>7 DEF Unknown
    <3> QED BY <3>1, <3>2, <1>1
  <2>5. records' \cap Disk' # {} BY <1>1, <1>2
  <2> QED BY <2>1, <2>2, <2>3, <2>4, <2>5 DEF MemoryOK
<1>10. PruneOK' BY <1>0, <1>2 DEF PruneOK, NoPrune
<1>11. ExportedOK'
  <2>1. ASSUME NEW y \in archive PROVE y.sequence < x.sequence
    <3>1. y \in records \/ Past(y) BY <1>0 DEF IInv, ExportedOK
    <3> QED BY <3>1, <1>1, <1>3, <1>4 DEF Past
  <2>2. x.sequence > anchor.sequence BY <1>1, <1>3
  <2>3. ASSUME NEW r \in logged' \ archive'
        PROVE  /\ r \in Disk' /\ Later(r)' /\ r \in records'
               /\ \A y \in archive' : y.sequence < r.sequence
    <3>1. CASE r = x BY <3>1, <2>1, <2>2, <1>1, <1>2 DEF Later
    <3>2. CASE r \in logged \ archive
      BY <3>2, <1>0, <1>1, <1>2 DEF IInv, ExportedOK, Later
    <3> QED BY <3>1, <3>2, <1>2
  <2>4. ASSUME NEW y \in archive' PROVE y \in records' \cap Disk' \/ Past(y)'
    <3>1. y \in records \cap Disk \/ Past(y) BY <1>0, <1>2 DEF IInv, ExportedOK
    <3> QED BY <3>1, <1>1, <1>2, <1>3, <1>7
  <2> QED BY <2>3, <2>4, <1>0, <1>2 DEF ExportedOK
<1>12. ASSUME ~damaged' PROVE ChainOK'
  <2>0. ~unsure /\ ~damaged /\ ChainOK BY <1>12, <1>2 DEF IInv
  <2>1. Heads' \subseteq Heads \cup {x}
    BY <1>0, <1>2 DEF Heads, At, Typed
  <2>2. ASSUME NEW c \in Heads' PROVE c.sequence <= LogHead'.sequence
    <3>1. CASE c = x BY <3>1, <1>3, <1>5
    <3>2. CASE c \in Heads
      <4>1. c.sequence <= LogHead.sequence BY <3>2, <2>0, <1>0 DEF ChainOK
      <4>2. c.sequence \in Nat BY <3>2, <1>0, <1>1, Fields DEF Typed, Heads
      <4> QED BY <4>1, <4>2, <1>1, <1>3, <1>5
    <3> QED BY <3>1, <3>2, <2>1
  <2>3. ASSUME NEW k \in Numbers, files'[k] # {} PROVE ranges'[k] # 0
    <3>1. CASE k = n
      <4>1. ranges'[k] = x.sequence BY <3>1, <1>0, <1>2 DEF Typed
      <4> QED BY <4>1, <1>1, <1>3
    <3>2. CASE k # n
      <4>1. files[k] # {} /\ ranges'[k] = ranges[k] BY <3>2, <2>3, <1>2, <1>13
      <4>2. PICK z \in files[k] : TRUE BY <4>1
      <4>3. z \in Disk BY <4>2 DEF Disk
      <4>4. z.sequence <= LogHead.sequence /\ z.sequence \in Nat
        BY <4>3, <2>0, <1>15, <1>0, <1>1, DiskTyped, Fields
      <4>5. ranges[k] # 0 BY <4>1, <4>2, <4>4, <1>0, <1>3, <2>0 DEF ChainOK
      <4> QED BY <4>1, <4>5
    <3> QED BY <3>1, <3>2
  <2> QED BY <1>14, <2>0, <2>1, <2>2, <2>3 DEF ChainOK
<1> QED BY <1>1, <1>6, <1>8, <1>9, <1>10, <1>11, <1>12 DEF IInv

\* A failed append leaves its record on disk or not, and nothing in memory.
LEMMA AppendFailsStep ==
    ASSUME IInv, NEW a \in Actors, AppendFails(a)
    PROVE  IInv'
<1> DEFINE x == NewRecord
<1> DEFINE n == SegmentForAppend
<1>0. /\ Free /\ n # 0 /\ running = "up" /\ pruning = NoPrune /\ Typed /\ MemoryOK
      /\ actor' = [actor EXCEPT ![a] = Idle]
      /\ UNCHANGED <<anchor, checkpoint, running, records, ranges, pruning, archive, logged>>
  BY DEF AppendFails, Appending, Free, IInv
<1>1. LogHead' = LogHead BY <1>0 DEF LogHead, Newest
<1>2. Heads' \subseteq Heads BY <1>0 DEF Heads, At, Idle, Typed
<1>3. PruneOK' BY <1>0 DEF PruneOK, NoPrune
<1>4. CASE Written(n) /\ unsure' = TRUE /\ damaged' = (damaged \/ unsure)
  <2>1. /\ n \in Numbers /\ writes \in Nat /\ writes' = writes + 1 /\ writes' \in 0..MaxWrites
        /\ RecordOf(writes) \subseteq RecordOf(writes')
        /\ x.sequence = LogHead.sequence + 1
        /\ files' = [files EXCEPT ![n] = @ \cup {x}]
        /\ files' \in [Numbers -> SUBSET RecordOf(writes')]
        /\ Disk' = Disk \cup {x} /\ x \notin Disk \cup records
        /\ segments' \subseteq Numbers /\ FilesOK'
        /\ Cardinality(segments') <= MaxSegments
        /\ \A k \in segments' : k <= writes' + 1
        /\ \A k \in Numbers : files'[k] # {} => k \in segments'
    <3> HIDE DEF x, n
    <3> QED BY <1>0, <1>4, WriteFacts DEF x, n
  <2>2. ASSUME ~unsure, ~damaged
        PROVE  /\ \A y, z \in Disk' : y.hash < z.hash => y.sequence < z.sequence
               /\ \A y \in Disk' : Chained(y)'
               /\ \A y \in Disk' : y.sequence = anchor'.sequence => y.hash = anchor'.hash
               /\ \A c \in Heads' : HeadOK(c)'
    BY <1>0, <1>2, <1>4, <2>2, ChainGrows
  <2>3. \A k \in Numbers : files'[k] = IF k = n THEN files[n] \cup {x} ELSE files[k]
    BY <1>0, <2>1 DEF Typed
  <2> HIDE DEF x, n
  <2>4. Typed'
    <3>1. /\ records' \cup archive' \cup logged' \subseteq RecordOf(writes')
          /\ {anchor', checkpoint'} \subseteq RecordOf(writes') \cup {Zero}
          /\ ranges' \in [Numbers -> 0..writes']
      BY <1>0, <2>1 DEF Typed
    <3>2. actor' \in [Actors -> [step : {"idle", "logged", "pruned"},
                                 record : RecordOf(writes') \cup {Zero}]]
      <4>1. actor \in [Actors -> [step : {"idle", "logged", "pruned"},
                                  record : RecordOf(writes') \cup {Zero}]]
        BY <1>0, <2>1 DEF Typed
      <4> QED BY <4>1, <1>0 DEF Idle
    <3> QED BY <1>0, <1>4, <2>1, <3>1, <3>2 DEF Typed
  <2>5. /\ records' \cap Disk' = records \cap Disk
        /\ \A k \in Numbers : files'[k] \cap records' = files[k] \cap records
    BY <1>0, <2>1, <2>3
  <2>6. \A y : Past(y)' <=> Past(y) BY <1>0, <2>5 DEF Past
  <2>7. SegmentsOK' BY <1>0, <2>1, <2>5 DEF IInv, SegmentsOK
  <2>8. MemoryOK'
    <3>1. ASSUME NEW y \in Disk' PROVE y \in records' \/ Past(y)' \/ Unknown(y)'
      <4>1. CASE y = x BY <4>1, <2>1, <1>1, <1>4 DEF Unknown
      <4>2. CASE y \in Disk
        <5>1. y \in records \/ Past(y) \/ Unknown(y) BY <4>2, <1>0 DEF MemoryOK
        <5> QED BY <5>1, <2>6, <1>0, <1>4 DEF Unknown
      <4> QED BY <4>1, <4>2, <2>1
    <3>2. \A r \in records' : r \in Disk' \/ Past(r)'
      BY <1>0, <2>1, <2>6 DEF MemoryOK
    <3> QED BY <3>1, <3>2, <1>0, <2>5 DEF MemoryOK, Later
  <2>9. ExportedOK' BY <1>0, <2>1, <2>5, <2>6 DEF IInv, ExportedOK, Later
  <2>10. ASSUME ~damaged' PROVE ChainOK'
    <3>1. ~unsure /\ ~damaged /\ ChainOK BY <2>10, <1>4 DEF IInv
    <3>2. \A c \in Heads' : c.sequence <= LogHead'.sequence
      BY <3>1, <1>0, <1>1, <1>2 DEF ChainOK
    <3>3. ASSUME NEW k \in Numbers, files'[k] # {}, ranges'[k] = 0, NEW z \in files'[k]
          PROVE  z.sequence = LogHead'.sequence + 1
      <4>1. CASE z = x BY <4>1, <1>1, <2>1
      <4>2. CASE z # x
        <5>1. z \in files[k] BY <4>2, <3>3, <2>3
        <5> QED BY <5>1, <3>1, <3>3, <1>0, <1>1 DEF ChainOK
      <4> QED BY <4>1, <4>2
    <3> QED BY <2>2, <3>1, <3>2, <3>3 DEF ChainOK
  <2> QED BY <1>3, <2>1, <2>4, <2>7, <2>8, <2>9, <2>10 DEF IInv
<1>5. CASE segments' = segments \cup {n} /\ UNCHANGED <<writes, files, unsure, damaged>>
  <2>1. /\ n \in Numbers /\ n <= writes + 1 /\ Cardinality(segments \cup {n}) <= MaxSegments
    <3> HIDE DEF n
    <3> QED BY <1>0, SegmentIs DEF n
  <2> HIDE DEF n, x
  <2>2. Disk' = Disk BY <1>5 DEF Disk
  <2>3. Typed' BY <1>0, <1>5, <2>1 DEF Typed, Idle
  <2>4. FilesOK' BY <1>5, <2>2 DEF IInv, FilesOK
  <2>5. SegmentsOK' BY <1>0, <1>5, <2>1 DEF IInv, SegmentsOK
  <2>6. MemoryOK' BY <1>0, <1>1, <1>5, <2>2 DEF MemoryOK, Past, Later, Unknown
  <2>7. ExportedOK' BY <1>0, <1>5, <2>2 DEF IInv, ExportedOK, Past, Later
  <2>8. damaged \/ ChainOK'
    BY <1>0, <1>1, <1>2, <1>5, <2>2 DEF IInv, ChainOK, Chained, HeadOK
  <2> QED BY <1>3, <1>5, <2>3, <2>4, <2>5, <2>6, <2>7, <2>8 DEF IInv
<1> QED BY <1>4, <1>5 DEF AppendFails

----------------------------------------------------------------------------
(* prune_exported *)

\* The anchor of a prune is the last record of a covered segment.
LEMMA AnchorIs ==
    ASSUME IInv, Free, NEW a \in Actors, NEW r, StartPrune(a, r)
    PROVE  /\ anchor' \in records \cap Disk
           /\ anchor'.sequence \in 1..writes /\ anchor'.sequence <= r.sequence
           /\ \A n \in Numbers :
                IF n \in Covered(r.sequence) THEN ranges[n] \in 1 .. anchor'.sequence
                ELSE ranges[n] = 0 \/ ranges[n] > anchor'.sequence
<1> DEFINE eligible == Covered(r.sequence)
<1> DEFINE S == {ranges[n] : n \in eligible}
<1>0. Typed /\ MemoryOK /\ writes \in Nat BY NumbersAre DEF IInv, Typed
<1>1. eligible # {} /\ r \in records /\ Anchored(Max(S)) BY DEF StartPrune
<1>2. r.sequence \in 1..writes BY <1>0, <1>1, Fields DEF Typed
<1>3. \A n \in Numbers : n \in eligible <=> ranges[n] # 0 /\ ranges[n] <= r.sequence
  BY DEF Covered
<1>4. eligible \subseteq Numbers BY DEF Covered
<1>5. \A n \in Numbers : ranges[n] \in 0..writes BY <1>0 DEF Typed
<1> HIDE DEF eligible
<1>6. S \subseteq 0..writes /\ S # {} BY <1>1, <1>4, <1>5
<1>7. Max(S) \in S /\ \A s \in S : s <= Max(S) BY <1>0, <1>6, GreatestIs
<1> DEFINE m == Max(S)
<1>8. Anchored(m) BY <1>1
<1>9. PICK k \in eligible : m = ranges[k] BY <1>7
<1>10. \A n \in eligible : ranges[n] <= m BY <1>7
<1> HIDE DEF m, S
<1>11. PICK y \in files[k] \cap records : y.sequence = m
  BY <1>3, <1>4, <1>9 DEF IInv, SegmentsOK
<1>12. anchor' \in records /\ anchor'.sequence = m BY <1>8, <1>11 DEF Anchored
<1>13. anchor' = y
  <2>1. anchor'.hash \in Nat /\ y.hash \in Nat /\ y.sequence \in Nat
    BY <1>0, <1>11, <1>12, Fields DEF Typed
  <2>2. ~(anchor'.hash < y.hash) /\ ~(y.hash < anchor'.hash)
    BY <1>0, <1>11, <1>12, <2>1 DEF MemoryOK
  <2> QED BY <1>0, <1>11, <1>12, <2>1, <2>2 DEF MemoryOK
<1>14. anchor' \in Disk BY <1>4, <1>9, <1>11, <1>13 DEF Disk
<1>15. m \in 1..writes /\ m <= r.sequence BY <1>3, <1>4, <1>5, <1>9
<1>16. ASSUME NEW n \in Numbers
       PROVE  IF n \in eligible THEN ranges[n] \in 1..m
              ELSE ranges[n] = 0 \/ ranges[n] > m
  BY <1>2, <1>3, <1>5, <1>10, <1>15
<1> QED BY <1>12, <1>14, <1>15, <1>16 DEF eligible

LEMMA StartPruneStep ==
    ASSUME IInv, NEW a \in Actors, NEW r \in archive, StartPrune(a, r)
    PROVE  IInv'
<1> DEFINE eligible == Covered(r.sequence)
<1>0. /\ Free /\ running = "up" /\ pruning = NoPrune /\ r \in records
      /\ Typed /\ MemoryOK /\ writes \in Nat
      /\ eligible \subseteq Numbers /\ eligible # {}
      /\ pruning' = [left |-> eligible, all |-> eligible, by |-> a]
      /\ UNCHANGED <<files, checkpoint, records, segments, ranges, running, actor, archive,
                     writes, logged, unsure, damaged>>
  BY NumbersAre DEF StartPrune, Free, IInv, Typed, Covered, memory, history
<1>1. /\ anchor' \in records \cap Disk
      /\ anchor'.sequence \in 1..writes /\ anchor'.sequence <= r.sequence
      /\ \A n \in Numbers :
           IF n \in eligible THEN ranges[n] \in 1 .. anchor'.sequence
           ELSE ranges[n] = 0 \/ ranges[n] > anchor'.sequence
  BY <1>0, AnchorIs
<1> HIDE DEF eligible
<1>2. /\ Disk' = Disk /\ Heads' = Heads BY <1>0 DEF Disk, Heads, At
<1>3. LogHead' = LogHead BY <1>0, <1>1 DEF LogHead, Newest
<1>4. Typed'
  <2>1. anchor' \in RecordOf(writes) BY <1>0, <1>1 DEF Typed
  <2> QED BY <2>1, <1>0 DEF Typed
<1>5. ASSUME NEW y, Past(y), y.sequence \in Nat PROVE Past(y)'
  <2>1. y.sequence < anchor'.sequence BY <1>1, <1>5 DEF Past
  <2>2. y.sequence <= anchor'.sequence BY <2>1, <1>1, <1>5
  <2> QED BY <2>2, <1>0, <1>2, <1>5 DEF Past
<1>6. /\ \A y \in records \cup Disk \cup archive \cup logged : y.sequence \in Nat
  BY <1>0, Fields, DiskTyped DEF Typed
<1>7. FilesOK' /\ SegmentsOK' BY <1>0, <1>2 DEF IInv, FilesOK, SegmentsOK
<1>8. pruning' # NoPrune BY <1>0 DEF NoPrune
<1>9. MemoryOK'
  <2>1. \A y \in records' : y \in Disk' \/ Past(y)'
    BY <1>0, <1>2, <1>5, <1>6 DEF MemoryOK
  <2>2. \A y \in Disk' : y \in records' \/ Past(y)' \/ Unknown(y)'
    <3>1. ASSUME NEW y \in Disk PROVE y \in records \/ Past(y)' \/ Unknown(y)'
      <4>1. y \in records \/ Past(y) \/ Unknown(y) BY <1>0 DEF MemoryOK
      <4> QED BY <4>1, <1>0, <1>3, <1>5, <1>6 DEF Unknown
    <3> QED BY <3>1, <1>0, <1>2
  <2> QED BY <2>1, <2>2, <1>0, <1>1, <1>8 DEF MemoryOK
<1>10. PruneOK' BY <1>0, <1>1, <1>8 DEF PruneOK
<1>11. ExportedOK'
  <2>1. ASSUME NEW y \in logged \ archive PROVE Later(y)'
    <3>1. r.sequence < y.sequence /\ r.sequence \in Nat BY <1>0, <1>6 DEF IInv, ExportedOK
    <3> QED BY <3>1, <1>1, <1>6 DEF Later
  <2>2. \A y \in archive : y \in records' \cap Disk' \/ Past(y)'
    BY <1>0, <1>2, <1>5, <1>6 DEF IInv, ExportedOK
  <2> QED BY <2>1, <2>2, <1>0, <1>2 DEF IInv, ExportedOK
<1>12. ASSUME ~damaged' PROVE ChainOK'
  <2>0. ChainOK BY <1>12, <1>0 DEF IInv
  <2>1. \A y \in Disk : y.sequence \in Nat /\ y.hash \in Nat BY <1>0, Fields, DiskTyped
  <2>2. ASSUME NEW y \in Disk, y.sequence = anchor'.sequence PROVE y = anchor'
    <3>1. anchor'.hash \in Nat BY <1>1, <2>1
    <3>2. ~(y.hash < anchor'.hash) /\ ~(anchor'.hash < y.hash)
      BY <1>1, <2>0, <2>1, <2>2 DEF ChainOK
    <3> QED BY <3>1, <3>2, <1>1, <2>1 DEF IInv, FilesOK
  <2>3. ASSUME NEW y \in Disk PROVE Chained(y)'
    <3>1. CASE \E x \in Disk : x.sequence + 1 = y.sequence /\ x.hash = y.previous
      BY <3>1, <1>2 DEF Chained
    <3>2. CASE \A z \in Disk : y.sequence <= z.sequence
      <4>1. y.sequence <= anchor'.sequence BY <3>2, <1>1
      <4>2. y.sequence <= anchor'.sequence + 1 /\ y.sequence # anchor'.sequence + 1
        BY <4>1, <1>1, <2>1
      <4> QED BY <3>2, <4>2, <1>2 DEF Chained
    <3> QED BY <3>1, <3>2, <2>0 DEF ChainOK, Chained
  <2>4. ASSUME NEW c \in Heads PROVE HeadOK(c)'
    <3>1. CASE c \in Disk BY <3>1, <1>2 DEF HeadOK
    <3>2. CASE c \notin Disk
      <4>1. \A z \in Disk : c.sequence < z.sequence BY <3>2, <2>0 DEF ChainOK, HeadOK
      <4>2. c.sequence < anchor'.sequence BY <4>1, <1>1
      <4>3. c.sequence \in Nat BY <1>0, Fields DEF Typed, Heads
      <4>4. c.sequence <= anchor'.sequence /\ c.sequence # anchor'.sequence
        BY <4>2, <4>3, <1>1
      <4> QED BY <4>1, <4>4, <1>2 DEF HeadOK
    <3> QED BY <3>1, <3>2
  <2> QED BY <2>0, <2>2, <2>3, <2>4, <1>0, <1>2, <1>3 DEF ChainOK
<1> QED BY <1>4, <1>7, <1>9, <1>10, <1>11, <1>12 DEF IInv

\* Files that go leave the others as they are.
LEMMA FilesShrink ==
    ASSUME Typed, FilesOK, writes' = writes,
           files' \in [Numbers -> SUBSET RecordOf(writes)],
           \A n \in Numbers : files'[n] = files[n] \/ files'[n] = {}
    PROVE  /\ FilesOK' /\ Disk' \subseteq Disk
           /\ \A n \in Numbers : files'[n] \subseteq files[n]
<1>1. Disk' \subseteq Disk /\ \A n \in Numbers : files'[n] \subseteq files[n]
  BY DEF Disk
<1>2. \A n \in Numbers : IsFiniteSet(files'[n]) /\ Cardinality(files'[n]) <= SegmentRecords
  BY FS_EmptySet, NumbersAre DEF FilesOK
<1>3. Cardinality({n \in Numbers : files'[n] # {}}) <= MaxSegments
  <2> DEFINE old == {n \in Numbers : files[n] # {}}
  <2> DEFINE new == {n \in Numbers : files'[n] # {}}
  <2>1. new \subseteq old /\ old \subseteq Numbers BY <1>1
  <2>2. IsFiniteSet(old) BY <2>1, NumbersAre, FS_Subset
  <2>3. /\ Cardinality(new) <= Cardinality(old) /\ Cardinality(old) <= MaxSegments
        /\ Cardinality(new) \in Nat /\ Cardinality(old) \in Nat
    BY <2>1, <2>2, FS_Subset, FS_CardinalityType DEF FilesOK
  <2> QED BY <2>3, NumbersAre
<1>4. \A n \in Numbers : files'[n] # {} => n <= writes' BY <1>1 DEF FilesOK
<1>5. \A m, n \in Numbers : m < n => \A x \in files'[m], y \in files'[n] : x.hash < y.hash
  BY <1>1 DEF FilesOK
<1>6. \A x, y \in Disk' : x.hash = y.hash => x = y BY <1>1 DEF FilesOK
<1> QED BY <1>1, <1>2, <1>3, <1>4, <1>5, <1>6 DEF FilesOK

\* The first segment of a prune goes: what remains in memory and on disk is later.
LEMMA UnlinkFacts ==
    ASSUME IInv, Unlink, NEW n, n = Min(pruning.left)
    PROVE  /\ n \in pruning.left /\ n \in Numbers /\ pruning # NoPrune
           /\ ranges[n] \in 1..anchor.sequence
           /\ files' = [files EXCEPT ![n] = {}]
           /\ \A k \in Numbers : files'[k] = IF k = n THEN {} ELSE files[k]
           /\ FilesOK' /\ Disk' \subseteq Disk /\ Disk \subseteq Disk' \cup files[n]
           /\ \A z \in records \cap Disk', y \in files[n] : y.hash < z.hash
           /\ \A y \in files[n] \cap records :
                y.sequence <= anchor.sequence
                /\ \A z \in records \cap Disk' : y.sequence < z.sequence
<1>0. /\ pruning.left # {} /\ pruning.left \subseteq Numbers /\ Typed /\ MemoryOK /\ FilesOK
      /\ files' = [files EXCEPT ![n] = {}] /\ writes' = writes
  BY DEF Unlink, IInv, Typed
<1>1. n \in pruning.left /\ \A k \in pruning.left : n <= k
  <2>1. pruning.left \subseteq Nat BY <1>0, NumbersAre
  <2> QED BY <1>0, <2>1, LeastIs
<1>2. n \in Numbers /\ pruning # NoPrune BY <1>0, <1>1 DEF NoPrune
<1>3. ranges[n] \in 1..anchor.sequence BY <1>1, <1>2 DEF IInv, PruneOK
<1>4. /\ files \in [Numbers -> SUBSET RecordOf(writes)]
      /\ files' \in [Numbers -> SUBSET RecordOf(writes)]
      /\ \A k \in Numbers : files'[k] = IF k = n THEN {} ELSE files[k]
  BY <1>0, <1>2 DEF Typed
<1>5. /\ FilesOK' /\ Disk' \subseteq Disk
      /\ \A k \in Numbers : files'[k] \subseteq files[k]
  BY <1>0, <1>4, FilesShrink
<1>6. Disk \subseteq Disk' \cup files[n] BY <1>4 DEF Disk
<1>7. /\ anchor.sequence \in Nat /\ \A k \in Numbers : ranges[k] \in Nat
      /\ \A x \in records \cup Disk : x.sequence \in Nat /\ x.sequence # 0 /\ x.hash \in Nat
  BY <1>0, DiskTyped, Fields, HeadIs DEF Typed
<1>8. PICK v \in files[n] \cap records : v.sequence = ranges[n]
  BY <1>2, <1>3, <1>7 DEF IInv, SegmentsOK
<1>9. ASSUME NEW z \in records \cap Disk', NEW y \in files[n] PROVE y.hash < z.hash
  <2>1. PICK k \in Numbers : z \in files'[k] BY DEF Disk
  <2>2. k # n /\ z \in files[k] \cap records BY <2>1, <1>4
  <2>3. CASE n < k BY <2>2, <2>3, <1>0, <1>2 DEF FilesOK
  <2>4. CASE k < n
    <3>1. z.sequence <= ranges[k] BY <2>2 DEF IInv, SegmentsOK
    <3>2. ranges[k] # 0 BY <3>1, <1>7, <2>2
    <3>3. k \notin pruning.left BY <2>4, <1>1, <1>2, NumbersAre
    <3>4. ranges[k] > anchor.sequence BY <3>2, <3>3, <1>2 DEF IInv, PruneOK
    <3>5. PICK w \in files[k] \cap records : w.sequence = ranges[k]
      BY <3>2 DEF IInv, SegmentsOK
    <3>6. w.hash < v.hash BY <2>4, <3>5, <1>2, <1>8, <1>0 DEF FilesOK
    <3>7. w.sequence < v.sequence BY <3>5, <3>6, <1>8, <1>0 DEF MemoryOK
    <3> QED BY <3>4, <3>5, <3>7, <1>3, <1>7, <1>8
  <2> QED BY <2>2, <2>3, <2>4, <1>2, NumbersAre
<1>10. ASSUME NEW y \in files[n] \cap records
       PROVE  /\ y.sequence <= anchor.sequence
              /\ \A z \in records \cap Disk' : y.sequence < z.sequence
  <2>1. y.sequence <= ranges[n] BY <1>2 DEF IInv, SegmentsOK
  <2>2. y.sequence <= anchor.sequence BY <2>1, <1>2, <1>3, <1>7
  <2> QED BY <2>2, <1>0, <1>9 DEF MemoryOK
<1> QED BY <1>0, <1>1, <1>2, <1>3, <1>4, <1>5, <1>6, <1>9, <1>10

\* A chain that loses its first segment starts at the anchor or before.
LEMMA UnlinkChain ==
    ASSUME IInv, Unlink, ~damaged, Heads' = Heads, LogHead' = LogHead, UNCHANGED anchor,
           UNCHANGED running
    PROVE  ChainOK'
<1> DEFINE n == Min(pruning.left)
<1>0. /\ n \in pruning.left /\ n \in Numbers /\ pruning # NoPrune
      /\ ranges[n] \in 1..anchor.sequence
      /\ \A k \in Numbers : files'[k] = IF k = n THEN {} ELSE files[k]
      /\ FilesOK' /\ Disk' \subseteq Disk /\ Disk \subseteq Disk' \cup files[n]
      /\ \A z \in records \cap Disk', y \in files[n] : y.hash < z.hash
      /\ \A y \in files[n] \cap records :
           y.sequence <= anchor.sequence
           /\ \A z \in records \cap Disk' : y.sequence < z.sequence
  BY UnlinkFacts
<1>1. /\ Typed /\ MemoryOK /\ FilesOK /\ ChainOK /\ running = "up"
      /\ ranges' = [ranges EXCEPT ![n] = 0]
  BY DEF IInv, Unlink
<1> HIDE DEF n
<1>2. /\ anchor.sequence \in Nat /\ LogHead.sequence \in Nat
      /\ anchor.sequence <= LogHead.sequence
      /\ \A x \in records \cup Disk : x.sequence \in Nat /\ x.hash \in Nat
      /\ \A x \in records : x.sequence <= LogHead.sequence
      /\ \A k \in Numbers : files[k] \subseteq Disk
      /\ \A c \in Heads : c.sequence \in Nat
  BY <1>1, DiskTyped, Fields, HeadIs DEF Typed, Heads
<1>3. ASSUME NEW y \in Disk PROVE y.sequence <= LogHead.sequence + 1
  <2>1. y \in records \/ Past(y) \/ y.sequence = LogHead.sequence + 1
    BY <1>1 DEF MemoryOK, Unknown
  <2> QED BY <2>1, <1>2 DEF Past
<1>4. ASSUME NEW y \in files[n], y.sequence <= LogHead.sequence
      PROVE  /\ y.sequence <= anchor.sequence
             /\ \A z \in Disk' : y.sequence < z.sequence
  <2>0. y \in Disk BY <1>0, <1>2
  <2>1. y \in records \/ Past(y) \/ y.sequence = LogHead.sequence + 1
    BY <1>1, <2>0 DEF MemoryOK, Unknown
  <2>2. y.sequence <= anchor.sequence BY <2>0, <2>1, <1>0, <1>2, <1>4 DEF Past
  <2>3. ASSUME NEW z \in Disk' PROVE y.sequence < z.sequence
    <3>1. PICK k \in Numbers : z \in files'[k] BY DEF Disk
    <3>2. k # n /\ z \in files[k] /\ z \in Disk BY <3>1, <1>0
    <3>3. CASE n < k
      <4>1. y.hash < z.hash BY <3>2, <3>3, <1>0, <1>1 DEF FilesOK
      <4> QED BY <4>1, <3>2, <2>0, <1>1 DEF ChainOK
    <3>4. CASE k < n
      <4>1. z.hash < y.hash BY <3>2, <3>4, <1>0, <1>1 DEF FilesOK
      <4>2. z.sequence < y.sequence BY <4>1, <3>2, <2>0, <1>1 DEF ChainOK
      <4>3. z.sequence # LogHead.sequence + 1 BY <4>2, <3>2, <2>0, <1>2, <1>4
      <4>4. ranges[k] # 0 BY <4>3, <3>2, <1>1 DEF ChainOK
      <4>5. PICK w \in files[k] \cap records : w.sequence = ranges[k]
        BY <4>4 DEF IInv, SegmentsOK
      <4>6. w \in files'[k] BY <4>5, <3>2, <1>0
      <4>7. w \in Disk' BY <4>6 DEF Disk
      <4>8. y.hash < w.hash BY <4>5, <4>7, <1>0
      <4>9. w.hash < y.hash BY <4>5, <3>4, <1>0, <1>1 DEF FilesOK
      <4> QED BY <4>5, <4>8, <4>9, <2>0, <1>2
    <3> QED BY <3>2, <3>3, <3>4, <1>0, NumbersAre
  <2> QED BY <2>2, <2>3
<1>5. ASSUME NEW y \in Disk' PROVE Chained(y)'
  <2>0. y \in Disk BY <1>0
  <2>1. CASE \E p \in Disk : p.sequence + 1 = y.sequence /\ p.hash = y.previous
    <3>1. PICK p \in Disk : p.sequence + 1 = y.sequence /\ p.hash = y.previous BY <2>1
    <3>2. CASE p \in Disk' BY <3>1, <3>2 DEF Chained
    <3>3. CASE p \notin Disk'
      <4>1. p \in files[n] BY <3>3, <1>0
      <4>2. p.sequence <= LogHead.sequence BY <3>1, <2>0, <1>2, <1>3
      <4>3. /\ p.sequence <= anchor.sequence /\ \A z \in Disk' : p.sequence < z.sequence
        BY <4>1, <4>2, <1>4
      <4>4. \A z \in Disk' : y.sequence <= z.sequence
        BY <4>3, <3>1, <2>0, <1>0, <1>2
      <4>5. y.sequence <= anchor.sequence + 1 BY <4>3, <3>1, <2>0, <1>2
      <4>6. y.sequence = anchor.sequence + 1 => p.sequence = anchor.sequence
        BY <3>1, <2>0, <1>2
      <4>7. y.sequence = anchor.sequence + 1 => y.previous = anchor.hash
        BY <4>6, <3>1, <1>1 DEF ChainOK
      <4> QED BY <4>4, <4>5, <4>7 DEF Chained
    <3> QED BY <3>2, <3>3
  <2>2. CASE /\ \A z \in Disk : y.sequence <= z.sequence
             /\ y.sequence <= anchor.sequence + 1
             /\ y.sequence = anchor.sequence + 1 => y.previous = anchor.hash
    BY <2>2, <1>0 DEF Chained
  <2> QED BY <2>0, <2>1, <2>2, <1>1 DEF ChainOK, Chained
<1>6. ASSUME NEW c \in Heads PROVE HeadOK(c)'
  <2>1. HeadOK(c) /\ c.sequence <= LogHead.sequence BY <1>1 DEF ChainOK
  <2>2. CASE c \in Disk'
    BY <2>2 DEF HeadOK
  <2>3. CASE c \in Disk /\ c \notin Disk'
    <3>1. c \in files[n] BY <2>3, <1>0
    <3>2. /\ c.sequence <= anchor.sequence /\ \A z \in Disk' : c.sequence < z.sequence
      BY <3>1, <2>1, <1>4
    <3>3. c.sequence = anchor.sequence => c.hash = anchor.hash
      BY <2>3, <1>1 DEF ChainOK
    <3> QED BY <3>2, <3>3 DEF HeadOK
  <2>4. CASE c \notin Disk BY <2>1, <2>4, <1>0 DEF HeadOK
  <2> QED BY <2>2, <2>3, <2>4
<1>7. ASSUME NEW k \in Numbers, files'[k] # {}
      PROVE  ranges'[k] # 0 \/ \A z \in files'[k] : z.sequence = LogHead'.sequence + 1
  <2>1. k # n /\ files'[k] = files[k] BY <1>0, <1>7
  <2>2. ranges'[k] = ranges[k] BY <2>1, <1>1
  <2> QED BY <2>1, <2>2, <1>1, <1>7 DEF ChainOK
<1>8. \A x, y \in Disk' : x.hash < y.hash => x.sequence < y.sequence BY <1>0, <1>1 DEF ChainOK
<1>9. \A x \in Disk' : x.sequence = anchor'.sequence => x.hash = anchor'.hash
  BY <1>0, <1>1 DEF ChainOK
<1>10. \A c \in Heads' : c.sequence <= LogHead'.sequence BY <1>1 DEF ChainOK
<1> QED BY <1>5, <1>6, <1>7, <1>8, <1>9, <1>10 DEF ChainOK

LEMMA UnlinkStep ==
    ASSUME IInv, Unlink
    PROVE  IInv'
<1> DEFINE n == Min(pruning.left)
<1>0. /\ running = "up" /\ Typed /\ MemoryOK
      /\ ranges' = [ranges EXCEPT ![n] = 0]
      /\ pruning' = [pruning EXCEPT !.left = @ \ {n}]
      /\ UNCHANGED <<anchor, checkpoint, records, segments, running, actor, archive, writes,
                     logged, unsure, damaged>>
  BY DEF Unlink, IInv, history
<1>1. /\ n \in pruning.left /\ n \in Numbers /\ pruning # NoPrune
      /\ ranges[n] \in 1..anchor.sequence
      /\ \A k \in Numbers : files'[k] = IF k = n THEN {} ELSE files[k]
      /\ files' = [files EXCEPT ![n] = {}]
      /\ FilesOK' /\ Disk' \subseteq Disk /\ Disk \subseteq Disk' \cup files[n]
      /\ \A y \in files[n] \cap records :
           y.sequence <= anchor.sequence
           /\ \A z \in records \cap Disk' : y.sequence < z.sequence
  BY UnlinkFacts
<1> HIDE DEF n
<1>2. Heads' = Heads /\ LogHead' = LogHead BY <1>0 DEF Heads, At, LogHead, Newest
<1>3. Typed' BY <1>0, <1>1 DEF Typed
<1>4. /\ \A y : Past(y) => Past(y)'
      /\ \A y \in files[n] \cap records : Past(y)'
  BY <1>0, <1>1 DEF Past
<1>5. SegmentsOK'
  <2>1. \A k \in Numbers : files'[k] # {} => k \in segments BY <1>0, <1>1 DEF IInv, SegmentsOK
  <2>2. ASSUME NEW k \in Numbers, ranges'[k] # 0
        PROVE  \E r \in files'[k] \cap records : r.sequence = ranges'[k]
    <3>1. k # n /\ ranges'[k] = ranges[k] BY <2>2, <1>0 DEF Typed
    <3> QED BY <3>1, <2>2, <1>1 DEF IInv, SegmentsOK
  <2>3. ASSUME NEW k \in Numbers, NEW r \in files'[k] \cap records
        PROVE  r.sequence <= ranges'[k]
    <3>1. k # n BY <2>3, <1>1
    <3>2. ranges'[k] = ranges[k] /\ files'[k] = files[k] BY <3>1, <1>0, <1>1
    <3> QED BY <3>2, <2>3 DEF IInv, SegmentsOK
  <2> QED BY <2>1, <2>2, <2>3, <1>0 DEF IInv, SegmentsOK
<1>6. pruning' # NoPrune
  <2>1. pruning'.all = pruning.all /\ n \in pruning.all BY <1>0, <1>1 DEF Typed
  <2> QED BY <2>1 DEF NoPrune
<1>7. MemoryOK'
  <2>1. \A r \in records' : r \in Disk' \/ Past(r)'
    BY <1>0, <1>1, <1>4 DEF MemoryOK
  <2>2. \A x \in Disk' : x \in records' \/ Past(x)' \/ Unknown(x)'
    BY <1>0, <1>1, <1>2, <1>4 DEF MemoryOK, Unknown
  <2> QED BY <2>1, <2>2, <1>0, <1>6 DEF MemoryOK, Later
<1>8. PruneOK'
  <2>1. /\ pruning'.left = pruning.left \ {n} /\ pruning'.all = pruning.all
        /\ pruning'.by = pruning.by
    BY <1>0 DEF Typed
  <2>2. ASSUME NEW k \in Numbers
        PROVE  IF k \in pruning'.left THEN ranges'[k] \in 1..anchor'.sequence
               ELSE ranges'[k] = 0 \/ ranges'[k] > anchor'.sequence
    <3>1. CASE k = n BY <3>1, <2>1, <1>0 DEF Typed
    <3>2. CASE k # n
      <4>1. ranges'[k] = ranges[k] /\ (k \in pruning'.left <=> k \in pruning.left)
        BY <3>2, <2>1, <1>0
      <4> QED BY <4>1, <1>0, <1>1 DEF IInv, PruneOK
    <3> QED BY <3>1, <3>2
  <2>3. \A k \in pruning'.all \ pruning'.left : files'[k] = {}
    BY <2>1, <1>0, <1>1 DEF IInv, PruneOK, Typed
  <2> QED BY <2>1, <2>2, <2>3, <1>0, <1>1 DEF IInv, PruneOK
<1>9. ExportedOK'
  <2>1. ASSUME NEW r \in logged \ archive PROVE r \in Disk'
    <3>1. r \in Disk /\ r \in records /\ r.sequence > anchor.sequence
      BY <1>0 DEF IInv, ExportedOK, Later
    <3>2. r \notin files[n]
      <4>1. r.sequence \in Nat /\ anchor.sequence \in Nat
        BY <1>0, <3>1, Fields, NumbersAre DEF Typed
      <4> QED BY <3>1, <4>1, <1>1
    <3> QED BY <3>1, <3>2, <1>1
  <2>2. \A x \in archive : x \in records \cap Disk' \/ Past(x)'
    BY <1>0, <1>1, <1>4 DEF IInv, ExportedOK
  <2> QED BY <2>1, <2>2, <1>0 DEF IInv, ExportedOK, Later
<1>10. ASSUME ~damaged' PROVE ChainOK'
  BY <1>0, <1>2, <1>10, UnlinkChain
<1> QED BY <1>1, <1>3, <1>5, <1>7, <1>8, <1>9, <1>10 DEF IInv

\* A record before which all others come is the newest.
LEMMA NewestIs ==
    ASSUME NEW R, NEW x \in R, x.sequence \in Nat,
           \A y \in R \ {x} : y.sequence \in Nat /\ y.sequence < x.sequence
    PROVE  Newest(R) = x
<1>1. (R \ {x}) \cup {x} = R OBVIOUS
<1>2. Newest((R \ {x}) \cup {x}) = x BY NewestAdded
<1> QED BY <1>1, <1>2

\* Forgetting what the anchor covers leaves the head of the log as it was.
LEMMA FinishPruneStep ==
    ASSUME IInv, FinishPrune
    PROVE  IInv'
<1>0. /\ running = "up" /\ pruning # NoPrune /\ pruning.left = {} /\ Typed /\ MemoryOK
      /\ records' = {r \in records : r.sequence > anchor.sequence}
      /\ segments' = segments \ pruning.all /\ pruning' = NoPrune
      /\ actor' = [actor EXCEPT ![pruning.by].step = "pruned"]
      /\ UNCHANGED <<files, anchor, checkpoint, ranges, running, archive, writes, logged,
                     unsure, damaged>>
  BY DEF FinishPrune, Pruned, IInv, disk, history
<1>1. /\ writes \in Nat /\ anchor.sequence \in Nat
      /\ \A r \in records : r.sequence \in Nat /\ r.hash \in Nat
      /\ \A n \in Numbers : ranges[n] \in Nat
  BY <1>0, HeadIs, Fields DEF Typed
<1>2. Disk' = Disk BY <1>0 DEF Disk
<1>3. LogHead' = LogHead
  <2>1. /\ records # {} => LogHead \in records
        /\ records = {} => LogHead = anchor
        /\ \A r \in records : r.sequence <= LogHead.sequence
        /\ anchor.sequence <= LogHead.sequence
        /\ LogHead.sequence = anchor.sequence => LogHead = anchor
    BY <1>0, HeadIs
  <2>2. LogHead' = IF records' = {} THEN anchor ELSE Newest(records')
    BY <1>0 DEF LogHead, Newest
  <2>3. CASE records' = {}
    <3>1. ~(LogHead.sequence > anchor.sequence) \/ records = {} BY <2>1, <2>3, <1>0
    <3>2. LogHead = anchor
      <4>1. CASE records = {} BY <4>1, <2>1
      <4>2. CASE records # {}
        <5>1. LogHead.sequence = anchor.sequence BY <4>2, <3>1, <2>1, <1>1
        <5> QED BY <5>1, <2>1
      <4> QED BY <4>1, <4>2
    <3> QED BY <2>2, <2>3, <3>2
  <2>4. CASE records' # {}
    <3>1. PICK z \in records : z.sequence > anchor.sequence BY <2>4, <1>0
    <3>2. LogHead \in records /\ LogHead.sequence > anchor.sequence
      BY <3>1, <2>1, <1>1
    <3>3. LogHead \in records' /\ LogHead.sequence \in Nat BY <3>2, <1>0, <1>1
    <3>4. ASSUME NEW y \in records' \ {LogHead}
          PROVE  y.sequence \in Nat /\ y.sequence < LogHead.sequence
      <4>1. y \in records /\ y.sequence <= LogHead.sequence BY <1>0, <2>1
      <4>2. y.hash < LogHead.hash \/ LogHead.hash < y.hash
        BY <4>1, <3>2, <1>0, <1>1 DEF MemoryOK
      <4>3. y.sequence < LogHead.sequence BY <4>1, <4>2, <3>2, <1>0, <1>1 DEF MemoryOK
      <4> QED BY <4>1, <4>3, <1>1
    <3>5. Newest(records') = LogHead BY <3>3, <3>4, NewestIs
    <3> QED BY <2>2, <2>4, <3>5
  <2> QED BY <2>3, <2>4
<1>4. pruning.by \in Actors BY <1>0 DEF IInv, PruneOK
<1>5. Typed' BY <1>0, <1>4 DEF Typed, NoPrune
<1>6. Heads' \subseteq Heads
  <2>1. \A b \in Actors : actor'[b].record = actor[b].record
                          /\ (actor'[b].step = "logged" => actor[b].step = "logged")
    BY <1>0, <1>4 DEF Typed
  <2> QED BY <2>1, <1>0 DEF Heads, At
<1>7. /\ \A y : Past(y) => Past(y)'
      /\ \A y : y.sequence \in Nat /\ y.sequence <= anchor.sequence => Past(y)'
  BY <1>0, <1>1, <1>2 DEF Past
<1>8. \A y \in records : y \in records' \/ Past(y)' BY <1>0, <1>1, <1>7
<1>9. FilesOK' BY <1>0, <1>2 DEF IInv, FilesOK
<1>10. SegmentsOK'
  <2>1. segments' \subseteq segments /\ IsFiniteSet(segments)
    BY <1>0, NumbersAre, FS_Subset DEF Typed
  <2>2. /\ Cardinality(segments') <= Cardinality(segments)
        /\ Cardinality(segments') \in Nat /\ Cardinality(segments) \in Nat
    BY <2>1, FS_Subset, FS_CardinalityType
  <2>3. Cardinality(segments') <= MaxSegments
    BY <2>2, NumbersAre DEF IInv, SegmentsOK
  <2>4. \A n \in Numbers : files[n] # {} => n \in segments'
    BY <1>0 DEF IInv, SegmentsOK, PruneOK
  <2>5. ASSUME NEW n \in Numbers, ranges[n] # 0
        PROVE  \E r \in files[n] \cap records' : r.sequence = ranges[n]
    <3>1. ranges[n] > anchor.sequence BY <2>5, <1>0 DEF IInv, PruneOK
    <3> QED BY <3>1, <2>5, <1>0 DEF IInv, SegmentsOK
  <2> QED BY <2>1, <2>3, <2>4, <2>5, <1>0 DEF IInv, SegmentsOK
<1>11. MemoryOK'
  <2>1. \A r \in records' : Later(r)' BY <1>0 DEF Later
  <2>2. \A r \in records' : r \in Disk' BY <1>0, <1>1, <1>2 DEF MemoryOK, Past
  <2>3. \A x \in Disk' : x \in records' \/ Past(x)' \/ Unknown(x)'
    BY <1>0, <1>2, <1>3, <1>7, <1>8 DEF MemoryOK, Unknown
  <2>4. \A x, y \in records' :
           (x.hash = y.hash => x = y) /\ (x.hash < y.hash => x.sequence < y.sequence)
    BY <1>0 DEF MemoryOK
  <2> QED BY <2>1, <2>2, <2>3, <2>4 DEF MemoryOK
<1>12. PruneOK' BY <1>0 DEF PruneOK, NoPrune
<1>13. ExportedOK'
  <2>1. \A r \in logged \ archive : r \in records' BY <1>0 DEF IInv, ExportedOK, Later
  <2>2. \A x \in archive : x \in records' \cap Disk' \/ Past(x)'
    BY <1>0, <1>2, <1>7, <1>8 DEF IInv, ExportedOK
  <2> QED BY <2>1, <2>2, <1>0, <1>2 DEF IInv, ExportedOK, Later
<1>14. damaged \/ ChainOK'
  BY <1>0, <1>2, <1>3, <1>6 DEF IInv, ChainOK, Chained, HeadOK
<1> QED BY <1>0, <1>5, <1>9, <1>10, <1>11, <1>12, <1>13, <1>14 DEF IInv

----------------------------------------------------------------------------
(* Start *)

\* A start forgets files whose records all come before the anchor.
LEMMA StartFacts ==
    ASSUME IInv, Start, NEW kept, kept = {n \in Numbers : LaterIn(n) # {}}
    PROVE  /\ FilesOK' /\ Disk' \subseteq Disk /\ OnDisk \subseteq Disk'
           /\ files' \in [Numbers -> SUBSET RecordOf(writes)]
           /\ \A n \in Numbers : files'[n] = IF n \in kept THEN files[n] ELSE {}
           /\ \A y \in Disk : y \in Disk' \/ ~Later(y)
           /\ LogHead' = DiskHead
           /\ OnDisk # {} => DiskHead \in OnDisk
           /\ \A n \in kept : /\ ranges'[n] \in 1..writes
                              /\ \E r \in LaterIn(n) : r.sequence = ranges'[n]
                              /\ \A r \in LaterIn(n) : r.sequence <= ranges'[n]
<1>0. /\ Typed /\ FilesOK /\ ChainVerifies /\ writes \in Nat
      /\ files' = [n \in Numbers |-> IF n \in kept THEN files[n] ELSE {}]
      /\ ranges' = [n \in Numbers |-> IF n \in kept THEN LastRead(LaterIn(n)).sequence ELSE 0]
      /\ records' = OnDisk
      /\ UNCHANGED <<anchor, writes>>
  BY NumbersAre DEF IInv, Typed, Start, Startable
<1>1. /\ OnDisk = {x \in Disk : Later(x)} /\ OnDisk \subseteq Disk
      /\ \A x \in Disk : x.sequence \in 1..writes /\ x.hash \in Nat
  BY <1>0, DiskTyped, Fields
<1>2. /\ files' \in [Numbers -> SUBSET RecordOf(writes)]
      /\ \A n \in Numbers : files'[n] = IF n \in kept THEN files[n] ELSE {}
  BY <1>0 DEF Typed
<1>3. FilesOK' /\ Disk' \subseteq Disk BY <1>0, <1>2, FilesShrink
<1>4. ASSUME NEW y \in Disk, Later(y) PROVE y \in Disk'
  <2>1. PICK n \in Numbers : y \in files[n] BY DEF Disk
  <2>2. n \in kept BY <2>1, <1>4 DEF LaterIn
  <2>3. y \in files'[n] BY <2>1, <2>2, <1>2
  <2> QED BY <2>3 DEF Disk
<1>5. ASSUME NEW R, R \subseteq OnDisk, R # {}
      PROVE  /\ LastRead(R) \in R
             /\ \A x \in R \ {LastRead(R)} : x.sequence < LastRead(R).sequence
  <2>1. LastRead(R) \in R /\ \A x \in R : x.hash <= LastRead(R).hash
    BY <1>0, <1>1, <1>5, LastReadIs
  <2>2. ASSUME NEW x \in R \ {LastRead(R)} PROVE x.sequence < LastRead(R).sequence
    <3>1. x \in Disk /\ LastRead(R) \in Disk BY <2>1, <1>1, <1>5
    <3>2. x.hash # LastRead(R).hash BY <3>1, <1>0 DEF FilesOK
    <3>3. x.hash < LastRead(R).hash BY <2>1, <3>1, <3>2, <1>1
    <3> QED BY <2>1, <3>3, <1>0, <1>5, ChainOrders
  <2> QED BY <2>1, <2>2
<1>6. OnDisk # {} => DiskHead \in OnDisk BY <1>5 DEF DiskHead
<1>7. LogHead' = DiskHead
  <2>1. LogHead' = IF OnDisk = {} THEN anchor ELSE Newest(OnDisk)
    BY <1>0 DEF LogHead, Newest
  <2>2. CASE OnDisk = {} BY <2>1, <2>2 DEF DiskHead
  <2>3. CASE OnDisk # {}
    <3> DEFINE l == LastRead(OnDisk)
    <3>1. l \in OnDisk /\ \A x \in OnDisk \ {l} : x.sequence < l.sequence BY <2>3, <1>5
    <3>2. DiskHead = l BY <2>3 DEF DiskHead
    <3> HIDE DEF l
    <3>3. \A x \in OnDisk : x.sequence \in Nat BY <1>0, <1>1
    <3>4. l \in OnDisk /\ l.sequence \in Nat BY <3>1, <3>3
    <3>5. \A x \in OnDisk \ {l} : x.sequence \in Nat /\ x.sequence < l.sequence
      BY <3>1, <3>3
    <3>6. Newest(OnDisk) = l BY <3>4, <3>5, NewestIs
    <3> QED BY <2>1, <2>3, <3>2, <3>6
  <2> QED BY <2>2, <2>3
<1>8. ASSUME NEW n \in kept
      PROVE  /\ ranges'[n] \in 1..writes
             /\ \E r \in LaterIn(n) : r.sequence = ranges'[n]
             /\ \A r \in LaterIn(n) : r.sequence <= ranges'[n]
  <2> DEFINE l == LastRead(LaterIn(n))
  <2>1. n \in Numbers /\ LaterIn(n) # {} /\ LaterIn(n) \subseteq OnDisk
    BY DEF OnDisk
  <2>2. l \in LaterIn(n) /\ \A x \in LaterIn(n) \ {l} : x.sequence < l.sequence
    BY <2>1, <1>5
  <2>3. ranges'[n] = l.sequence BY <2>1, <1>0
  <2> HIDE DEF l
  <2>4. \A x \in LaterIn(n) : x.sequence \in 1..writes BY <2>1, <1>1
  <2> QED BY <2>2, <2>3, <2>4
<1> QED BY <1>1, <1>2, <1>3, <1>4, <1>6, <1>7, <1>8

\* What is left of a chain starts at the anchor or before.
LEMMA StartChain ==
    ASSUME IInv, Start, ~damaged
    PROVE  ChainOK'
<1> DEFINE kept == {n \in Numbers : LaterIn(n) # {}}
<1>0. /\ FilesOK' /\ Disk' \subseteq Disk /\ OnDisk \subseteq Disk'
      /\ \A n \in Numbers : files'[n] = IF n \in kept THEN files[n] ELSE {}
      /\ \A y \in Disk : y \in Disk' \/ ~Later(y)
      /\ LogHead' = DiskHead
      /\ OnDisk # {} => DiskHead \in OnDisk
      /\ \A n \in kept : ranges'[n] \in 1..writes
  BY StartFacts
<1>1. /\ Typed /\ FilesOK /\ ChainOK /\ writes \in Nat
      /\ checkpoint' = DiskHead /\ running' = "up"
      /\ UNCHANGED <<anchor, actor, writes>>
      /\ \A b \in Actors : actor[b] = Idle
  BY NumbersAre DEF IInv, Typed, PruneOK, Start
<1>2. \A n \in Numbers : n \in kept <=> \E r \in files[n] : Later(r) BY DEF LaterIn
<1> HIDE DEF kept
<1>3. /\ \A x \in Disk : x.sequence \in Nat /\ x.hash \in Nat
      /\ anchor.sequence \in Nat /\ DiskHead.sequence \in Nat
      /\ OnDisk = {x \in Disk : Later(x)}
      /\ \A k \in Numbers : files[k] \subseteq Disk
  <2>1. /\ \A x \in Disk : x.sequence \in Nat /\ x.hash \in Nat
        /\ anchor.sequence \in Nat /\ OnDisk = {x \in Disk : Later(x)}
        /\ \A k \in Numbers : files[k] \subseteq Disk
    BY <1>1, DiskTyped, Fields DEF Typed
  <2>2. DiskHead.sequence \in Nat
    <3>1. CASE OnDisk = {} BY <3>1, <2>1 DEF DiskHead
    <3>2. CASE OnDisk # {} BY <3>2, <2>1, <1>0
    <3> QED BY <3>1, <3>2
  <2> QED BY <2>1, <2>2
<1>4. ASSUME NEW y \in Disk, y \notin Disk', NEW z \in Disk' PROVE y.sequence < z.sequence
  <2>0. z \in Disk /\ z # y /\ y.sequence <= anchor.sequence
    BY <1>0, <1>3, <1>4 DEF Later
  <2>1. PICK k \in Numbers : z \in files'[k] BY DEF Disk
  <2>2. k \in kept /\ z \in files[k] BY <2>1, <1>0
  <2>3. PICK w \in files[k] : Later(w) BY <2>2, <1>2
  <2>4. PICK j \in Numbers : y \in files[j] BY DEF Disk
  <2>5. j \notin kept
    <3>1. SUFFICES ASSUME j \in kept PROVE FALSE OBVIOUS
    <3>2. y \in files'[j] BY <3>1, <2>4, <1>0
    <3> QED BY <3>2, <1>4 DEF Disk
  <2>6. SUFFICES ASSUME ~(y.sequence < z.sequence) PROVE FALSE OBVIOUS
  <2>7. ~(y.hash < z.hash) BY <2>0, <2>6, <1>1 DEF ChainOK
  <2>8. w \in Disk /\ w.sequence > anchor.sequence BY <2>3, <1>3 DEF Later
  <2>9. ~(w.hash < y.hash)
    <3>1. SUFFICES ASSUME w.hash < y.hash PROVE FALSE OBVIOUS
    <3>2. w.sequence < y.sequence BY <3>1, <2>8, <1>1 DEF ChainOK
    <3> QED BY <3>2, <2>0, <2>8, <1>3
  <2>10. CASE k < j BY <2>3, <2>4, <2>9, <2>10, <1>1 DEF FilesOK
  <2>11. CASE j < k BY <2>2, <2>4, <2>7, <2>11, <1>1 DEF FilesOK
  <2>12. CASE j = k BY <2>2, <2>5, <2>12
  <2> QED BY <2>10, <2>11, <2>12, NumbersAre
<1>5. ASSUME NEW y \in Disk' PROVE Chained(y)'
  <2>0. y \in Disk BY <1>0
  <2>1. CASE \E p \in Disk : p.sequence + 1 = y.sequence /\ p.hash = y.previous
    <3>1. PICK p \in Disk : p.sequence + 1 = y.sequence /\ p.hash = y.previous BY <2>1
    <3>2. CASE p \in Disk' BY <3>1, <3>2 DEF Chained
    <3>3. CASE p \notin Disk'
      <4>1. p.sequence <= anchor.sequence BY <3>3, <1>0, <1>3 DEF Later
      <4>2. \A z \in Disk' : p.sequence < z.sequence BY <3>3, <1>4
      <4>3. \A z \in Disk' : y.sequence <= z.sequence BY <4>2, <3>1, <2>0, <1>0, <1>3
      <4>4. y.sequence <= anchor.sequence + 1 BY <4>1, <3>1, <2>0, <1>3
      <4>5. y.sequence = anchor.sequence + 1 => p.sequence = anchor.sequence
        BY <3>1, <2>0, <1>3
      <4>6. y.sequence = anchor.sequence + 1 => y.previous = anchor.hash
        BY <4>5, <3>1, <1>1 DEF ChainOK
      <4> QED BY <4>3, <4>4, <4>6, <1>1 DEF Chained
    <3> QED BY <3>2, <3>3
  <2>2. CASE /\ \A z \in Disk : y.sequence <= z.sequence
             /\ y.sequence <= anchor.sequence + 1
             /\ y.sequence = anchor.sequence + 1 => y.previous = anchor.hash
    BY <2>2, <1>0, <1>1 DEF Chained
  <2> QED BY <2>0, <2>1, <2>2, <1>1 DEF ChainOK, Chained
<1>6. Heads' = {DiskHead} BY <1>1 DEF Heads, At, Idle
<1>7. ASSUME NEW c \in Heads' PROVE HeadOK(c)'
  <2>0. c = DiskHead BY <1>6
  <2>1. CASE OnDisk # {}
    <3>1. c \in Disk' BY <2>0, <2>1, <1>0
    <3> QED BY <3>1 DEF HeadOK
  <2>2. CASE OnDisk = {}
    <3>1. c = anchor BY <2>0, <2>2 DEF DiskHead
    <3>2. Disk' = {}
      <4>1. \A n \in Numbers : n \notin kept BY <2>2, <1>2, <1>3
      <4> QED BY <4>1, <1>0 DEF Disk
    <3> QED BY <3>1, <3>2, <1>1, <1>3 DEF HeadOK
  <2> QED BY <2>1, <2>2
<1>8. \A n \in Numbers : files'[n] # {} => ranges'[n] # 0 BY <1>0, <1>1
<1>9. \A x, y \in Disk' : x.hash < y.hash => x.sequence < y.sequence BY <1>0, <1>1 DEF ChainOK
<1>10. \A x \in Disk' : x.sequence = anchor'.sequence => x.hash = anchor'.hash
  BY <1>0, <1>1 DEF ChainOK
<1>11. \A c \in Heads' : c.sequence <= LogHead'.sequence BY <1>0, <1>3, <1>6
<1> QED BY <1>5, <1>6, <1>7, <1>8, <1>9, <1>10, <1>11 DEF ChainOK

LEMMA StartStep ==
    ASSUME IInv, Start
    PROVE  IInv'
<1> DEFINE kept == {n \in Numbers : LaterIn(n) # {}}
<1>0. /\ FilesOK' /\ Disk' \subseteq Disk /\ OnDisk \subseteq Disk'
      /\ files' \in [Numbers -> SUBSET RecordOf(writes)]
      /\ \A n \in Numbers : files'[n] = IF n \in kept THEN files[n] ELSE {}
      /\ \A y \in Disk : y \in Disk' \/ ~Later(y)
      /\ LogHead' = DiskHead
      /\ OnDisk # {} => DiskHead \in OnDisk
      /\ \A n \in kept : /\ ranges'[n] \in 1..writes
                         /\ \E r \in LaterIn(n) : r.sequence = ranges'[n]
                         /\ \A r \in LaterIn(n) : r.sequence <= ranges'[n]
  BY StartFacts
<1>1. /\ Typed /\ FilesOK /\ ChainVerifies /\ writes \in Nat
      /\ running = "down" /\ running' = "up"
      /\ records' = OnDisk /\ segments' = kept
      /\ ranges' = [n \in Numbers |-> IF n \in kept THEN LastRead(LaterIn(n)).sequence ELSE 0]
      /\ checkpoint' = DiskHead /\ unsure' = FALSE
      /\ UNCHANGED <<anchor, actor, pruning, archive, writes, logged, damaged>>
      /\ pruning = NoPrune
  BY NumbersAre DEF IInv, Typed, PruneOK, Start, Startable
<1>2. /\ kept \subseteq Numbers
      /\ \A n \in Numbers : n \in kept <=> LaterIn(n) # {}
      /\ \A n \in Numbers : LaterIn(n) = {r \in files[n] : Later(r)}
  BY DEF LaterIn
<1> HIDE DEF kept
<1>3. /\ OnDisk = {x \in Disk : Later(x)} /\ Disk \subseteq RecordOf(writes)
      /\ \A x \in Disk \cup archive : x.sequence \in Nat
      /\ anchor.sequence \in Nat
      /\ \A n \in Numbers : files[n] \subseteq Disk
  BY <1>1, DiskTyped, Fields DEF Typed
<1>4. Typed'
  <2>1. DiskHead \in RecordOf(writes) \cup {Zero}
    BY <1>0, <1>1, <1>3 DEF DiskHead, Typed
  <2>2. ranges' \in [Numbers -> 0..writes]
    <3>1. ASSUME NEW n \in Numbers PROVE ranges'[n] \in 0..writes
      <4>1. CASE n \in kept
        <5>1. ranges'[n] \in 1..writes BY <4>1, <1>0
        <5> QED BY <5>1
      <4>2. CASE n \notin kept
        <5>1. ranges'[n] = 0 BY <4>2, <1>1
        <5>2. writes \in Nat BY <1>1
        <5> QED BY <5>1, <5>2
      <4> QED BY <4>1, <4>2
    <3> QED BY <3>1, <1>1
  <2>3. records' \subseteq RecordOf(writes) /\ segments' \subseteq Numbers
    BY <1>1, <1>2, <1>3
  <2>4. (archive \cup logged)' \subseteq RecordOf(writes)' BY <1>1 DEF Typed
  <2>5. /\ files' \in [Numbers -> SUBSET RecordOf(writes)']
        /\ ranges' \in [Numbers -> 0..writes'] /\ records' \subseteq RecordOf(writes)'
    BY <2>2, <2>3, <1>0, <1>1
  <2>6. {anchor', checkpoint'} \subseteq RecordOf(writes)' \cup {Zero}
    BY <2>1, <1>1 DEF Typed
  <2>7. /\ actor' \in [Actors -> [step : {"idle", "logged", "pruned"},
                                  record : RecordOf(writes)' \cup {Zero}]]
        /\ writes' \in 0..MaxWrites
        /\ pruning' \in [left : SUBSET Numbers, all : SUBSET Numbers,
                          by : Actors \cup {None}]
        /\ pruning'.left \subseteq pruning'.all
    BY <1>1 DEF Typed
  <2>8. unsure' \in BOOLEAN /\ damaged' \in BOOLEAN BY <1>1 DEF Typed
  <2> QED BY <2>3, <2>4, <2>5, <2>6, <2>7, <2>8, <1>1 DEF Typed
<1>5. \A x \in Disk \cup archive : ~Later(x) => Past(x)'
  BY <1>1, <1>3 DEF Past, Later
<1>6. SegmentsOK'
  <2>1. Cardinality(kept) <= MaxSegments
    <3> DEFINE old == {n \in Numbers : files[n] # {}}
    <3>1. kept \subseteq old /\ old \subseteq Numbers BY <1>2
    <3>2. IsFiniteSet(old) BY <3>1, NumbersAre, FS_Subset
    <3>3. /\ Cardinality(kept) <= Cardinality(old) /\ Cardinality(old) <= MaxSegments
          /\ Cardinality(kept) \in Nat /\ Cardinality(old) \in Nat
      BY <3>1, <3>2, <1>1, FS_Subset, FS_CardinalityType DEF FilesOK
    <3> QED BY <3>3, NumbersAre
  <2>2. ASSUME NEW n \in kept PROVE n <= writes + 1
    <3>1. n \in Numbers /\ files[n] # {} BY <1>2
    <3>2. n <= writes BY <3>1, <1>1 DEF FilesOK
    <3> QED BY <3>1, <3>2, <1>1, NumbersAre
  <2>3. \A n \in Numbers : files'[n] # {} => n \in kept BY <1>0
  <2>4. ASSUME NEW n \in Numbers, ranges'[n] # 0
        PROVE  \E r \in files'[n] \cap records' : r.sequence = ranges'[n]
    <3>1. n \in kept BY <2>4, <1>1
    <3>2. PICK r \in LaterIn(n) : r.sequence = ranges'[n] BY <3>1, <1>0
    <3>3. r \in files[n] /\ r \in OnDisk BY <3>2, <1>2, <1>3
    <3> QED BY <3>1, <3>2, <3>3, <1>0, <1>1
  <2>5. ASSUME NEW n \in Numbers, NEW r \in files'[n] \cap records'
        PROVE  r.sequence <= ranges'[n]
    <3>1. n \in kept /\ r \in files[n] BY <2>5, <1>0
    <3>2. r \in LaterIn(n) BY <3>1, <2>5, <1>1, <1>2, <1>3
    <3> QED BY <3>1, <3>2, <1>0
  <2> QED BY <2>1, <2>2, <2>3, <2>4, <2>5, <1>1 DEF SegmentsOK
<1>7. MemoryOK'
  <2>1. ASSUME NEW x \in OnDisk, NEW y \in OnDisk
        PROVE  (x.hash = y.hash => x = y) /\ (x.hash < y.hash => x.sequence < y.sequence)
    BY <1>1, <1>3, ChainOrders DEF FilesOK
  <2>2. \A r \in OnDisk : Later(r)' BY <1>1, <1>3 DEF Later
  <2>3. \A x \in Disk' : x \in OnDisk \/ Past(x)' BY <1>0, <1>3, <1>5
  <2> QED BY <2>1, <2>2, <2>3, <1>0, <1>1 DEF MemoryOK
<1>8. PruneOK' BY <1>1 DEF PruneOK, NoPrune
<1>9. ExportedOK'
  <2>1. \A r \in logged \ archive : r \in OnDisk /\ Later(r)'
    BY <1>1, <1>3 DEF IInv, ExportedOK, Later
  <2>2. \A x \in archive : x \in OnDisk \/ Past(x)'
    BY <1>1, <1>3, <1>5 DEF IInv, ExportedOK
  <2> QED BY <2>1, <2>2, <1>0, <1>1 DEF IInv, ExportedOK
<1>10. ASSUME ~damaged' PROVE ChainOK' BY <1>1, <1>10, StartChain
<1> QED BY <1>0, <1>4, <1>6, <1>7, <1>8, <1>9, <1>10 DEF IInv

----------------------------------------------------------------------------
(* Theorems *)

LEMMA InitIInv == Init => IInv
<1> SUFFICES ASSUME Init PROVE IInv
  OBVIOUS
<1>0. Disk = {} BY DEF Init, Disk
<1>1. Typed
  <2>1. writes = 0 /\ 0 \in 0..MaxWrites BY NumbersAre DEF Init
  <2>2. files \in [Numbers -> SUBSET RecordOf(writes)] BY DEF Init
  <2>3. ranges \in [Numbers -> 0..writes] BY <2>1 DEF Init
  <2>4. actor \in [Actors -> [step : {"idle", "logged", "pruned"},
                             record : RecordOf(writes) \cup {Zero}]]
    BY DEF Init, Idle
  <2>5. /\ pruning \in [left : SUBSET Numbers, all : SUBSET Numbers, by : Actors \cup {None}]
        /\ pruning.left \subseteq pruning.all
    BY DEF Init, NoPrune
  <2>6. unsure \in BOOLEAN /\ damaged \in BOOLEAN BY DEF Init
  <2>7. /\ records \cup archive \cup logged \subseteq RecordOf(writes)
        /\ {anchor, checkpoint} \subseteq RecordOf(writes) \cup {Zero}
        /\ segments \subseteq Numbers /\ running \in {"up", "down", "refused"}
    BY DEF Init
  <2> QED BY <2>1, <2>2, <2>3, <2>4, <2>5, <2>6, <2>7 DEF Typed
<1>2. FilesOK
  <2>1. {n \in Numbers : files[n] # {}} = {} BY DEF Init
  <2>2. IsFiniteSet({}) /\ Cardinality({}) = 0 BY FS_EmptySet
  <2>3. \A n \in Numbers : files[n] = {} BY DEF Init
  <2>4. \A n \in Numbers : IsFiniteSet(files[n]) /\ Cardinality(files[n]) <= SegmentRecords
    BY <2>2, <2>3, NumbersAre
  <2>5. Cardinality({n \in Numbers : files[n] # {}}) <= MaxSegments
    BY <2>1, <2>2, NumbersAre
  <2> QED BY <1>0, <2>3, <2>4, <2>5 DEF FilesOK
<1>3. SegmentsOK BY FS_EmptySet, NumbersAre DEF Init, SegmentsOK
<1>4. MemoryOK BY <1>0 DEF Init, MemoryOK
<1>5. PruneOK BY DEF Init, PruneOK, NoPrune
<1>6. ExportedOK BY DEF Init, ExportedOK
<1>7. ChainOK
  <2>1. Heads = {Zero} BY DEF Init, Heads, At, Idle
  <2>2. LogHead = Zero BY DEF Init, LogHead
  <2>3. HeadOK(Zero) BY <1>0 DEF HeadOK, Init, Zero
  <2>4. \A n \in Numbers : files[n] = {} BY DEF Init
  <2> QED BY <1>0, <2>1, <2>2, <2>3, <2>4 DEF ChainOK, Zero
<1> QED BY <1>1, <1>2, <1>3, <1>4, <1>5, <1>6, <1>7 DEF IInv

\* Every step keeps the invariant.
LEMMA NextIInv == IInv /\ [Next]_vars => IInv'
<1> SUFFICES ASSUME IInv, [Next]_vars PROVE IInv'
  OBVIOUS
<1>1. ASSUME NEW a \in Actors, AppendRecord(a) PROVE IInv' BY <1>1, AppendStep
<1>2. ASSUME NEW a \in Actors, AppendFails(a) PROVE IInv' BY <1>2, AppendFailsStep
<1>3. ASSUME NEW a \in Actors, AppendRefused(a) PROVE IInv' BY <1>3, RefusedStep
<1>4. ASSUME NEW a \in Actors, Checkpoint(a) PROVE IInv' BY <1>4, CheckpointStep
<1>5. CASE Export BY <1>5, ExportStep
<1>6. CASE Prunes BY <1>6, StartPruneStep DEF Prunes
<1>7. CASE Unlink BY <1>7, UnlinkStep
<1>8. CASE UnlinkFails BY <1>8, UnlinkFailsStep
<1>9. CASE FinishPrune BY <1>9, FinishPruneStep
<1>10. CASE Crash BY <1>10, CrashStep
<1>11. CASE Start BY <1>11, StartStep
<1>12. CASE Refuse BY <1>12, RefuseStep
<1>13. CASE UNCHANGED vars BY <1>13, StutterStep
<1> QED
  BY <1>1, <1>2, <1>3, <1>4, <1>5, <1>6, <1>7, <1>8, <1>9, <1>10, <1>11, <1>12, <1>13
  DEF Next

\* The inductive invariant of the audit log: files, memory, a prune under way, what is
\* exported, and the chain on disk.
THEOREM LogInvariant == Spec => []IInv
<1>1. IInv /\ [Next]_vars => IInv' BY NextIInv
<1> QED BY <1>1, InitIInv, PTL DEF Spec

\* No record append has returned is lost: it is on disk or exported at every step of a
\* prune, a crash or a start.
THEOREM RecordsAreKept == Spec => []NothingLost
<1>1. IInv => NothingLost BY DEF IInv, ExportedOK, NothingLost, Disk
<1> QED BY <1>1, LogInvariant, PTL

\* The log in memory is the one a start would read, and after any failure or crash the
\* process starts again, unless an append followed one that failed after its write.
THEOREM LogIsSound == Spec => []LogSound
<1>1. ASSUME IInv PROVE TypeOK
  <2>0. Typed /\ MemoryOK BY <1>1 DEF IInv
  <2>1. writes \in Nat /\ Typed BY <2>0, HeadIs
  <2>2. RecordOf(writes) \cup {Zero} \subseteq Record
    BY <2>1, NumbersAre DEF RecordOf, Record, Zero, Typed
  <2>3. \A n \in Numbers : files[n] \subseteq Record BY <2>1, <2>2 DEF Typed
  <2>4. {anchor, checkpoint} \cup records \cup archive \cup logged \subseteq Record
    BY <2>1, <2>2 DEF Typed
  <2>5. ranges \in [Numbers -> 0..MaxWrites] BY <2>1, NumbersAre DEF Typed
  <2>6. actor \in [Actors -> [step : {"idle", "logged", "pruned"}, record : Record]]
    BY <2>1, <2>2 DEF Typed
  <2> QED BY <1>1, <2>1, <2>3, <2>4, <2>5, <2>6 DEF IInv, Typed, FilesOK, SegmentsOK, TypeOK
<1>2. ASSUME IInv PROVE LogMatchesDisk
  <2> SUFFICES ASSUME Free, ~unsure
               PROVE  /\ {r \in records : Later(r)} = OnDisk
                      /\ \A x, y \in OnDisk : x.sequence < y.sequence <=> ReadBefore(x, y)
    BY DEF LogMatchesDisk
  <2>1. /\ running = "up" /\ Typed /\ FilesOK /\ MemoryOK
        /\ OnDisk = {x \in Disk : Later(x)} /\ anchor.sequence \in Nat
        /\ \A x \in Disk \cup records : x.sequence \in Nat /\ x.hash \in Nat
    BY <1>2, DiskTyped, Fields, HeadIs DEF IInv, Free, Typed
  <2>2. \A r \in records : Later(r) => r \in Disk BY <2>1 DEF MemoryOK, Past, Later
  <2>3. \A x \in Disk : Later(x) => x \in records
    BY <2>1 DEF MemoryOK, Past, Later, Unknown
  <2>4. ASSUME NEW x \in OnDisk, NEW y \in OnDisk
        PROVE  x.sequence < y.sequence <=> ReadBefore(x, y)
    <3>1. x \in records /\ y \in records /\ x \in Disk /\ y \in Disk BY <2>1, <2>3
    <3>2. ReadBefore(x, y) <=> x.hash < y.hash BY <3>1, <2>1, ReadOrder
    <3>3. x.hash < y.hash => x.sequence < y.sequence BY <3>1, <2>1 DEF MemoryOK
    <3>4. y.hash < x.hash => y.sequence < x.sequence BY <3>1, <2>1 DEF MemoryOK
    <3>5. x.hash = y.hash => x = y BY <3>1, <2>1 DEF MemoryOK
    <3> QED BY <3>1, <3>2, <3>3, <3>4, <3>5, <2>1
  <2> QED BY <2>1, <2>2, <2>3, <2>4
<1>3. IInv => StartsAgain BY ChainHolds DEF IInv, StartsAgain
<1>4. IInv => LogSound BY <1>1, <1>2, <1>3 DEF LogSound
<1> QED BY <1>4, LogInvariant, PTL
=============================================================================
