------------------------------ MODULE AuditLog ------------------------------
(***************************************************************************)
(* The audit log of the control plane, TamperEvidentAuditLog of            *)
(* src/megacache/controlplane.py, and the checkpoint of its head in the    *)
(* control state: append with rotation, export, the pruning of exported    *)
(* segments behind a signed anchor, crashes and failed writes between any  *)
(* two durable steps, and the verification at the next start.              *)
(*                                                                         *)
(* A record's hash is the number of its writing.  All records have one     *)
(* size.  Lists are sets with the order the code gives them: the lines of  *)
(* a file stand in the order of their writing, _segments ascend from 1 or  *)
(* from the sorted names, and each of _records is the successor of the one *)
(* before it, which append makes so and a start checks.                    *)
(***************************************************************************)
EXTENDS Naturals, FiniteSetsExt

CONSTANTS
    Actors,           \* threads that audit what they do
    SegmentRecords,   \* segment_bytes, in records
    MaxSegments,      \* audit_max_segments
    MaxWrites,        \* bound: records written
    MaxFaults,        \* bound: failed writes and unlinks
    MaxCrashes,       \* bound: crashes
    None

ASSUME LimitsArePositive ==
    /\ {SegmentRecords, MaxSegments, MaxWrites} \subseteq Nat \ {0}
    /\ {MaxFaults, MaxCrashes} \subseteq Nat

VARIABLES
    files,       \* durable: segment number -> its records, {} for no file
    anchor,      \* durable: sequence and hash of the last record pruned
    checkpoint,  \* durable: audit_sequence and audit_head of the control state
    running,     \* "up", "down", or "refused" by the verification
    records,     \* _records
    segments,    \* _segments
    ranges,      \* _segment_ranges: number -> its last sequence, 0 for none
    actor,       \* each actor's step, and the record it has yet to check in
    pruning,     \* the segments a prune under way has yet to unlink, and all of them
    archive,     \* what the auditor has exported
    writes, faults, crashes,
    logged,      \* the records append has returned (history)
    unsure,      \* an append has failed after it wrote its record (history)
    damaged      \* and another append has followed it (history)

disk == <<files, anchor, checkpoint>>
memory == <<records, segments, ranges>>
history == <<logged, unsure, damaged>>
vars == <<disk, memory, running, actor, pruning, archive, writes, faults, crashes, history>>

Numbers == 1 .. MaxWrites + 1
Zero == [sequence |-> 0, previous |-> 0, hash |-> 0]
Idle == [step |-> "idle", record |-> Zero]
NoPrune == [left |-> {}, all |-> {}, by |-> None]

Init ==
    /\ files = [n \in Numbers |-> {}] /\ anchor = Zero /\ checkpoint = Zero
    /\ records = {} /\ segments = {} /\ ranges = [n \in Numbers |-> 0]
    /\ running = "up"
    /\ actor = [a \in Actors |-> Idle] /\ pruning = NoPrune /\ archive = {}
    /\ writes = 0 /\ faults = 0 /\ crashes = 0
    /\ logged = {} /\ unsure = FALSE /\ damaged = FALSE

At(a, step) == actor[a].step = step

\* _lock of the log is free.
Free == running = "up" /\ pruning = NoPrune

\* _records[-1]
Newest(R) == CHOOSE r \in R : \A x \in R : x.sequence <= r.sequence

\* head_hash and sequence
LogHead == IF records = {} THEN anchor ELSE Newest(records)

----------------------------------------------------------------------------
(* append *)

\* _segment_for_append: the current segment or the next, and 0 for neither.
SegmentForAppend ==
    IF segments = {} THEN 1
    ELSE LET current == Max(segments) IN
         IF Cardinality(files[current]) < SegmentRecords THEN current
         ELSE IF Cardinality(segments) >= MaxSegments THEN 0 ELSE current + 1

Appending(a) == Free /\ (At(a, "idle") \/ At(a, "pruned"))

\* Mutant: without records the chain begins anew.
NewRecordUnanchored ==
    [sequence |-> LogHead.sequence + 1, hash |-> writes + 1,
     previous |-> IF records = {} THEN 0 ELSE LogHead.hash]

NewRecord == [sequence |-> LogHead.sequence + 1, previous |-> LogHead.hash, hash |-> writes + 1]

Written(n) ==
    /\ writes < MaxWrites /\ writes' = writes + 1
    /\ files' = [files EXCEPT ![n] = @ \cup {NewRecord}]
    /\ segments' = segments \cup {n}

AppendRecord(a) ==
    LET n == SegmentForAppend IN
    /\ Appending(a) /\ n # 0
    /\ Written(n)
    /\ records' = records \cup {NewRecord}
    /\ ranges' = [ranges EXCEPT ![n] = NewRecord.sequence]
    /\ actor' = [actor EXCEPT ![a] = [step |-> "logged", record |-> NewRecord]]
    /\ logged' = logged \cup {NewRecord}
    /\ damaged' = (damaged \/ unsure)
    /\ UNCHANGED <<anchor, checkpoint, running, pruning, archive, faults, crashes, unsure>>

\* The write or its fsync fails, with or without the record in the file.
AppendFails(a) ==
    LET n == SegmentForAppend IN
    /\ Appending(a) /\ n # 0
    /\ faults < MaxFaults /\ faults' = faults + 1
    /\ \/ /\ Written(n)
          /\ unsure' = TRUE /\ damaged' = (damaged \/ unsure)
       \/ /\ segments' = segments \cup {n}
          /\ UNCHANGED <<writes, files, unsure, damaged>>
    /\ actor' = [actor EXCEPT ![a] = Idle]
    /\ UNCHANGED <<anchor, checkpoint, running, records, ranges, pruning, archive, crashes,
                   logged>>

\* The segments are exhausted: the actor's operation fails.
AppendRefused(a) ==
    /\ At(a, "pruned") /\ Free /\ (SegmentForAppend = 0 \/ writes = MaxWrites)
    /\ actor' = [actor EXCEPT ![a] = Idle]
    /\ UNCHANGED <<disk, memory, running, pruning, archive, writes, faults, crashes, history>>

\* _audit_action goes on to record the head in the control state; the write may fail.
Checkpoint(a) ==
    /\ running = "up" /\ At(a, "logged")
    /\ \/ checkpoint' = actor[a].record /\ UNCHANGED faults
       \/ faults < MaxFaults /\ faults' = faults + 1 /\ UNCHANGED checkpoint
    /\ actor' = [actor EXCEPT ![a] = Idle]
    /\ UNCHANGED <<files, anchor, memory, running, pruning, archive, writes, crashes, history>>

----------------------------------------------------------------------------
(* export and prune *)

Export ==
    /\ Free /\ ~(records \subseteq archive)
    /\ archive' = archive \cup records
    /\ UNCHANGED <<disk, memory, running, actor, pruning, writes, faults, crashes, history>>

\* Mutant: segments that begin before the boundary.
CoveredInPart(through) == 
    {n \in Numbers : ranges[n] # 0 /\ \E r \in files[n] : r.sequence <= through}

\* The segments that end at the boundary or before it.
Covered(through) == {n \in Numbers : ranges[n] # 0 /\ ranges[n] <= through}

\* _write_anchor, with the last record of the covered segments.
Anchored(n) == anchor' = CHOOSE r \in records : r.sequence = n

\* prune_exported, up to the new anchor: the auditor names an exported record.
StartPrune(a, r) ==
    LET eligible == Covered(r.sequence) IN
    /\ Free /\ At(a, "idle")
    /\ r \in archive /\ r \in records /\ eligible # {}
    /\ Anchored(Max({ranges[n] : n \in eligible}))
    /\ pruning' = [left |-> eligible, all |-> eligible, by |-> a]
    /\ UNCHANGED <<files, checkpoint, memory, running, actor, archive, writes, faults,
                   crashes, history>>

Unlink ==
    LET n == Min(pruning.left) IN
    /\ running = "up" /\ pruning.left # {}
    /\ files' = [files EXCEPT ![n] = {}]
    /\ ranges' = [ranges EXCEPT ![n] = 0]
    /\ pruning' = [pruning EXCEPT !.left = @ \ {n}]
    /\ UNCHANGED <<anchor, checkpoint, records, segments, running, actor, archive, writes,
                   faults, crashes, history>>

\* The prune ends with an error; what it has not come to stays as it was.
UnlinkFails ==
    /\ running = "up" /\ pruning.left # {}
    /\ faults < MaxFaults /\ faults' = faults + 1
    /\ pruning' = NoPrune
    /\ UNCHANGED <<disk, memory, running, actor, archive, writes, crashes, history>>

Pruned ==
    /\ running = "up" /\ pruning # NoPrune /\ pruning.left = {}
    /\ records' = {r \in records : r.sequence > anchor.sequence}
    /\ pruning' = NoPrune
    /\ actor' = [actor EXCEPT ![pruning.by].step = "pruned"]
    /\ UNCHANGED <<disk, ranges, running, archive, writes, faults, crashes, history>>

\* Mutant: the segments are forgotten on disk only.
FinishPruneKeeping == Pruned /\ UNCHANGED segments

\* The rest of prune_exported; prune_audit goes on to audit it.
FinishPrune ==
    Pruned /\ segments' = segments \ pruning.all

----------------------------------------------------------------------------
(* Crash and start *)

Crash ==
    /\ running = "up" /\ crashes < MaxCrashes /\ crashes' = crashes + 1
    /\ running' = "down"
    /\ records' = {} /\ segments' = {} /\ ranges' = [n \in Numbers |-> 0]
    /\ actor' = [a \in Actors |-> Idle] /\ pruning' = NoPrune
    /\ UNCHANGED <<disk, archive, writes, faults, history>>

\* What _load_and_verify reads: the segments in the order of their numbers, each from
\* its first line to its last.
Later(r) == r.sequence > anchor.sequence
LaterIn(n) == {r \in files[n] : Later(r)}
OnDisk == UNION {LaterIn(n) : n \in Numbers}

ReadBefore(x, y) ==
    \E m, n \in Numbers :
        x \in files[m] /\ y \in files[n] /\ (m < n \/ (m = n /\ x.hash < y.hash))

LastRead(R) == CHOOSE r \in R : \A x \in R \ {r} : ReadBefore(x, r)

DiskHead == IF OnDisk = {} THEN anchor ELSE LastRead(OnDisk)

\* Each record follows the one before it, the first the anchor.
ChainVerifies ==
    \A r \in OnDisk :
        LET earlier == {x \in OnDisk : ReadBefore(x, r)}
            before == IF earlier = {} THEN anchor ELSE LastRead(earlier)
        IN r.previous = before.hash /\ r.sequence = before.sequence + 1

\* _reconcile_audit_checkpoint
CheckpointAgrees ==
    /\ checkpoint.sequence <= DiskHead.sequence
    /\ checkpoint.sequence = DiskHead.sequence => checkpoint.hash = DiskHead.hash

Startable ==
    /\ Cardinality({n \in Numbers : files[n] # {}}) <= MaxSegments
    /\ ChainVerifies /\ CheckpointAgrees

\* Segments the anchor covers are removed, the memory is read from the others, and
\* the checkpoint catches up.
Start ==
    LET kept == {n \in Numbers : LaterIn(n) # {}} IN
    /\ running = "down" /\ Startable
    /\ running' = "up"
    /\ files' = [n \in Numbers |-> IF n \in kept THEN files[n] ELSE {}]
    /\ records' = OnDisk
    /\ segments' = kept
    /\ ranges' = [n \in Numbers |-> IF n \in kept THEN LastRead(LaterIn(n)).sequence ELSE 0]
    /\ checkpoint' = DiskHead
    /\ unsure' = FALSE
    /\ UNCHANGED <<anchor, actor, pruning, archive, writes, faults, crashes, logged, damaged>>

Refuse ==
    /\ running = "down" /\ ~Startable
    /\ running' = "refused"
    /\ UNCHANGED <<disk, memory, actor, pruning, archive, writes, faults, crashes, history>>

----------------------------------------------------------------------------

Prunes == \E a \in Actors : \E r \in archive : StartPrune(a, r)

Next ==
    \/ \E a \in Actors :
         AppendRecord(a) \/ AppendFails(a) \/ AppendRefused(a) \/ Checkpoint(a)
    \/ Export \/ Prunes \/ Unlink \/ UnlinkFails \/ FinishPrune
    \/ Crash \/ Start \/ Refuse

\* Actors are scheduled, a process that is down is started again, and the auditor
\* exports and prunes some time.
Fairness ==
    /\ \A a \in Actors : WF_vars(AppendRefused(a)) /\ WF_vars(Checkpoint(a))
    /\ WF_vars(Export) /\ WF_vars(Prunes) /\ WF_vars(Unlink) /\ WF_vars(FinishPrune)
    /\ WF_vars(Start) /\ WF_vars(Refuse)

Spec == Init /\ [][Next]_vars /\ Fairness

----------------------------------------------------------------------------
(* Properties *)

Record == [sequence : 0..MaxWrites, previous : 0..MaxWrites, hash : 0..MaxWrites]

\* Types, and the log's limit on segments.
TypeOK ==
    /\ \A n \in Numbers :
         files[n] \subseteq Record /\ Cardinality(files[n]) <= SegmentRecords
    /\ {anchor, checkpoint} \cup records \cup archive \cup logged \subseteq Record
    /\ segments \subseteq Numbers /\ Cardinality(segments) <= MaxSegments
    /\ ranges \in [Numbers -> 0..MaxWrites]
    /\ running \in {"up", "down", "refused"}
    /\ actor \in [Actors -> [step : {"idle", "logged", "pruned"}, record : Record]]
    /\ pruning.left \subseteq pruning.all /\ pruning.all \subseteq Numbers

\* "MegaCache never silently deletes audit segments": a record append has returned
\* is on disk or in the auditor's archive, at every step of a prune, a crash or a
\* start.
NothingLost ==
    \A r \in logged : r \in archive \/ \E n \in Numbers : r \in files[n]

\* export says chain_valid and never reads the files: between two operations the
\* records in memory after the anchor are those a start would read, in their order,
\* also when a prune has failed half way.
LogMatchesDisk ==
    Free /\ ~unsure =>
        /\ {r \in records : Later(r)} = OnDisk
        /\ \A x, y \in OnDisk : x.sequence < y.sequence <=> ReadBefore(x, y)

\* "Startup verifies the complete retained chain and refuses corrupted audit
\* history": whenever the process stops, it starts again, unless an append followed
\* one that failed after its write.
StartsAgain == ~damaged => Startable

\* The log in memory and on disk is sound at every step, whatever failed.
LogSound == TypeOK /\ LogMatchesDisk /\ StartsAgain

Exhausted == running = "up" /\ SegmentForAppend = 0

\* "If the segment bound is reached ... new control-plane mutations fail closed",
\* and not for good: an auditor who exports and prunes makes room.
MakesRoom == Exhausted ~> ~Exhausted

=============================================================================
