---------------------------- MODULE ControlPlane ----------------------------
(***************************************************************************)
(* The durable operations of src/megacache/controlplane.py for one tenant: *)
(* requests that record an operation and queue it, the worker that runs    *)
(* backups, exports, restores and the tenant's deletion, retention, the    *)
(* maintenance window that keeps requests out of the data plane, crashes   *)
(* and the recovery at start.                                              *)
(*                                                                         *)
(* The state file (tenant, operations, records) and the artifact files     *)
(* survive a crash; the cache, the queue and all threads do not.  What the *)
(* cache holds is one value, 0 when it is empty.  Encryption, tokens and   *)
(* formats are left out: a check that may fail for its own reasons fails   *)
(* or not.                                                                 *)
(***************************************************************************)
EXTENDS Naturals, FiniteSets, SequencesExt

CONSTANTS
    Requesters,       \* threads of the API and Scheduler
    Scheduler,
    Clients,          \* requests of the data plane
    Values,           \* what they write
    Kinds,            \* the operations requested
    RetentionCount,   \* records kept of a list
    MaxOperations,    \* operations in the state file
    KeptOperations,   \* finished ones that retention leaves there
    History,          \* operations of earlier days, all of them over
    MaxRequests,      \* operations ever requested, these included
    MaxFaults, MaxCrashes

ASSUME SchedulerRequests == Scheduler \in Requesters

ASSUME RequestersAreFinite == IsFiniteSet(Requesters)

ASSUME LimitsArePositive ==
    /\ {RetentionCount, MaxOperations, KeptOperations, MaxRequests} \subseteq Nat \ {0}
    /\ {MaxFaults, MaxCrashes, History} \subseteq Nat /\ History <= MaxOperations
    /\ Values \subseteq Nat \ {0}

Archiving == {"backup", "data_export", "audit_export"}
Reading == {"restore_validate", "dr_drill", "restore"}   \* of a backup

ASSUME KindsAreKnown == Kinds \subseteq Archiving \cup Reading \cup {"tenant_delete"}

Lists == {"backups", "exports"}
ListOf(kind) == IF kind = "backup" THEN "backups" ELSE "exports"

VARIABLES
    tenant,      \* durable: status, last restore, drills, records of backups and exports
    ops,         \* durable: operation -> kind, argument, status
    files,       \* durable: the artifacts of the tenant's namespace
    queue, worker, requester, doomed, requeued,   \* threads and what they hold
    cache, accepting, maintenance, client,        \* the data plane
    faults, crashes

durable == <<tenant, ops, files>>
plane == <<cache, accepting, maintenance, client>>
threads == <<queue, requester, doomed, requeued>>

vars == <<durable, plane, threads, worker, faults, crashes>>

Ids == 1 .. MaxRequests
NoFile == [op |-> 0, run |-> 0, value |-> 0]
NoOp == [kind |-> "none", arg |-> NoFile, status |-> "none"]
Past == [NoOp EXCEPT !.kind = "data_export", !.status = "failed"]
Waiting == [step |-> "waiting", op |-> 0, previous |-> 0, removed |-> {},
            value |-> NoFile]
NoRequest == [step |-> "idle", kind |-> "none", arg |-> NoFile, op |-> 0]

Init ==
    /\ tenant = [status |-> "active", restored |-> 0, drills |-> << >>,
                 records |-> [l \in Lists |-> << >>]]
    /\ ops = [i \in Ids |-> IF i <= History THEN Past ELSE NoOp]
    /\ files = {}
    /\ queue = << >> /\ worker = Waiting /\ doomed = {} /\ requeued = TRUE
    /\ requester = [r \in Requesters |-> NoRequest]
    /\ cache = 0 /\ accepting = TRUE /\ maintenance = FALSE
    /\ client = [c \in Clients |-> "idle"]
    /\ faults = 0 /\ crashes = 0

Recorded == UNION {ToSet(tenant.records[l]) : l \in Lists}

Fault == faults < MaxFaults /\ faults' = faults + 1

----------------------------------------------------------------------------
(* The data plane: _TenantRuntime.begin_operation and end_operation *)

\* Mutant: only the maintenance window is looked at.
AdmitAlways(c) ==
    /\ client[c] = "idle" /\ ~maintenance
    /\ client' = [client EXCEPT ![c] = "active"]
    /\ UNCHANGED <<durable, threads, worker, cache, accepting, maintenance, faults, crashes>>

Admit(c) ==
    /\ client[c] = "idle" /\ accepting /\ ~maintenance
    /\ client' = [client EXCEPT ![c] = "active"]
    /\ UNCHANGED <<durable, threads, worker, cache, accepting, maintenance, faults, crashes>>

Finish(c) ==
    /\ client[c] = "active"
    /\ \E v \in Values \cup {cache} : cache' = v
    /\ client' = [client EXCEPT ![c] = "idle"]
    /\ UNCHANGED <<durable, threads, worker, accepting, maintenance, faults, crashes>>

Drained == \A c \in Clients : client[c] = "idle"

----------------------------------------------------------------------------
(* Requests: enqueue_operation, request_tenant_deletion and the scheduler *)

Complete(i) == ops[i].status \in {"succeeded", "failed"}
Live == {i \in Ids : ops[i].status \notin {"none", "pruned"}}

\* The scheduler works as soon as it is started, the API once start-up is over.
MayRequest(r) ==
    /\ requester[r].step = "idle"
    /\ IF r = Scheduler THEN doomed = {} ELSE requeued

\* run_scheduled_backups asks for nothing while a backup is under way.
DueBackup ==
    \A i \in Ids : ops[i].kind = "backup" => ops[i].status \notin {"pending", "running"}

\* What a request names: request_restore_validation, request_restore and
\* request_drill name a backup.
Arguments(kind) ==
    IF kind \in Reading THEN ToSet(tenant.records["backups"]) ELSE {NoFile}

\* The tenant's status is read before the lock is taken.
Check(r, kind, arg) ==
    /\ MayRequest(r) /\ kind # "tenant_delete" /\ (r = Scheduler => kind = "backup" /\ DueBackup)
    /\ tenant.status = "active" \/ kind = "audit_export"
    /\ arg \in Arguments(kind)
    /\ requester' = [requester EXCEPT ![r] =
           [step |-> "checked", kind |-> kind, arg |-> arg, op |-> 0]]
    /\ UNCHANGED <<durable, plane, queue, doomed, requeued, worker, faults, crashes>>

\* create_deletion_challenge, which the administrator then confirms.
IssueChallenge(r) ==
    /\ MayRequest(r) /\ r # Scheduler /\ "tenant_delete" \in Kinds
    /\ tenant.status = "active"
    /\ requester' = [requester EXCEPT ![r].step = "challenged"]
    /\ UNCHANGED <<durable, plane, queue, doomed, requeued, worker, faults, crashes>>

\* _verify_deletion_challenge: it has expired, or the tenant is not active any more.
RejectChallenge(r) ==
    /\ requester[r].step = "challenged"
    /\ requester' = [requester EXCEPT ![r] = NoRequest]
    /\ UNCHANGED <<durable, plane, queue, doomed, requeued, worker, faults, crashes>>

\* request_tenant_deletion closes the tenant before it asks for the operation.
MarkPending(r) ==
    /\ requester[r].step = "challenged" /\ tenant.status = "active"
    /\ tenant' = [tenant EXCEPT !.status = "deletion_pending"]
    /\ accepting' = FALSE
    /\ requester' = [requester EXCEPT ![r] =
           [step |-> "checked", kind |-> "tenant_delete", arg |-> NoFile, op |-> 0]]
    /\ UNCHANGED <<ops, files, cache, maintenance, client, queue, doomed, requeued, worker,
                   faults, crashes>>

\* The oldest finished operation, which makes room for another.
Oldest(I) == CHOOSE i \in I : \A j \in I : i <= j

\* Of the finished operations the newest KeptOperations stay.
Surplus == {i \in Live : Complete(i) /\
               Cardinality({j \in Live : Complete(j) /\ j > i}) >= KeptOperations}

HasRoom == Cardinality(Live) < MaxOperations \/ \E i \in Live : Complete(i)

\* Under the lock: make room, write the audit record and the operation.
Record(r) ==
    LET i == Cardinality({j \in Ids : ops[j].status # "none"}) + 1
        done == {j \in Live : Complete(j)}
        pruned == IF Cardinality(Live) < MaxOperations THEN ops
                  ELSE [j \in Ids |-> IF j = Oldest(done) \/ j \in Surplus
                                       THEN [ops[j] EXCEPT !.status = "pruned"] ELSE ops[j]]
    IN
    /\ requester[r].step = "checked" /\ i \in Ids
    /\ HasRoom
    /\ ops' = [pruned EXCEPT ![i] =
           [kind |-> requester[r].kind, arg |-> requester[r].arg, status |-> "pending"]]
    /\ requester' = [requester EXCEPT ![r] =
           [step |-> "recorded", kind |-> @.kind, arg |-> @.arg, op |-> i]]
    /\ UNCHANGED <<tenant, files, plane, queue, doomed, requeued, worker, faults, crashes>>

\* A request with the idempotency key of an operation of its kind is answered with that
\* operation, over or not: a deletion's then leaves the tenant closed with none under way.
Repeat(r) ==
    /\ requester[r].step = "checked"
    /\ \E i \in Live : ops[i].kind = requester[r].kind
    /\ requester' = [requester EXCEPT ![r] = NoRequest]
    /\ UNCHANGED <<durable, plane, queue, doomed, requeued, worker, faults, crashes>>

\* put_nowait, after the lock.
Put(r) ==
    /\ requester[r].step = "recorded" /\ Len(queue) < MaxOperations
    /\ queue' = Append(queue, requester[r].op)
    /\ requester' = [requester EXCEPT ![r] = NoRequest]
    /\ UNCHANGED <<durable, plane, doomed, requeued, worker, faults, crashes>>

\* The queue is full of operations that are gone or queued twice: this one fails,
\* though it may be queued or running already, and a deletion opens the tenant again.
PutFull(r) ==
    LET i == requester[r].op IN
    /\ requester[r].step = "recorded" /\ Len(queue) >= MaxOperations
    /\ ops' = IF ops[i].status = "pruned" THEN ops ELSE [ops EXCEPT ![i].status = "failed"]
    /\ IF requester[r].kind = "tenant_delete"
         THEN tenant' = [tenant EXCEPT !.status = "active"] /\ accepting' = TRUE
         ELSE UNCHANGED <<tenant, accepting>>
    /\ requester' = [requester EXCEPT ![r] = NoRequest]
    /\ UNCHANGED <<files, cache, maintenance, client, queue, doomed, requeued, worker,
                   faults, crashes>>

\* The operation cannot be recorded: a deletion opens the tenant again.
Refuse(r) ==
    /\ requester[r].step = "checked"
    /\ \/ ~HasRoom /\ UNCHANGED faults
       \/ Fault
    /\ IF requester[r].kind = "tenant_delete"
         THEN tenant' = [tenant EXCEPT !.status = "active"] /\ accepting' = TRUE
         ELSE UNCHANGED <<tenant, accepting>>
    /\ requester' = [requester EXCEPT ![r] = NoRequest]
    /\ UNCHANGED <<ops, files, cache, maintenance, client, queue, doomed, requeued, worker,
                   crashes>>

----------------------------------------------------------------------------
(* run_retention, of the scheduler *)

\* Records that have expired leave the state file first, their artifacts after it.
Retain ==
    /\ doomed = {} /\ requester[Scheduler].step = "idle"
    /\ \E n \in [Lists -> 0 .. RetentionCount] :
         /\ \A l \in Lists : n[l] <= Len(tenant.records[l])
         /\ doomed' = UNION {ToSet(SubSeq(tenant.records[l], 1, n[l])) : l \in Lists}
         /\ tenant' = [tenant EXCEPT !.records =
                [l \in Lists |-> SubSeq(@[l], n[l] + 1, Len(@[l]))]]
    /\ ops' = [i \in Ids |-> IF i \in Surplus THEN [ops[i] EXCEPT !.status = "pruned"]
                             ELSE ops[i]]
    /\ UNCHANGED <<files, plane, queue, requester, requeued, worker, faults, crashes>>

\* The first removal that fails ends the scheduler's turn; what is left has no record.
RemoveDoomed ==
    /\ doomed # {} /\ doomed' = {}
    /\ \/ files' = files \ doomed /\ UNCHANGED faults
       \/ Fault /\ \E R \in SUBSET doomed : files' = files \ R
    /\ UNCHANGED <<tenant, ops, plane, queue, requester, requeued, worker, crashes>>

----------------------------------------------------------------------------
(* The worker: _run_operation *)

Op == ops[worker.op]

At(step) == worker.step = step

Goto(step) == worker' = [worker EXCEPT !.step = step]

SetStatus(i, s) == ops' = [ops EXCEPT ![i].status = s]

\* Mutant: nobody looks for the work of an earlier run.
FirstAnew(i) ==
    CASE ops[i].kind \in Archiving -> "exporting"
      [] ops[i].kind \in Reading -> "validating"
      [] ops[i].kind = "tenant_delete" ->
             IF tenant.status = "deleted" THEN "succeeding" ELSE "draining"

\* The handler the operation goes to; those that find their work done already
\* after a restart go straight to the end.
First(i) ==
    CASE ops[i].kind \in Archiving ->
             IF \E f \in Recorded : f.op = i THEN "succeeding" ELSE "exporting"
      [] ops[i].kind \in Reading ->
             IF Contains(tenant.drills, i) THEN "succeeding" ELSE "validating"
      [] ops[i].kind = "tenant_delete" ->
             IF tenant.status = "deleted" THEN "succeeding" ELSE "draining"

\* An operation queued twice may be gone when its second turn comes.
Skip ==
    /\ At("waiting") /\ queue # << >> /\ ops[Head(queue)].status = "pruned"
    /\ queue' = Tail(queue)
    /\ UNCHANGED <<durable, plane, requester, doomed, requeued, worker, faults, crashes>>

\* begin_maintenance closes the tenant's door in the same step.
Take ==
    LET i == Head(queue) IN
    /\ At("waiting") /\ queue # << >> /\ ops[i].status # "pruned"
    /\ queue' = Tail(queue)
    /\ SetStatus(i, "running")
    /\ worker' = [Waiting EXCEPT !.step = First(i), !.op = i]
    /\ maintenance' = (maintenance \/ First(i) = "draining")
    /\ UNCHANGED <<tenant, files, cache, accepting, client, requester, doomed, requeued,
                   faults, crashes>>

\* The artifacts the handler is to remove when it raises here, or as it goes on: its own
\* when no record can be written, those of the records that were pushed out.
Removing ==
    CASE At("recording") -> {worker.value}
      [] At("trimming") -> worker.removed
      [] OTHER -> {}

\* The status cannot be written, or what it does next cannot: a handler that raises
\* ends its operation.  A removal may be what fails, or fail on top.
Break ==
    /\ worker.step \in {"exporting", "recording", "trimming", "validating", "restored"}
    /\ Fault
    /\ \E R \in SUBSET Removing : files' = files \ R
    /\ Goto("failing")
    /\ UNCHANGED <<tenant, ops, plane, threads, crashes>>

\* An artifact has an identifier of its own.
Fresh(i) ==
    LET named == files \cup Recorded \cup doomed \cup {ops[j].arg : j \in Ids}
                   \cup {requester[r].arg : r \in Requesters}
        taken == {f.run : f \in {g \in named : g.op = i}}
    IN  CHOOSE n \in 0 .. Cardinality(taken) :
            n \notin taken /\ \A m \in 0 .. Cardinality(taken) : m \notin taken => n <= m

\* What the artifact holds: _perform_audit_export archives no cached values.
Contents(kind) == IF kind = "audit_export" THEN 0 ELSE cache

\* _perform_backup, _perform_data_export and _perform_audit_export: the artifact comes
\* first, then its record, which may push out older ones, then their artifacts.
Archive ==
    LET f == [op |-> worker.op, run |-> Fresh(worker.op), value |-> Contents(Op.kind)] IN
    /\ At("exporting")
    /\ files' = files \cup {f}
    /\ worker' = [worker EXCEPT !.step = "recording", !.value = f]
    /\ UNCHANGED <<tenant, ops, plane, threads, faults, crashes>>

\* Mutant: one artifact too many is removed.
RecordArtifactOffByOne ==
    LET l == ListOf(Op.kind)
        all == Append(tenant.records[l], worker.value)
        extra == IF Len(all) > RetentionCount THEN Len(all) - RetentionCount ELSE 0
    IN
    /\ At("recording")
    /\ tenant' = [tenant EXCEPT !.records[l] = SubSeq(all, extra + 1, Len(all))]
    /\ worker' = [worker EXCEPT !.step = "trimming",
                                !.removed = ToSet(SubSeq(all, 1, extra + 1))]
    /\ UNCHANGED <<ops, files, plane, threads, faults, crashes>>

RecordArtifact ==
    LET l == ListOf(Op.kind)
        all == Append(tenant.records[l], worker.value)
        extra == IF Len(all) > RetentionCount THEN Len(all) - RetentionCount ELSE 0
    IN
    /\ At("recording")
    /\ tenant' = [tenant EXCEPT !.records[l] = SubSeq(all, extra + 1, Len(all))]
    /\ worker' = [worker EXCEPT !.step = "trimming",
                                !.removed = ToSet(SubSeq(all, 1, extra))]
    /\ UNCHANGED <<ops, files, plane, threads, faults, crashes>>

Trim ==
    /\ At("trimming")
    /\ files' = files \ worker.removed
    /\ Goto("succeeding")
    /\ UNCHANGED <<tenant, ops, plane, threads, faults, crashes>>

\* EncryptedArtifactStore.read: the envelope of a file that is there verifies.
Readable(f) == f \in files

\* _validated_backup
Validated == Op.arg \in ToSet(tenant.records["backups"]) /\ Readable(Op.arg)

\* The backup is gone or its entries are too many for the tenant's quotas, or the
\* token of a restore has expired.
RejectBackup ==
    /\ At("validating")
    /\ Goto("failing")
    /\ UNCHANGED <<durable, plane, threads, faults, crashes>>

\* _perform_restore_validation, which answers with a token.
ValidateRestore ==
    /\ At("validating") /\ Op.kind = "restore_validate" /\ Validated
    /\ Goto("succeeding")
    /\ UNCHANGED <<durable, plane, threads, faults, crashes>>

\* _perform_drill, into a scratch engine.
Drill ==
    /\ At("validating") /\ Op.kind = "dr_drill" /\ Validated
    /\ tenant' = [tenant EXCEPT !.drills = Append(@, worker.op)]
    /\ Goto("succeeding")
    /\ UNCHANGED <<ops, files, plane, threads, faults, crashes>>

\* _perform_restore, up to begin_maintenance; the last one is not done twice.
BeginRestore ==
    /\ At("validating") /\ Op.kind = "restore" /\ Validated
    /\ IF tenant.restored = worker.op
         THEN Goto("succeeding") /\ UNCHANGED maintenance
         ELSE Goto("draining") /\ maintenance' = TRUE
    /\ UNCHANGED <<durable, cache, accepting, client, threads, faults, crashes>>

\* Mutant: the window opens when the time is up.
DrainImpatient ==
    /\ At("draining")
    /\ Goto("flushing")
    /\ UNCHANGED <<durable, plane, threads, faults, crashes>>

\* The rest of begin_maintenance and pause_background_work: both wait for a time.
Drain ==
    /\ At("draining")
    /\ \/ Drained /\ Goto("flushing") /\ UNCHANGED maintenance
       \/ Goto("failing") /\ maintenance' = FALSE
    /\ UNCHANGED <<durable, cache, accepting, client, threads, faults, crashes>>

\* A restore keeps what was there; a deletion goes on to erase the artifacts.  An engine
\* call that raises leaves the cache as it was: ClusterStorage.flush refuses before the
\* first node, restore_entries puts its checkpoints back.
Flush ==
    /\ At("flushing")
    /\ \/ /\ cache' = 0 /\ UNCHANGED faults
          /\ worker' = [worker EXCEPT !.previous = cache,
                           !.step = IF Op.kind = "restore" THEN "restoring" ELSE "erasing"]
       \/ /\ Fault /\ UNCHANGED cache
          /\ worker' = [worker EXCEPT !.previous = cache, !.step = "giving up"]
    /\ UNCHANGED <<durable, accepting, maintenance, client, threads, crashes>>

RestoreEntries ==
    /\ At("restoring")
    /\ \/ cache' = Op.arg.value /\ Goto("resuming") /\ UNCHANGED faults
       \/ Fault /\ Goto("undoing") /\ UNCHANGED cache
    /\ UNCHANGED <<durable, accepting, maintenance, client, threads, crashes>>

\* The handler of exceptions flushes and restores again, and what failed the first time,
\* a node that is down, may well fail a second time.
Undo ==
    /\ At("undoing")
    /\ \/ cache' = worker.previous /\ Goto("giving up")
       \/ UNCHANGED cache /\ Goto("losing")
    /\ UNCHANGED <<durable, accepting, maintenance, client, threads, faults, crashes>>

\* The finally clause: resume_background_work and end_maintenance.
Resume ==
    /\ worker.step \in {"resuming", "giving up", "losing"}
    /\ maintenance' = FALSE
    /\ Goto(IF At("resuming") THEN "restored" ELSE "failing")
    /\ UNCHANGED <<durable, cache, accepting, client, threads, faults, crashes>>

RecordRestore ==
    /\ At("restored")
    /\ tenant' = [tenant EXCEPT !.restored = worker.op]
    /\ Goto("succeeding")
    /\ UNCHANGED <<ops, files, plane, threads, faults, crashes>>

\* _perform_delete removes artifact after artifact, then writes the tombstone.
Erase ==
    /\ At("erasing")
    /\ \E f \in files : files' = files \ {f}
    /\ UNCHANGED <<tenant, ops, plane, threads, worker, faults, crashes>>

Bury ==
    /\ At("erasing") /\ files = {}
    /\ tenant' = [tenant EXCEPT !.status = "deleted", !.records = [l \in Lists |-> << >>]]
    /\ accepting' = FALSE /\ maintenance' = FALSE
    /\ Goto("succeeding")
    /\ UNCHANGED <<ops, files, cache, client, threads, faults, crashes>>

\* An unlink, the state files or the tombstone fails; the engine stays closed.
BuryFails ==
    /\ At("erasing") /\ Fault
    /\ maintenance' = FALSE
    /\ Goto("failing")
    /\ UNCHANGED <<durable, cache, accepting, client, threads, crashes>>

Succeed ==
    /\ At("succeeding") /\ Op.status # "pruned"
    /\ SetStatus(worker.op, "succeeded")
    /\ worker' = Waiting
    /\ UNCHANGED <<tenant, files, plane, threads, faults, crashes>>

\* The audit record after the status fails, or the operation is gone: it fails after
\* all.
SucceedUnaudited ==
    /\ At("succeeding") /\ Goto("failing")
    /\ IF Op.status = "pruned" THEN UNCHANGED <<ops, faults>>
                               ELSE Fault /\ SetStatus(worker.op, "succeeded")
    /\ UNCHANGED <<tenant, files, plane, threads, crashes>>

\* Mutant: a deletion that fails late suspends the tenant, deleted or not.
SuspendedAnyway ==
    IF Op.kind = "tenant_delete" THEN [tenant EXCEPT !.status = "suspended"] ELSE tenant

\* The handler of exceptions: a deletion leaves the tenant suspended.
Suspended ==
    IF Op.kind = "tenant_delete" /\ tenant.status = "deletion_pending"
      THEN [tenant EXCEPT !.status = "suspended"] ELSE tenant

Fail ==
    /\ At("failing") /\ Op.status # "pruned"
    /\ tenant' = Suspended /\ accepting' = (accepting /\ Op.kind # "tenant_delete")
    /\ SetStatus(worker.op, "failed")
    /\ worker' = Waiting
    /\ UNCHANGED <<files, cache, maintenance, client, threads, faults, crashes>>

\* The failure itself cannot be written, or its operation is gone: the exception
\* ends the worker thread.
Die ==
    /\ At("failing")
    /\ \/ Fault
       \/ Op.status = "pruned" /\ UNCHANGED faults
    /\ tenant' \in {tenant, Suspended} /\ accepting' = (accepting /\ Op.kind # "tenant_delete")
    /\ Goto("dead")
    /\ UNCHANGED <<ops, files, cache, maintenance, client, threads, crashes>>

----------------------------------------------------------------------------
(* Crash and start *)

\* _load_or_initialize_state: a tenant that is no longer enabled is suspended.
Loaded ==
    IF tenant.status = "active" THEN {tenant, [tenant EXCEPT !.status = "suspended"]}
    ELSE {tenant}

\* The constructor: _reconcile_artifacts, then the threads start.
Restart ==
    /\ crashes < MaxCrashes /\ crashes' = crashes + 1
    /\ files' = files \cap Recorded
    /\ queue' = << >> /\ worker' = Waiting /\ doomed' = {} /\ requeued' = FALSE
    /\ requester' = [r \in Requesters |-> NoRequest]
    /\ cache' = 0 /\ maintenance' = FALSE
    /\ tenant' \in Loaded /\ accepting' = (tenant'.status = "active")
    /\ client' = [c \in Clients |-> "idle"]
    /\ UNCHANGED <<ops, faults>>

\* The one sequence of these operations in which the state file lists them.
InOrder(I) ==
    {s \in [1 .. Cardinality(I) -> I] : \A m, n \in DOMAIN s : m < n => s[m] < s[n]}

\* Mutant: an operation that was running is forgotten.
RequeuePending ==
    LET incomplete == {i \in Ids : ops[i].status = "pending"} IN
    /\ ~requeued /\ requeued' = TRUE
    /\ \E s \in InOrder(incomplete) : queue' = queue \o s
    /\ UNCHANGED <<durable, plane, requester, doomed, worker, faults, crashes>>

\* _requeue_incomplete, when the threads are running already.  What the queue has no
\* room for fails.
Requeue ==
    LET incomplete == {i \in Ids : ops[i].status \in {"pending", "running"}} IN
    /\ ~requeued /\ requeued' = TRUE
    /\ \E s \in InOrder(incomplete) :
         LET room == MaxOperations - Len(queue)
             put == SubSeq(s, 1, IF room < Len(s) THEN room ELSE Len(s))
         IN /\ queue' = queue \o put
            /\ ops' = [i \in Ids |->
                  IF i \in incomplete
                    THEN [ops[i] EXCEPT !.status = IF Contains(put, i) THEN "pending" ELSE "failed"]
                    ELSE ops[i]]
    /\ UNCHANGED <<tenant, files, plane, requester, doomed, worker, faults, crashes>>

----------------------------------------------------------------------------

Work ==
    \/ Skip \/ Take \/ Break
    \/ Archive \/ RecordArtifact \/ Trim
    \/ RejectBackup \/ ValidateRestore \/ Drill
    \/ BeginRestore \/ Drain \/ Flush \/ RestoreEntries \/ Undo \/ Resume \/ RecordRestore
    \/ Erase \/ Bury \/ BuryFails
    \/ Succeed \/ SucceedUnaudited \/ Fail \/ Die

Next ==
    \/ \E c \in Clients : Admit(c) \/ Finish(c)
    \/ \E r \in Requesters :
         \/ \E kind \in Kinds :
              \E arg \in ToSet(tenant.records["backups"]) \cup {NoFile} : Check(r, kind, arg)
         \/ IssueChallenge(r) \/ RejectChallenge(r) \/ MarkPending(r)
         \/ Record(r) \/ Repeat(r) \/ Put(r) \/ PutFull(r) \/ Refuse(r)
    \/ Retain \/ RemoveDoomed \/ Work \/ Restart \/ Requeue

\* Threads that can go on do so.
Fairness ==
    /\ WF_vars(Work) /\ WF_vars(Requeue) /\ WF_vars(RemoveDoomed)
    /\ \A r \in Requesters : WF_vars(Put(r) \/ PutFull(r))

Spec == Init /\ [][Next]_vars /\ Fairness

----------------------------------------------------------------------------

\* Types, and the limits on records and operations.
TypeOK ==
    /\ tenant.status \in {"active", "deletion_pending", "suspended", "deleted"}
    /\ tenant.restored \in 0 .. MaxRequests
    /\ \A l \in Lists : Len(tenant.records[l]) <= RetentionCount
    /\ \A i \in Ids : ops[i].status \in
           {"none", "pending", "running", "succeeded", "failed", "pruned"}
    /\ Cardinality(Live) <= MaxOperations
    /\ ToSet(queue) \subseteq Ids /\ Len(queue) <= MaxOperations
    /\ cache \in Values \cup {0} /\ {accepting, maintenance, requeued} \subseteq BOOLEAN
    /\ faults \in 0 .. MaxFaults /\ crashes \in 0 .. MaxCrashes

\* An operation that runs again, after a crash or because it was queued twice,
\* leaves one record of its work.
OneRecordEach ==
    /\ IsInjective(tenant.drills)
    /\ \A l \in Lists : IsInjective([n \in DOMAIN tenant.records[l] |-> tenant.records[l][n].op])

\* Unless the tenant is being deleted, every record of a backup or an export has
\* its artifact: artifacts are written before and removed after their record, by
\* the worker, by retention and by the clean-up at start, whenever it crashes.  And
\* no operation has two records.
RecordsHaveArtifacts ==
    /\ TypeOK /\ OneRecordEach
    /\ tenant.status \in {"active", "deleted"} => Recorded \subseteq files

\* Deletion is for good: a deleted tenant has no value left, neither in the cache
\* nor in an artifact, whatever was requested, admitted or under way before.
DeletedHoldsNothing ==
    tenant.status = "deleted" => cache = 0 /\ \A f \in files : f.value = 0

\* A deleted tenant stays deleted, and one whose deletion failed half-way, its
\* artifacts partly gone, is never opened again: not by the audit record that fails
\* after a deletion, not by a request that cannot be recorded or queued and opens the
\* tenant it has closed, not by an operation that runs twice, nor by a restart.
DeletionIsFinal ==
    [][/\ tenant.status = "deleted" => tenant'.status = "deleted"
       /\ tenant.status = "suspended" => tenant'.status # "active"]_vars

\* A restore that succeeds has put exactly the backup into the cache; one that fails and
\* can put back what it had taken out ends with what was there before.  No write of a
\* request gets in between, and none that was admitted earlier is lost.  A restore whose
\* rollback fails as well ("losing") is left out: see FailedRestoreKeepsCache.
RestoreIsAtomic ==
    /\ At("resuming") => cache = Op.arg.value
    /\ At("giving up") => cache = worker.previous
    /\ worker.step \in {"flushing", "restoring", "undoing", "resuming", "giving up", "losing",
                        "erasing"} => Drained

\* A restore that fails leaves what the cache held before, as docs/control-plane.md has
\* it.  The code does not keep this: nothing is left when the rollback fails as well.
FailedRestoreKeepsCache ==
    worker.step \in {"giving up", "losing"} => cache = worker.previous

\* An operation once recorded comes to an end, through crashes and restarts,
\* unless its worker thread has died of a failure it could not write.
OperationsEnd ==
    \A i \in Ids : ops[i].status = "pending" ~>
        (ops[i].status \in {"succeeded", "failed", "pruned"} \/ At("dead"))

=============================================================================
