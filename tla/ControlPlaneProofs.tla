------------------------- MODULE ControlPlaneProofs -------------------------
(***************************************************************************)
(* Proofs about ControlPlane for any requesters, clients, values, kinds of *)
(* operations and limits: records keep their artifacts, a deleted tenant   *)
(* holds nothing, a restore is all or nothing and an operation that runs   *)
(* twice leaves one record.                                                *)
(***************************************************************************)
EXTENDS ControlPlane, FiniteSetTheorems, SequenceTheorems, NaturalsInduction, TLAPS

Known == Archiving \cup Reading \cup {"tenant_delete"}
Contained == Values \cup {0}
File == [op : 0 .. MaxRequests, run : Nat, value : Contained]
OpType ==
    [kind : Known \cup {"none"}, arg : File,
     status : {"none", "pending", "running", "succeeded", "failed", "pruned"}]
TenantType ==
    [status : {"active", "deletion_pending", "suspended", "deleted"},
     restored : 0 .. MaxRequests, drills : Seq(Ids), records : [Lists -> Seq(File)]]
RequestType ==
    [step : {"idle", "checked", "challenged", "recorded"}, kind : Known \cup {"none"},
     arg : File, op : 0 .. MaxRequests]
WorkerType ==
    [step : {"waiting", "exporting", "recording", "trimming", "validating", "draining",
             "flushing", "restoring", "undoing", "resuming", "giving up", "losing", "restored",
             "erasing", "succeeding", "failing", "dead"},
     op : 0 .. MaxRequests, previous : Contained, removed : SUBSET File, value : File]

Typed ==
    /\ tenant \in TenantType
    /\ ops \in [Ids -> OpType]
    /\ files \in SUBSET File /\ IsFiniteSet(files)
    /\ doomed \in SUBSET File /\ IsFiniteSet(doomed)
    /\ queue \in Seq(Ids)
    /\ worker \in WorkerType
    /\ requester \in [Requesters -> RequestType]
    /\ cache \in Contained
    /\ accepting \in BOOLEAN /\ maintenance \in BOOLEAN /\ requeued \in BOOLEAN
    /\ client \in [Clients -> {"idle", "active"}]
    /\ faults \in 0 .. MaxFaults /\ crashes \in 0 .. MaxCrashes

Used(i) == ops[i].status # "none"

\* Operations are recorded one after the other, and no more are kept than may be.
OpsOK ==
    /\ \E n \in 0 .. MaxRequests : \A i \in Ids : Used(i) <=> i <= n
    /\ \A i \in Ids : IF Used(i) THEN ops[i].kind \in Known ELSE ops[i].kind = "none"
    /\ Cardinality(Live) <= MaxOperations

\* What is queued, or about to be, is an operation of the state file.
QueueOK ==
    /\ Len(queue) <= MaxOperations
    /\ \A n \in DOMAIN queue : Used(queue[n])
    /\ \A r \in Requesters :
         /\ requester[r].step = "recorded" =>
               /\ requester[r].op \in Ids /\ Used(requester[r].op)
               /\ ops[requester[r].op].kind = requester[r].kind
         /\ requester[r].step = "checked" => requester[r].kind \in Known

\* Whether r has closed the tenant for a deletion that is not queued yet.
Closing(r) ==
    requester[r].step \in {"checked", "recorded"} /\ requester[r].kind = "tenant_delete"

Deletion(i) == ops[i].kind = "tenant_delete"

\* The operation is in the queue or in the worker's hands; a deletion is pursued if
\* it is, or if the next start would put it there.
Held(i) ==
    \/ \E n \in DOMAIN queue : queue[n] = i
    \/ worker.op = i /\ worker.step \notin {"waiting", "dead"}
Unfinished(i) == ops[i].status \in {"pending", "running"}
Pursued(i) == Deletion(i) /\ (Held(i) \/ Unfinished(i))

\* Who closes the tenant is the only one to do so, and may open it again: the one
\* deletion that is to be carried out is its own, which nobody holds yet.  A tenant
\* that is active has none.
ClosingOK ==
    /\ \A r \in Requesters : Closing(r) =>
         /\ tenant.status = "deletion_pending" /\ requeued
         /\ \A q \in Requesters : Closing(q) => q = r
         /\ \A i \in Ids : Pursued(i) =>
               requester[r].step = "recorded" /\ i = requester[r].op /\ ~Held(i)
    /\ \A r \in Requesters : requester[r].step = "challenged" => requeued
    /\ tenant.status = "active" => \A i \in Ids : ~Pursued(i)

\* The worker has an operation of the kind its step is for.
WorkerOK ==
    /\ worker.step \notin {"waiting", "dead"} => worker.op \in Ids /\ Used(worker.op)
    /\ worker.step \in {"exporting", "recording"} => Op.kind \in Archiving
    /\ worker.step = "validating" =>
         Op.kind \in Reading /\ \A n \in DOMAIN tenant.drills : tenant.drills[n] # worker.op
    /\ worker.step \in {"draining", "flushing", "giving up"} => Op.kind \in {"restore", "tenant_delete"}
    /\ worker.step \in {"restoring", "undoing", "resuming", "losing"} => Op.kind = "restore"
    /\ worker.step = "erasing" => Op.kind = "tenant_delete"

\* A maintenance window keeps requests out from its beginning to its end.
WindowOK ==
    /\ worker.step \in {"draining", "flushing", "restoring", "undoing", "resuming", "giving up",
                        "losing", "erasing"}
         => maintenance
    /\ RestoreIsAtomic
    /\ worker.step = "erasing" => cache = 0

\* The n-th record of a list.
IsRecord(l, n) == l \in Lists /\ n \in DOMAIN tenant.records[l]
Rec(l, n) == tenant.records[l][n]

\* A record belongs to an operation of its list's kind, one to each.
RecordsOK ==
    /\ \A l \in Lists : Len(tenant.records[l]) <= RetentionCount
    /\ \A l \in Lists : \A n \in DOMAIN tenant.records[l] :
         /\ Rec(l, n).op \in Ids /\ Used(Rec(l, n).op)
         /\ ops[Rec(l, n).op].kind \in Archiving /\ ListOf(ops[Rec(l, n).op].kind) = l
    /\ OneRecordEach

\* No deletion is at the artifacts, or it is done with them.
Safe == tenant.status \in {"active", "deleted"} \/ \E r \in Requesters : Closing(r)

\* No artifact is about to be removed that a record names or is about to name.
ArtifactsOK ==
    /\ doomed \cap Recorded = {}
    /\ worker.step \in {"exporting", "recording"} => \A f \in Recorded : f.op # worker.op
    /\ worker.step = "recording" =>
         worker.value \in files /\ worker.value \notin doomed /\ worker.value.op = worker.op
    /\ worker.step = "trimming" => worker.removed \cap Recorded = {}
    /\ Safe => Recorded \subseteq files

\* Nothing comes into a deleted tenant's cache again, not even with a restore.
DeletedOK ==
    tenant.status = "deleted" =>
        /\ cache = 0 /\ \A f \in files : f.value = 0
        /\ ~accepting /\ Drained
        /\ worker.step \in {"restoring", "undoing", "giving up"} => worker.previous = 0
        /\ worker.step \in {"draining", "flushing", "restoring", "undoing", "resuming", "giving up",
                            "losing"} =>
             Op.kind = "restore" /\ Op.arg.value = 0
        /\ worker.step # "erasing"

IInv ==
    /\ Typed /\ OpsOK /\ QueueOK /\ ClosingOK /\ WorkerOK
    /\ WindowOK /\ RecordsOK /\ ArtifactsOK /\ DeletedOK

----------------------------------------------------------------------------
(* Facts about the fields of the records that steps change *)

Steps == {"waiting", "exporting", "recording", "trimming", "validating", "draining",
          "flushing", "restoring", "undoing", "resuming", "giving up", "losing", "restored",
          "erasing", "succeeding", "failing", "dead"}

\* A worker that goes to another step keeps the rest.
LEMMA GotoFields ==
  ASSUME NEW s \in Steps, worker \in WorkerType, Goto(s)
  PROVE  /\ worker' \in WorkerType
         /\ worker'.step = s /\ worker'.op = worker.op /\ worker'.previous = worker.previous
         /\ worker'.removed = worker.removed /\ worker'.value = worker.value
BY DEF Goto, WorkerType, Steps

\* A tenant that changes its status keeps the rest.
LEMMA TenantFields ==
  ASSUME NEW s \in {"active", "deletion_pending", "suspended", "deleted"},
         tenant \in TenantType, tenant' = [tenant EXCEPT !.status = s]
  PROVE  /\ tenant' \in TenantType
         /\ tenant'.status = s /\ tenant'.restored = tenant.restored
         /\ tenant'.drills = tenant.drills /\ tenant'.records = tenant.records
BY DEF TenantType

\* An operation keeps its kind and its argument through every change of status.
LEMMA StatusFields ==
  ASSUME NEW i \in Ids, NEW s \in {"pending", "running", "succeeded", "failed", "pruned"},
         ops \in [Ids -> OpType], SetStatus(i, s)
  PROVE  /\ ops' \in [Ids -> OpType]
         /\ \A j \in Ids : /\ ops'[j].kind = ops[j].kind /\ ops'[j].arg = ops[j].arg
                           /\ ops'[j].status = IF j = i THEN s ELSE ops[j].status
<1>1. ops' = [j \in Ids |-> IF j = i THEN [ops[j] EXCEPT !.status = s] ELSE ops[j]]
  BY DEF SetStatus
<1>2. ASSUME NEW a \in OpType
      PROVE  /\ [a EXCEPT !.status = s] \in OpType
             /\ [a EXCEPT !.status = s].kind = a.kind /\ [a EXCEPT !.status = s].arg = a.arg
             /\ [a EXCEPT !.status = s].status = s
  BY DEF OpType
<1> QED BY <1>1, <1>2

\* What the records of a tenant name, position by position.
LEMMA RecordedIs ==
  /\ \A f : f \in Recorded <=>
       \E l \in Lists : \E n \in DOMAIN tenant.records[l] : f = tenant.records[l][n]
  /\ \A f : f \in Recorded' <=>
       \E l \in Lists : \E n \in DOMAIN tenant'.records[l] : f = tenant'.records[l][n]
BY DEF Recorded, ToSet

\* The set of live operations is finite, now and after a step.
LEMMA LiveFinite == IsFiniteSet(Live) /\ IsFiniteSet(Live')
<1>1. IsFiniteSet(Ids) BY FS_Interval, LimitsArePositive DEF Ids
<1>2. Live \subseteq Ids /\ Live' \subseteq Ids BY DEF Live
<1> QED BY <1>1, <1>2, FS_Subset

----------------------------------------------------------------------------
(* What does not change keeps its part of the invariant *)

\* Operations stay what they are; only their status moves.
Stay == \A i \in Ids : Used(i) =>
            Used(i)' /\ ops'[i].kind = ops[i].kind /\ ops'[i].arg = ops[i].arg

\* Statuses move, and no operation leaves or enters the state file.
Settle == \A i \in Ids : /\ ops'[i].kind = ops[i].kind /\ ops'[i].arg = ops[i].arg
                         /\ (ops'[i].status = "none") <=> (ops[i].status = "none")
                         /\ (ops'[i].status = "pruned") => (ops[i].status = "pruned")
                         /\ (ops[i].status = "pruned") => (ops'[i].status = "pruned")

\* Moving statuses about leaves the list of operations as it is.
LEMMA OpsFrame == ASSUME OpsOK, Settle PROVE OpsOK' /\ Stay
<1>1. Live' = Live BY DEF Settle, Live
<1>2. \A i \in Ids : Used(i)' <=> Used(i) BY DEF Settle, Used
<1>3. OpsOK'
  <2>1. (\E n \in 0 .. MaxRequests : \A i \in Ids : Used(i) <=> i <= n)'
    BY <1>2 DEF OpsOK
  <2>2. (\A i \in Ids : IF Used(i) THEN ops[i].kind \in Known ELSE ops[i].kind = "none")'
    BY <1>2 DEF OpsOK, Settle
  <2> QED BY <2>1, <2>2, <1>1 DEF OpsOK
<1> QED BY <1>3, <1>2 DEF Stay, Settle

\* The queue names operations of the state file as long as they stay there.
LEMMA QueueFrame ==
  ASSUME Typed, QueueOK, Stay, UNCHANGED <<queue, requester>> PROVE QueueOK'
<1>1. \A n \in DOMAIN queue : queue[n] \in Ids BY DEF Typed
<1> QED BY <1>1 DEF QueueOK, Stay

\* Nothing new is held while the queue stands still and the worker keeps its operation.
LEMMA HeldFrame ==
  ASSUME UNCHANGED queue,
         \/ UNCHANGED worker
         \/ worker'.op = worker.op /\ worker.step \notin {"waiting", "dead"}
         \/ worker'.step \in {"waiting", "dead"}
  PROVE  \A i \in Ids : Held(i)' => Held(i)
BY DEF Held

\* Without a new deletion and a change of status nobody else can be closing the tenant.
LEMMA ClosingFrame ==
  ASSUME ClosingOK, UNCHANGED <<requester, requeued>>, tenant'.status = tenant.status,
         \A i \in Ids : Deletion(i)' => Deletion(i),
         \A i \in Ids : Held(i)' => Held(i),
         \A i \in Ids : Unfinished(i)' => Unfinished(i) \/ Held(i)
  PROVE  ClosingOK'
<1>1. \A i \in Ids : Pursued(i)' => Pursued(i) BY DEF Pursued
<1>2. \A r \in Requesters : Closing(r)' <=> Closing(r) BY DEF Closing
<1> QED BY <1>1, <1>2 DEF ClosingOK

\* Artifacts are no safer than before while requests and the tenant stand still.
LEMMA SafeFrame ==
  ASSUME UNCHANGED requester,
         tenant'.status \in {"active", "deleted"} => tenant.status \in {"active", "deleted"}
  PROVE  Safe' => Safe
BY DEF Safe, Closing

\* Records belong to their operations as long as these stay what they are.
LEMMA RecordsFrame ==
  ASSUME Typed, RecordsOK, Stay, tenant'.records = tenant.records, tenant'.drills = tenant.drills
  PROVE  RecordsOK'
<1>1. OneRecordEach' BY DEF RecordsOK, OneRecordEach
<1> QED BY <1>1 DEF RecordsOK, Stay, Rec

\* Everything that is about the worker, where it stays at its step.
LEMMA WorkerFrame ==
  ASSUME Typed, WorkerOK, Stay, UNCHANGED worker, tenant'.drills = tenant.drills
  PROVE  WorkerOK'
BY DEF WorkerOK, Stay, Op

\* The maintenance window lasts while the worker and the data plane stand still.
LEMMA WindowFrame ==
  ASSUME Typed, WorkerOK, WindowOK, Stay, UNCHANGED <<worker, cache, maintenance, client>>
  PROVE  WindowOK'
BY DEF WindowOK, WorkerOK, Stay, Op, RestoreIsAtomic, At, Drained

\* Artifacts are safe while worker, files and records stand still.
LEMMA ArtifactsFrame ==
  ASSUME ArtifactsOK, UNCHANGED <<worker, files, doomed>>, tenant'.records = tenant.records,
         Safe' => Safe
  PROVE  ArtifactsOK'
<1>1. Recorded' = Recorded BY DEF Recorded
<1> QED BY <1>1 DEF ArtifactsOK

\* A deleted tenant stays empty while cache, files and worker stand still.
LEMMA DeletedFrame ==
  ASSUME Typed, WorkerOK, DeletedOK, Stay, UNCHANGED <<worker, files, cache, client>>,
         tenant'.status = "deleted" => tenant.status = "deleted" /\ accepting' = accepting
  PROVE  DeletedOK'
BY DEF DeletedOK, WorkerOK, Stay, Op, Drained

\* Steps that leave the state file alone.
LEMMA DurableFrame ==
  ASSUME IInv, UNCHANGED <<tenant, ops>>
  PROVE  /\ Stay /\ OpsOK' /\ RecordsOK'
         /\ /\ UNCHANGED <<queue, requester, requeued>>
            /\ \/ UNCHANGED worker
               \/ worker'.op = worker.op /\ worker.step \notin {"waiting", "dead"}
            => QueueOK' /\ ClosingOK' /\ (Safe' => Safe)
         /\ UNCHANGED worker => WorkerOK'
<1>1. Typed /\ OpsOK /\ QueueOK /\ ClosingOK /\ WorkerOK /\ RecordsOK BY DEF IInv
<1>2. Settle BY DEF Settle
<1>3. Stay /\ OpsOK' BY <1>1, <1>2, OpsFrame
<1>4. RecordsOK' BY <1>1, <1>3, RecordsFrame
<1>5. ASSUME UNCHANGED <<queue, requester, requeued>>,
             \/ UNCHANGED worker
             \/ worker'.op = worker.op /\ worker.step \notin {"waiting", "dead"}
      PROVE  QueueOK' /\ ClosingOK' /\ (Safe' => Safe)
  <2>1. \A i \in Ids : (Deletion(i)' => Deletion(i)) /\ (Unfinished(i)' => Unfinished(i))
    BY DEF Deletion, Unfinished
  <2>2. \A i \in Ids : Held(i)' => Held(i) BY <1>5, HeldFrame
  <2>3. ClosingOK' BY <2>1, <2>2, <1>1, <1>5, ClosingFrame
  <2> QED BY <2>3, <1>1, <1>3, <1>5, QueueFrame, SafeFrame
<1>6. ASSUME UNCHANGED worker PROVE WorkerOK'
  <2>1. Op' = Op BY <1>6 DEF Op
  <2> QED BY <2>1, <1>1, <1>6 DEF WorkerOK, Used
<1> QED BY <1>3, <1>4, <1>5, <1>6

----------------------------------------------------------------------------
(* The data plane *)

\* begin_operation: the door is open, so that no window and no deletion is at stake.
LEMMA AdmitKeeps ==
  ASSUME IInv, NEW c \in Clients, Admit(c) PROVE IInv'
<1>0. Typed /\ WindowOK /\ WorkerOK /\ ArtifactsOK /\ DeletedOK BY DEF IInv
<1>1. UNCHANGED <<tenant, ops, files, queue, requester, doomed, requeued, worker, cache,
                  accepting, maintenance, faults, crashes>>
  BY DEF Admit, durable, threads
<1>2. client' = [client EXCEPT ![c] = "active"] /\ accepting /\ ~maintenance BY DEF Admit
<1>3. Typed' BY <1>0, <1>1, <1>2 DEF Typed
<1>4. OpsOK' /\ QueueOK' /\ ClosingOK' /\ WorkerOK' /\ RecordsOK' BY <1>1, DurableFrame
<1>5. WindowOK' BY <1>0, <1>1, <1>2 DEF WindowOK, RestoreIsAtomic, At
<1>6. ArtifactsOK' BY <1>0, <1>1 DEF ArtifactsOK, Recorded, Safe, Closing
<1>7. DeletedOK' BY <1>0, <1>1, <1>2 DEF DeletedOK
<1> QED BY <1>3, <1>4, <1>5, <1>6, <1>7 DEF IInv

\* end_operation: who was inside shows that nobody has drained the tenant.
LEMMA FinishKeeps ==
  ASSUME IInv, NEW c \in Clients, Finish(c) PROVE IInv'
<1>0. Typed /\ WindowOK /\ WorkerOK /\ ArtifactsOK /\ DeletedOK BY DEF IInv
<1>1. UNCHANGED <<tenant, ops, files, queue, requester, doomed, requeued, worker,
                  accepting, maintenance, faults, crashes>>
  BY DEF Finish, durable, threads
<1>2. client' = [client EXCEPT ![c] = "idle"] /\ client[c] = "active" /\ cache' \in Contained
  BY <1>0 DEF Finish, Typed, Contained
<1>3. Typed' BY <1>0, <1>1, <1>2 DEF Typed
<1>4. OpsOK' /\ QueueOK' /\ ClosingOK' /\ WorkerOK' /\ RecordsOK' BY <1>1, DurableFrame
<1>5. ~Drained BY <1>2 DEF Drained
<1>6. WindowOK' BY <1>0, <1>1, <1>5 DEF WindowOK, RestoreIsAtomic, At
<1>7. ArtifactsOK' BY <1>0, <1>1 DEF ArtifactsOK, Recorded, Safe, Closing
<1>8. DeletedOK' BY <1>0, <1>1, <1>5 DEF DeletedOK
<1> QED BY <1>3, <1>4, <1>6, <1>7, <1>8 DEF IInv

----------------------------------------------------------------------------
(* Requests *)

\* A request that has read the tenant's status asks for no deletion.
LEMMA CheckKeeps ==
  ASSUME IInv, NEW r \in Requesters, NEW kind \in Kinds, NEW arg, Check(r, kind, arg)
  PROVE  IInv'
<1>0. Typed /\ QueueOK /\ ClosingOK /\ WindowOK /\ WorkerOK /\ ArtifactsOK /\ DeletedOK BY DEF IInv
<1>1. UNCHANGED <<tenant, ops, files, queue, doomed, requeued, worker, cache, client,
                  accepting, maintenance, faults, crashes>>
  BY DEF Check, durable, plane
<1>2. /\ requester' = [requester EXCEPT ![r] =
              [step |-> "checked", kind |-> kind, arg |-> arg, op |-> 0]]
      /\ kind # "tenant_delete" /\ kind \in Known
  BY KindsAreKnown DEF Check, Known
<1>3. NoFile \in File BY LimitsArePositive DEF NoFile, File, Contained
<1>4. arg \in File
  <2>1. tenant.records["backups"] \in Seq(File) BY <1>0 DEF Typed, TenantType, Lists
  <2>2. ToSet(tenant.records["backups"]) \subseteq File BY <2>1 DEF ToSet
  <2>3. arg \in ToSet(tenant.records["backups"]) \cup {NoFile} BY DEF Check, Arguments
  <2> QED BY <2>2, <2>3, <1>3
<1>5. requester' \in [Requesters -> RequestType]
  BY <1>0, <1>2, <1>4, LimitsArePositive DEF Typed, RequestType
<1>6. Typed' BY <1>0, <1>1, <1>5 DEF Typed
<1>7. Stay /\ OpsOK' /\ RecordsOK' /\ WorkerOK' BY <1>1, DurableFrame
<1>8. QueueOK' BY <1>0, <1>1, <1>2 DEF QueueOK, Used, Typed
<1>9. \A q \in Requesters : Closing(q)' => Closing(q) BY <1>0, <1>2 DEF Closing, Typed
<1>10. ClosingOK'
  <2>1. \A q \in Requesters : (Closing(q)' => requester'[q] = requester[q])
             /\ (requester'[q].step = "challenged" => requester[q].step = "challenged")
    BY <1>0, <1>2 DEF Closing, Typed
  <2>2. \A i \in Ids : (Pursued(i)' <=> Pursued(i)) /\ (Held(i)' <=> Held(i))
    BY <1>1 DEF Pursued, Deletion, Held, Unfinished
  <2> QED BY <1>0, <1>1, <1>9, <2>1, <2>2 DEF ClosingOK
<1>11. WindowOK' BY <1>0, <1>1, <1>7, WindowFrame
<1>12. ArtifactsOK'
  <2>1. Safe' => Safe BY <1>1, <1>9 DEF Safe
  <2> QED BY <2>1, <1>0, <1>1, ArtifactsFrame
<1>13. DeletedOK' BY <1>0, <1>1, <1>7, DeletedFrame
<1> QED BY <1>6, <1>7, <1>8, <1>10, <1>11, <1>12, <1>13 DEF IInv

\* A challenge, its rejection, an answer with an earlier operation, and the queueing of a
\* recorded one.
LEMMA ChallengeKeeps ==
  ASSUME IInv, NEW r \in Requesters, IssueChallenge(r) \/ RejectChallenge(r) \/ Repeat(r) \/ Put(r)
  PROVE  IInv'
<1>0. Typed /\ QueueOK /\ ClosingOK /\ WindowOK /\ WorkerOK /\ ArtifactsOK /\ DeletedOK BY DEF IInv
<1>1. UNCHANGED <<tenant, ops, files, doomed, requeued, worker, cache, client,
                  accepting, maintenance, faults, crashes>>
  BY DEF IssueChallenge, RejectChallenge, Repeat, Put, durable, plane
<1>2. \/ requester' = [requester EXCEPT ![r].step = "challenged"]
      \/ requester' = [requester EXCEPT ![r] = NoRequest]
  BY DEF IssueChallenge, RejectChallenge, Repeat, Put
<1>3. NoFile \in File BY LimitsArePositive DEF NoFile, File, Contained
<1>4. NoRequest \in RequestType BY <1>3, LimitsArePositive DEF NoRequest, RequestType
<1>5. requester' \in [Requesters -> RequestType]
  <2>1. CASE requester' = [requester EXCEPT ![r] = NoRequest] BY <2>1, <1>0, <1>4 DEF Typed
  <2>2. CASE requester' = [requester EXCEPT ![r].step = "challenged"]
    <3>1. requester \in [Requesters -> RequestType] BY <1>0 DEF Typed
    <3> QED BY <2>2, <3>1 DEF RequestType
  <2> QED BY <1>2, <2>1, <2>2
<1>6. \A q \in Requesters : requester'[q].step \notin {"idle", "challenged"} => requester'[q] = requester[q]
  <2>1. requester \in [Requesters -> RequestType] BY <1>0 DEF Typed
  <2>2. requester'[r].step \in {"idle", "challenged"}
    BY <1>2, <2>1 DEF RequestType, NoRequest
  <2> QED BY <1>2, <2>1, <2>2
<1>7. queue' \in Seq(Ids) /\ Len(queue') <= MaxOperations /\ \A n \in DOMAIN queue' : Used(queue'[n])
  <2>1. CASE UNCHANGED queue BY <2>1, <1>0 DEF Typed, QueueOK
  <2>2. CASE Put(r)
    <3>1. requester[r].op \in Ids /\ Used(requester[r].op) BY <2>2, <1>0 DEF Put, QueueOK
    <3>2. queue' = Append(queue, requester[r].op) /\ Len(queue) < MaxOperations BY <2>2 DEF Put
    <3>3. queue \in Seq(Ids) /\ Len(queue) \in Nat /\ MaxOperations \in Nat
      BY <1>0, LimitsArePositive DEF Typed
    <3>4. Len(queue') <= MaxOperations BY <3>2, <3>3
    <3> QED BY <3>1, <3>2, <3>3, <3>4, <1>0 DEF QueueOK
  <2> QED BY <2>1, <2>2 DEF IssueChallenge, RejectChallenge, Repeat
<1>8. Typed' BY <1>0, <1>1, <1>5, <1>7 DEF Typed
<1>9. Stay /\ OpsOK' /\ RecordsOK' /\ WorkerOK' BY <1>1, DurableFrame
<1>10. QueueOK' BY <1>0, <1>1, <1>6, <1>7 DEF QueueOK, Used
<1>11. \A q \in Requesters : Closing(q)' => Closing(q) BY <1>6 DEF Closing
<1>12. ClosingOK'
  <2>1. \A i \in Ids : (Deletion(i)' <=> Deletion(i)) /\ (Unfinished(i)' <=> Unfinished(i))
    BY <1>1 DEF Deletion, Unfinished
  <2>2. \A q \in Requesters : Closing(q)' => requester'[q] = requester[q] BY <1>6 DEF Closing
  <2>3. CASE UNCHANGED queue
    <3>1. \A i \in Ids : (Pursued(i)' <=> Pursued(i)) /\ (Held(i)' <=> Held(i))
      BY <1>1, <2>1, <2>3 DEF Pursued, Held
    <3>2. \A q \in Requesters : requester'[q].step = "challenged" => requeued'
      <4>1. IssueChallenge(r) => requeued BY DEF IssueChallenge, MayRequest
      <4>2. \A q \in Requesters : requester'[q].step = "challenged" =>
                q = r \/ requester[q].step = "challenged"
        BY <1>0, <1>2 DEF Typed
      <4>3. requester'[r].step = "challenged" => IssueChallenge(r)
        BY <1>0 DEF RejectChallenge, Repeat, Put, NoRequest, Typed
      <4> QED BY <1>0, <1>1, <4>1, <4>2, <4>3 DEF ClosingOK
    <3> QED BY <1>0, <1>1, <1>11, <2>2, <3>1, <3>2 DEF ClosingOK
  <2>4. CASE Put(r)
    <3>1. queue' = Append(queue, requester[r].op) /\ requester[r].step = "recorded"
      BY <2>4 DEF Put
    <3>2. \A i \in Ids : Held(i)' => Held(i) \/ i = requester[r].op
      <4>1. queue \in Seq(Ids) /\ requester[r].op \in Ids BY <1>0, <3>1 DEF Typed, QueueOK
      <4>2. \A n \in DOMAIN queue' : queue'[n] = requester[r].op \/ \E m \in DOMAIN queue : queue'[n] = queue[m]
        BY <3>1, <4>1
      <4> QED BY <1>1, <4>2 DEF Held
    <3>3. \A q \in Requesters : requester'[q].step = "challenged" => requester[q].step = "challenged"
      BY <1>0, <2>4 DEF Put, NoRequest, Typed
    <3>4. requester'[r].step = "idle" BY <1>0, <2>4 DEF Put, NoRequest, Typed
    <3>5. CASE Closing(r)
      <4>1. \A q \in Requesters : ~Closing(q)'
        BY <3>4, <3>5, <1>0, <1>11 DEF ClosingOK, Closing
      <4>2. tenant'.status # "active" BY <3>5, <1>0, <1>1 DEF ClosingOK
      <4> QED BY <4>1, <4>2, <3>3, <1>0, <1>1 DEF ClosingOK
    <3>6. CASE ~Closing(r)
      <4>1. ~Deletion(requester[r].op) BY <3>1, <3>6, <1>0 DEF QueueOK, Closing, Deletion
      <4>2. \A i \in Ids : Pursued(i)' => Pursued(i) BY <2>1, <3>2, <4>1 DEF Pursued
      <4>3. \A i \in Ids : Pursued(i)' /\ Held(i)' => Held(i)
        BY <2>1, <3>2, <4>1 DEF Pursued
      <4> QED BY <1>0, <1>1, <1>11, <2>2, <3>3, <4>2, <4>3 DEF ClosingOK
    <3> QED BY <3>5, <3>6
  <2> QED BY <2>3, <2>4 DEF IssueChallenge, RejectChallenge, Repeat
<1>13. WindowOK' BY <1>0, <1>1, <1>9, WindowFrame
<1>14. ArtifactsOK'
  <2>1. Safe' => Safe BY <1>1, <1>11 DEF Safe
  <2> QED BY <2>1, <1>0, <1>1, ArtifactsFrame
<1>15. DeletedOK' BY <1>0, <1>1, <1>9, DeletedFrame
<1> QED BY <1>8, <1>9, <1>10, <1>12, <1>13, <1>14, <1>15 DEF IInv

\* An active tenant has no deletion, so that whoever closes it is the only one.
LEMMA MarkPendingKeeps ==
  ASSUME IInv, NEW r \in Requesters, MarkPending(r) PROVE IInv'
<1>0. /\ Typed /\ OpsOK /\ QueueOK /\ ClosingOK /\ WindowOK /\ WorkerOK
      /\ RecordsOK /\ ArtifactsOK /\ DeletedOK
  BY DEF IInv
<1>1. UNCHANGED <<ops, files, queue, doomed, requeued, worker, cache, client,
                  maintenance, faults, crashes>>
  BY DEF MarkPending
<1>2. /\ tenant.status = "active" /\ accepting' = FALSE
      /\ requester' = [requester EXCEPT ![r] =
              [step |-> "checked", kind |-> "tenant_delete", arg |-> NoFile, op |-> 0]]
  BY DEF MarkPending
<1>3. /\ tenant' \in TenantType /\ tenant'.status = "deletion_pending"
      /\ tenant'.drills = tenant.drills /\ tenant'.records = tenant.records
  BY <1>0, TenantFields DEF MarkPending, Typed
<1>4. NoFile \in File BY LimitsArePositive DEF NoFile, File, Contained
<1>5. requester' \in [Requesters -> RequestType]
  BY <1>0, <1>2, <1>4, LimitsArePositive DEF Typed, RequestType, Known
<1>6. Typed' BY <1>0, <1>1, <1>2, <1>3, <1>5 DEF Typed
<1>7. Settle /\ \A i \in Ids : Pursued(i)' <=> Pursued(i)
  BY <1>1 DEF Settle, Pursued, Deletion, Held, Unfinished
<1>8. OpsOK' /\ Stay BY <1>0, <1>7, OpsFrame
<1>9. QueueOK'
  BY <1>0, <1>1, <1>2 DEF QueueOK, Used, Typed, Known
<1>10. \A i \in Ids : ~Pursued(i) BY <1>0, <1>2 DEF ClosingOK
<1>11. \A q \in Requesters : ~Closing(q) BY <1>0, <1>2 DEF ClosingOK
<1>12. \A q \in Requesters : Closing(q)' => q = r BY <1>0, <1>2, <1>11 DEF Closing, Typed
<1>13. ClosingOK'
  <2>1. requeued' BY <1>0, <1>1 DEF MarkPending, ClosingOK
  <2> QED BY <1>3, <1>7, <1>10, <1>12, <2>1 DEF ClosingOK
<1>14. RecordsOK' BY <1>0, <1>3, <1>8, RecordsFrame
<1>15. WorkerOK' BY <1>0, <1>1, <1>3 DEF WorkerOK, Op, Used
<1>16. WindowOK' BY <1>0, <1>1, <1>8, WindowFrame
<1>17. ArtifactsOK'
  <2>1. Safe BY <1>2 DEF Safe
  <2> QED BY <2>1, <1>0, <1>1, <1>3, ArtifactsFrame
<1>18. DeletedOK' BY <1>3 DEF DeletedOK
<1> QED BY <1>6, <1>8, <1>9, <1>13, <1>14, <1>15, <1>16, <1>17, <1>18 DEF IInv

\* A closing request that is refused opens the tenant: it has not been touched yet.
LEMMA RefuseKeeps ==
  ASSUME IInv, NEW r \in Requesters, Refuse(r) PROVE IInv'
<1>0. /\ Typed /\ OpsOK /\ QueueOK /\ ClosingOK /\ WindowOK /\ WorkerOK
      /\ RecordsOK /\ ArtifactsOK /\ DeletedOK
  BY DEF IInv
<1>1. UNCHANGED <<ops, files, queue, doomed, requeued, worker, cache, client,
                  maintenance, crashes>>
  BY DEF Refuse
<1>2. /\ requester' = [requester EXCEPT ![r] = NoRequest]
      /\ requester[r].step = "checked"
  BY DEF Refuse
<1>3. faults' \in 0 .. MaxFaults
  BY <1>0, LimitsArePositive DEF Refuse, Fault, Typed
<1>4. \/ ~Closing(r) /\ UNCHANGED <<tenant, accepting>>
      \/ Closing(r) /\ tenant' = [tenant EXCEPT !.status = "active"] /\ accepting' = TRUE
  BY <1>2 DEF Refuse, Closing
<1>5. /\ tenant' \in TenantType /\ accepting' \in BOOLEAN
      /\ tenant'.drills = tenant.drills /\ tenant'.records = tenant.records
      /\ ~Closing(r) => tenant'.status = tenant.status /\ accepting' = accepting
      /\ Closing(r) => tenant'.status = "active"
  BY <1>0, <1>4, TenantFields DEF Typed
<1>6. NoRequest \in RequestType
  BY LimitsArePositive DEF NoRequest, RequestType, NoFile, File, Contained
<1>7. requester' \in [Requesters -> RequestType] BY <1>0, <1>2, <1>6 DEF Typed
<1>8. Typed' BY <1>0, <1>1, <1>3, <1>5, <1>7 DEF Typed
<1>9. Settle /\ \A i \in Ids : (Pursued(i)' <=> Pursued(i)) /\ (Held(i)' <=> Held(i))
  BY <1>1 DEF Settle, Pursued, Deletion, Held, Unfinished
<1>10. OpsOK' /\ Stay BY <1>0, <1>9, OpsFrame
<1>11. QueueOK' BY <1>0, <1>1, <1>2 DEF QueueOK, Used, Typed, NoRequest
<1>12. /\ \A q \in Requesters : Closing(q)' => Closing(q) /\ q # r /\ requester'[q] = requester[q]
       /\ \A q \in Requesters : requester'[q].step = "challenged" => requester[q].step = "challenged"
  BY <1>0, <1>2 DEF Closing, Typed, NoRequest
<1>13. ClosingOK'
  <2>1. CASE ~Closing(r) BY <2>1, <1>0, <1>1, <1>5, <1>9, <1>12 DEF ClosingOK
  <2>2. CASE Closing(r)
    <3>1. \A q \in Requesters : ~Closing(q)' BY <2>2, <1>0, <1>12 DEF ClosingOK
    <3>2. \A i \in Ids : ~Pursued(i)' BY <2>2, <1>0, <1>2, <1>9 DEF ClosingOK
    <3> QED BY <3>1, <3>2, <1>0, <1>1, <1>12 DEF ClosingOK
  <2> QED BY <2>1, <2>2
<1>14. RecordsOK' BY <1>0, <1>5, <1>10, RecordsFrame
<1>15. WorkerOK' BY <1>0, <1>1, <1>5 DEF WorkerOK, Op, Used
<1>16. WindowOK' BY <1>0, <1>1, <1>10, WindowFrame
<1>17. tenant'.status = "deleted" => tenant.status = "deleted" /\ accepting' = accepting
  BY <1>5
<1>18. ArtifactsOK'
  <2>1. Safe' => Safe BY <1>5, <1>12 DEF Safe
  <2> QED BY <2>1, <1>0, <1>1, <1>5, ArtifactsFrame
<1>19. DeletedOK' BY <1>0, <1>1, <1>10, <1>17, DeletedFrame
<1> QED BY <1>8, <1>10, <1>11, <1>13, <1>14, <1>15, <1>16, <1>18, <1>19 DEF IInv

\* The oldest of some operations is one of them.
LEMMA OldestIs ==
  ASSUME NEW I \in SUBSET Ids, I # {} PROVE Oldest(I) \in I
<1>1. I \subseteq Nat BY LimitsArePositive DEF Ids
<1>2. PICK x \in I : \A y \in I : ~(<<y, x>> \in OpToRel(<, Nat))
  BY <1>1, NatLessThanWellFounded, WFMin
<1>3. \A y \in I : ~(y < x) BY <1>1, <1>2 DEF OpToRel
<1>4. \A y \in I : x <= y BY <1>1, <1>3
<1> QED BY <1>4 DEF Oldest

\* The next operation's number has not been used, those before it have.
LEMMA NextId ==
  ASSUME NEW n \in 0 .. MaxRequests, \A i \in Ids : Used(i) <=> i <= n
  PROVE  Cardinality({j \in Ids : ops[j].status # "none"}) = n
<1>1. {j \in Ids : ops[j].status # "none"} = 1 .. n
  BY LimitsArePositive DEF Used, Ids
<1>2. Cardinality(1 .. n) = n BY FS_Interval, LimitsArePositive
<1> QED BY <1>1, <1>2

\* The new operation has a number of its own, and the pruned one was over: the
\* worker's is neither.
LEMMA RecordKeeps ==
  ASSUME IInv, NEW r \in Requesters, Record(r) PROVE IInv'
<1> DEFINE i == Cardinality({j \in Ids : ops[j].status # "none"}) + 1
           done == {j \in Live : Complete(j)}
           new == [kind |-> requester[r].kind, arg |-> requester[r].arg, status |-> "pending"]
           pruned == IF Cardinality(Live) < MaxOperations THEN ops
                     ELSE [j \in Ids |-> IF j = Oldest(done) \/ j \in Surplus
                                          THEN [ops[j] EXCEPT !.status = "pruned"] ELSE ops[j]]
<1>0. /\ Typed /\ OpsOK /\ QueueOK /\ ClosingOK /\ WindowOK /\ WorkerOK
      /\ RecordsOK /\ ArtifactsOK /\ DeletedOK
  BY DEF IInv
<1>1. UNCHANGED <<tenant, files, queue, doomed, requeued, worker, cache, client,
                  accepting, maintenance, faults, crashes>>
  BY DEF Record, plane
<1>2. /\ requester[r].step = "checked" /\ i \in Ids /\ HasRoom
      /\ ops' = [pruned EXCEPT ![i] = new]
      /\ requester' = [requester EXCEPT ![r] =
             [step |-> "recorded", kind |-> requester[r].kind, arg |-> requester[r].arg, op |-> i]]
  BY DEF Record
<1>3. PICK n \in 0 .. MaxRequests : \A j \in Ids : Used(j) <=> j <= n BY <1>0 DEF OpsOK
<1>4. i = n + 1 BY <1>3, NextId
<1> HIDE DEF i
<1>5. ~Used(i) /\ i \in Ids BY <1>2, <1>3, <1>4 DEF Ids
<1>6. new \in OpType /\ requester[r].kind \in Known
  BY <1>0, <1>2 DEF OpType, Typed, RequestType, QueueOK
<1>7. /\ ops' \in [Ids -> OpType] /\ ops'[i] = new
      /\ \A j \in Ids \ {i} :
           /\ ops'[j].kind = ops[j].kind /\ ops'[j].arg = ops[j].arg
           /\ ops'[j].status = ops[j].status \/ (Complete(j) /\ ops'[j].status = "pruned")
      /\ Cardinality(Live') <= MaxOperations
  <2>0. IsFiniteSet(Live) /\ Cardinality(Live) \in Nat BY LiveFinite, FS_CardinalityType
  <2>1. MaxOperations \in Nat BY LimitsArePositive
  <2>2. ops \in [Ids -> OpType] BY <1>0 DEF Typed
  <2>3. i \notin Live BY <1>5 DEF Used, Live
  <2>4. CASE Cardinality(Live) < MaxOperations
    <3>1. ops' = [ops EXCEPT ![i] = new] BY <2>4, <1>2
    <3>2. /\ ops' \in [Ids -> OpType] /\ ops'[i] = new
          /\ \A j \in Ids \ {i} : ops'[j] = ops[j]
      BY <3>1, <2>2, <1>5, <1>6
    <3>3. Live' = Live \cup {i} BY <3>2, <1>5 DEF Live
    <3>4. Cardinality(Live') = Cardinality(Live) + 1 BY <3>3, <2>0, <2>3, FS_AddElement
    <3> QED BY <3>2, <3>4, <2>0, <2>1, <2>4
  <2>5. CASE ~(Cardinality(Live) < MaxOperations)
    <3>0. Cardinality(Live) = MaxOperations BY <2>5, <2>0, <2>1, <1>0 DEF OpsOK
    <3>1. done \in SUBSET Ids /\ done # {} BY <1>2, <2>5 DEF HasRoom, Live
    <3>2. PICK o \in done : o = Oldest(done) BY <3>1, OldestIs
    <3>3. PICK S : S = {o} \cup Surplus OBVIOUS
    <3>4. o \in S /\ S \subseteq Live /\ \A j \in S : Complete(j)
      BY <3>3 DEF Surplus
    <3>5. ASSUME NEW a \in OpType
          PROVE  /\ [a EXCEPT !.status = "pruned"] \in OpType
                 /\ [a EXCEPT !.status = "pruned"].kind = a.kind
                 /\ [a EXCEPT !.status = "pruned"].arg = a.arg
                 /\ [a EXCEPT !.status = "pruned"].status = "pruned"
      BY DEF OpType
    <3>6. ops' = [j \in Ids |-> IF j = i THEN new
                                ELSE IF j \in S THEN [ops[j] EXCEPT !.status = "pruned"]
                                ELSE ops[j]]
      <4>1. pruned = [j \in Ids |-> IF j \in S THEN [ops[j] EXCEPT !.status = "pruned"] ELSE ops[j]]
        BY <3>2, <3>3, <2>5
      <4> HIDE DEF pruned, new
      <4> QED BY <4>1, <1>2, <1>5
    <3>7. ops' \in [Ids -> OpType] /\ ops'[i] = new BY <3>5, <3>6, <2>2, <1>5, <1>6
    <3>8. \A j \in Ids \ {i} :
            /\ ops'[j].kind = ops[j].kind /\ ops'[j].arg = ops[j].arg
            /\ ops'[j].status = IF j \in S THEN "pruned" ELSE ops[j].status
      BY <3>5, <3>6, <2>2
    <3>9. Live' = (Live \ S) \cup {i} BY <2>3, <3>4, <3>7, <3>8, <1>5 DEF Live
    <3>10. IsFiniteSet(Live \ {o}) /\ Cardinality(Live \ {o}) = MaxOperations - 1
      BY <3>0, <3>4, <2>0, FS_RemoveElement
    <3>11. Live \ S \subseteq Live \ {o} BY <3>4
    <3>12. /\ IsFiniteSet(Live \ S) /\ Cardinality(Live \ S) <= MaxOperations - 1
           /\ Cardinality(Live \ S) \in Nat
      BY <3>10, <3>11, FS_Subset, FS_CardinalityType
    <3>13. Cardinality(Live') = Cardinality(Live \ S) + 1
      BY <3>9, <3>12, <2>3, FS_AddElement
    <3> QED BY <3>4, <3>7, <3>8, <3>12, <3>13, <2>1
  <2> QED BY <2>4, <2>5
<1>8. requester \in [Requesters -> RequestType] BY <1>0 DEF Typed
<1>9. /\ requester' \in [Requesters -> RequestType]
      /\ requester'[r].step = "recorded" /\ requester'[r].op = i
      /\ requester'[r].kind = requester[r].kind
      /\ \A q \in Requesters \ {r} : requester'[q] = requester[q]
  <2>1. PICK a \in RequestType : a = requester[r] BY <1>8
  <2>2. i \in 0 .. MaxRequests BY <1>5, LimitsArePositive DEF Ids
  <2>3. [step |-> "recorded", kind |-> a.kind, arg |-> a.arg, op |-> i] \in RequestType
    BY <2>2 DEF RequestType
  <2> QED BY <1>2, <1>8, <2>1, <2>3
<1>10. Typed' BY <1>0, <1>1, <1>7, <1>9 DEF Typed
<1>11. Stay /\ \A j \in Ids : Used(j)' <=> (Used(j) \/ j = i)
  BY <1>5, <1>7 DEF Stay, Used, Complete
<1>12. OpsOK'
  <2>1. n + 1 \in 0 .. MaxRequests BY <1>4, <1>5, LimitsArePositive DEF Ids
  <2>2. \A j \in Ids : Used(j)' <=> j <= n + 1 BY <1>3, <1>4, <1>11 DEF Ids
  <2>3. \A j \in Ids : IF Used(j)' THEN ops'[j].kind \in Known ELSE ops'[j].kind = "none"
    BY <1>0, <1>6, <1>7, <1>11 DEF OpsOK
  <2> QED BY <2>1, <2>2, <2>3, <1>7 DEF OpsOK
<1>13. QueueOK'
  <2>1. \A m \in DOMAIN queue : queue[m] \in Ids BY <1>0 DEF Typed
  <2>2. \A m \in DOMAIN queue' : Used(queue[m])' BY <1>0, <1>1, <1>11, <2>1 DEF QueueOK
  <2>3. ASSUME NEW q \in Requesters
        PROVE  /\ requester'[q].step = "recorded" =>
                     /\ requester'[q].op \in Ids /\ Used(requester[q].op)'
                     /\ ops'[requester'[q].op].kind = requester'[q].kind
               /\ requester'[q].step = "checked" => requester'[q].kind \in Known
    <3>1. CASE q = r BY <3>1, <1>5, <1>7, <1>9, <1>11
    <3>2. CASE q # r
      <4>1. requester'[q] = requester[q] BY <3>2, <1>9
      <4>2. requester[q].step = "recorded" => requester[q].op # i BY <1>0, <1>5 DEF QueueOK
      <4> QED BY <4>1, <4>2, <1>0, <1>7, <1>11 DEF QueueOK
    <3> QED BY <3>1, <3>2
  <2> QED BY <1>0, <1>1, <2>2, <2>3 DEF QueueOK
<1>14. /\ \A q \in Requesters : Closing(q)' <=> Closing(q)
       /\ \A q \in Requesters : requester'[q].step = "challenged" => requester[q].step = "challenged"
  BY <1>2, <1>9 DEF Closing
<1>15. /\ \A j \in Ids : Held(j)' <=> Held(j)
       /\ \A j \in Ids \ {i} : Pursued(j)' => Pursued(j)
       /\ \A j \in Ids : j = i => (Deletion(j)' <=> Closing(r))
  <2>1. \A j \in Ids : Held(j)' <=> Held(j) BY <1>1 DEF Held
  <2>2. \A j \in Ids : j = i => (Deletion(j)' <=> Closing(r)) BY <1>2, <1>7 DEF Deletion, Closing
  <2> QED BY <2>1, <2>2, <1>7 DEF Pursued, Deletion, Unfinished
<1>16. ClosingOK'
  <2>1. CASE Closing(r)
    <3>1. \A j \in Ids : ~Pursued(j) BY <2>1, <1>0, <1>2 DEF ClosingOK
    <3>2. ~Held(i)
      <4>1. \A m \in DOMAIN queue : queue[m] # i BY <1>0, <1>5 DEF QueueOK
      <4> QED BY <4>1, <1>0, <1>5 DEF Held, WorkerOK
    <3>3. \A j \in Ids : Pursued(j)' => j = i /\ ~Held(j)' BY <3>1, <3>2, <1>5, <1>15
    <3>4. \A q \in Requesters : Closing(q)' => q = r BY <2>1, <1>0, <1>14 DEF ClosingOK
    <3>5. tenant'.status = "deletion_pending" /\ requeued' BY <2>1, <1>0, <1>1 DEF ClosingOK
    <3> QED BY <3>3, <3>4, <3>5, <1>9 DEF ClosingOK
  <2>2. CASE ~Closing(r)
    <3>1. \A j \in Ids : Pursued(j)' => Pursued(j) BY <2>2, <1>15 DEF Pursued
    <3>2. \A q \in Requesters : Closing(q)' => requester'[q] = requester[q]
      BY <2>2, <1>9, <1>14
    <3> QED BY <3>1, <3>2, <1>0, <1>1, <1>14, <1>15 DEF ClosingOK
  <2> QED BY <2>1, <2>2
<1>17. RecordsOK' BY <1>0, <1>1, <1>11, RecordsFrame
<1>19. WorkerOK' BY <1>0, <1>1, <1>11, WorkerFrame
<1>20. WindowOK' BY <1>0, <1>1, <1>11, WindowFrame
<1>21. Safe' => Safe BY <1>1, <1>14 DEF Safe
<1>22. ArtifactsOK' BY <1>0, <1>1, <1>21, ArtifactsFrame
<1>23. DeletedOK' BY <1>0, <1>1, <1>11, DeletedFrame
<1> QED BY <1>10, <1>12, <1>13, <1>16, <1>17, <1>19, <1>20, <1>22, <1>23 DEF IInv

\* An operation that finds the queue full fails.  A deletion opens the tenant again:
\* nobody has got hold of it, and no other is to be carried out.
LEMMA PutFullKeeps ==
  ASSUME IInv, NEW r \in Requesters, PutFull(r) PROVE IInv'
<1>0. /\ Typed /\ OpsOK /\ QueueOK /\ ClosingOK /\ WindowOK /\ WorkerOK
      /\ RecordsOK /\ ArtifactsOK /\ DeletedOK
  BY DEF IInv
<1>1. UNCHANGED <<files, queue, doomed, requeued, worker, cache, client,
                  maintenance, faults, crashes>>
  BY DEF PutFull
<1>2. PICK i : i = requester[r].op OBVIOUS
<1>3. /\ requester' = [requester EXCEPT ![r] = NoRequest]
      /\ requester[r].step = "recorded"
      /\ ops' = IF ops[i].status = "pruned" THEN ops ELSE [ops EXCEPT ![i].status = "failed"]
      /\ \/ ~Closing(r) /\ UNCHANGED <<tenant, accepting>>
         \/ Closing(r) /\ tenant' = [tenant EXCEPT !.status = "active"] /\ accepting' = TRUE
  BY <1>2 DEF PutFull, Closing
<1>4. i \in Ids /\ Used(i) /\ ops[i].kind = requester[r].kind BY <1>0, <1>2, <1>3 DEF QueueOK
<1>5. /\ tenant' \in TenantType /\ accepting' \in BOOLEAN
      /\ tenant'.drills = tenant.drills /\ tenant'.records = tenant.records
      /\ ~Closing(r) => tenant'.status = tenant.status /\ accepting' = accepting
      /\ Closing(r) => tenant'.status = "active"
  BY <1>0, <1>3, TenantFields DEF Typed
<1>6. /\ ops' \in [Ids -> OpType]
      /\ \A j \in Ids : /\ ops'[j].kind = ops[j].kind /\ ops'[j].arg = ops[j].arg
                        /\ ops'[j].status = IF j = i /\ ops[i].status # "pruned"
                                            THEN "failed" ELSE ops[j].status
  <2>1. ops \in [Ids -> OpType] BY <1>0 DEF Typed
  <2>2. CASE ops[i].status = "pruned" BY <2>1, <2>2, <1>3
  <2>3. CASE ops[i].status # "pruned"
    <3>1. SetStatus(i, "failed") BY <2>3, <1>3 DEF SetStatus
    <3> QED BY <2>1, <2>3, <3>1, <1>4, StatusFields
  <2> QED BY <2>2, <2>3
<1>7. Settle BY <1>4, <1>6 DEF Settle, Used
<1>8. OpsOK' /\ Stay BY <1>0, <1>7, OpsFrame
<1>9. requester' \in [Requesters -> RequestType]
  <2>1. NoRequest \in RequestType
    BY LimitsArePositive DEF NoRequest, RequestType, NoFile, File, Contained
  <2> QED BY <2>1, <1>0, <1>3 DEF Typed
<1>10. Typed' BY <1>0, <1>1, <1>5, <1>6, <1>9 DEF Typed
<1>11. /\ \A q \in Requesters : q = r \/ requester'[q] = requester[q]
       /\ requester'[r].step = "idle"
  BY <1>0, <1>3 DEF Typed, NoRequest
<1>12. QueueOK'
  <2>1. \A n \in DOMAIN queue : queue[n] \in Ids BY <1>0 DEF Typed
  <2> QED BY <2>1, <1>0, <1>1, <1>8, <1>11 DEF QueueOK, Stay
<1>13. \A q \in Requesters : Closing(q)' => Closing(q) /\ q # r /\ requester'[q] = requester[q]
  BY <1>11 DEF Closing
<1>14. \A j \in Ids : /\ Held(j)' <=> Held(j)
                      /\ Pursued(j)' => Pursued(j) /\ (j # i \/ Held(j) \/ ~Unfinished(j))
  <2>1. \A j \in Ids : Held(j)' <=> Held(j) BY <1>1 DEF Held
  <2>2. \A j \in Ids : Unfinished(j)' => Unfinished(j) BY <1>6 DEF Unfinished
  <2>3. ~Unfinished(i)' BY <1>4, <1>6 DEF Unfinished
  <2> QED BY <2>1, <2>2, <2>3, <1>6 DEF Pursued, Deletion
<1>15. ClosingOK'
  <2>1. \A q \in Requesters : requester'[q].step = "challenged" => requester[q].step = "challenged"
    BY <1>11
  <2>2. CASE ~Closing(r) BY <2>1, <2>2, <1>0, <1>1, <1>5, <1>13, <1>14 DEF ClosingOK
  <2>3. CASE Closing(r)
    <3>1. \A q \in Requesters : ~Closing(q)' BY <2>3, <1>0, <1>13 DEF ClosingOK
    <3>2. \A j \in Ids : Pursued(j) => j = i /\ ~Held(j) BY <2>3, <1>0, <1>2 DEF ClosingOK
    <3>3. \A j \in Ids : ~Pursued(j)' BY <3>2, <1>14 DEF Pursued
    <3> QED BY <2>1, <3>1, <3>3, <1>0, <1>1 DEF ClosingOK
  <2> QED BY <2>2, <2>3
<1>16. RecordsOK' BY <1>0, <1>5, <1>8, RecordsFrame
<1>17. WorkerOK' BY <1>0, <1>1, <1>5, <1>8, WorkerFrame
<1>18. WindowOK' BY <1>0, <1>1, <1>8, WindowFrame
<1>19. Safe' => Safe BY <1>5, <1>13 DEF Safe
<1>20. ArtifactsOK' BY <1>0, <1>1, <1>5, <1>19, ArtifactsFrame
<1>21. tenant'.status = "deleted" => tenant.status = "deleted" /\ accepting' = accepting
  BY <1>5
<1>22. DeletedOK' BY <1>0, <1>1, <1>8, <1>21, DeletedFrame
<1> QED BY <1>8, <1>10, <1>12, <1>15, <1>16, <1>17, <1>18, <1>20, <1>22 DEF IInv

----------------------------------------------------------------------------
(* Lists of records, and retention *)

\* What is left of a list when its first k records go.
LEMMA SuffixIs ==
  ASSUME NEW S, NEW s \in Seq(S), NEW k \in 0 .. Len(s),
         NEW t, t = SubSeq(s, k + 1, Len(s))
  PROVE  /\ t \in Seq(S) /\ Len(t) = Len(s) - k
         /\ \A m \in DOMAIN t : m + k \in DOMAIN s /\ t[m] = s[m + k]
OBVIOUS

\* The first k records of a list.
LEMMA PrefixIs ==
  ASSUME NEW S, NEW s \in Seq(S), NEW k \in 0 .. Len(s),
         NEW t, t = SubSeq(s, 1, k)
  PROVE  /\ t \in Seq(S)
         /\ \A m \in DOMAIN t : m \in DOMAIN s /\ m <= k /\ t[m] = s[m]
OBVIOUS

\* A sequence has finitely many elements.
LEMMA ElementsFinite ==
  ASSUME NEW S, NEW s \in Seq(S)
  PROVE  IsFiniteSet(ToSet(s)) /\ ToSet(s) \subseteq S
<1>1. ToSet(s) \subseteq S BY DEF ToSet
<1>2. s \in Seq(ToSet(s)) /\ \A f \in ToSet(s) : \E n \in 1 .. Len(s) : s[n] = f BY DEF ToSet
<1>3. IsFiniteSet(ToSet(s)) BY <1>2 DEF IsFiniteSet
<1> QED BY <1>1, <1>3

\* An operation is never recorded twice, position by position.
LEMMA OneRecordEachIs ==
  /\ OneRecordEach <=>
       /\ \A m, n \in DOMAIN tenant.drills : tenant.drills[m] = tenant.drills[n] => m = n
       /\ \A l \in Lists : \A m, n \in DOMAIN tenant.records[l] :
             tenant.records[l][m].op = tenant.records[l][n].op => m = n
  /\ OneRecordEach' <=>
       /\ \A m, n \in DOMAIN tenant'.drills : tenant'.drills[m] = tenant'.drills[n] => m = n
       /\ \A l \in Lists : \A m, n \in DOMAIN tenant'.records[l] :
             tenant'.records[l][m].op = tenant'.records[l][n].op => m = n
BY DEF OneRecordEach, IsInjective

\* Two records of one operation are the same one.
LEMMA SameRecord ==
  ASSUME RecordsOK, NEW l \in Lists, NEW k \in Lists,
         NEW m \in DOMAIN tenant.records[l], NEW n \in DOMAIN tenant.records[k],
         tenant.records[l][m].op = tenant.records[k][n].op
  PROVE  l = k /\ m = n
<1>1. l = k BY DEF RecordsOK, Rec
<1> QED BY <1>1, OneRecordEachIs DEF RecordsOK

\* Records that retention drops are other ones than those that stay, and than the
\* one that the worker is about to write.
LEMMA RetainKeeps ==
  ASSUME IInv, Retain PROVE IInv'
<1>0. /\ Typed /\ OpsOK /\ QueueOK /\ ClosingOK /\ WindowOK /\ WorkerOK
      /\ RecordsOK /\ ArtifactsOK /\ DeletedOK
  BY DEF IInv
<1>1. UNCHANGED <<files, queue, requester, requeued, worker, cache, client,
                  accepting, maintenance, faults, crashes>>
  BY DEF Retain, plane
<1>2. PICK n \in [Lists -> 0 .. RetentionCount] :
         /\ \A l \in Lists : n[l] <= Len(tenant.records[l])
         /\ doomed' = UNION {ToSet(SubSeq(tenant.records[l], 1, n[l])) : l \in Lists}
         /\ tenant' = [tenant EXCEPT !.records =
                [l \in Lists |-> SubSeq(tenant.records[l], n[l] + 1, Len(tenant.records[l]))]]
  BY DEF Retain
<1>3. \A l \in Lists : tenant.records[l] \in Seq(File) /\ n[l] \in 0 .. Len(tenant.records[l])
  BY <1>0, <1>2, LimitsArePositive DEF Typed, TenantType
<1>4. /\ tenant'.status = tenant.status /\ tenant'.restored = tenant.restored
      /\ tenant'.drills = tenant.drills
      /\ tenant' = [status |-> tenant.status, restored |-> tenant.restored,
                    drills |-> tenant.drills, records |-> tenant'.records]
      /\ tenant'.records =
             [l \in Lists |-> SubSeq(tenant.records[l], n[l] + 1, Len(tenant.records[l]))]
  BY <1>0, <1>2 DEF Typed, TenantType
<1>5. ASSUME NEW l \in Lists
      PROVE  /\ tenant'.records[l] \in Seq(File)
             /\ Len(tenant'.records[l]) <= Len(tenant.records[l])
             /\ \A m \in DOMAIN tenant'.records[l] :
                  /\ m + n[l] \in DOMAIN tenant.records[l]
                  /\ tenant'.records[l][m] = tenant.records[l][m + n[l]]
  <2>1. tenant'.records[l] = SubSeq(tenant.records[l], n[l] + 1, Len(tenant.records[l])) BY <1>4
  <2>2. /\ tenant'.records[l] \in Seq(File)
        /\ Len(tenant'.records[l]) = Len(tenant.records[l]) - n[l]
        /\ \A m \in DOMAIN tenant'.records[l] :
             /\ m + n[l] \in DOMAIN tenant.records[l]
             /\ tenant'.records[l][m] = tenant.records[l][m + n[l]]
    BY <1>3, <2>1, SuffixIs
  <2> QED BY <2>2, <1>3
<1>6. ASSUME NEW l \in Lists
      PROVE  /\ ToSet(SubSeq(tenant.records[l], 1, n[l])) \subseteq File
             /\ IsFiniteSet(ToSet(SubSeq(tenant.records[l], 1, n[l])))
             /\ \A f \in ToSet(SubSeq(tenant.records[l], 1, n[l])) :
                   \E m \in DOMAIN tenant.records[l] : m <= n[l] /\ f = tenant.records[l][m]
  <2>1. PICK s \in Seq(File) : s = tenant.records[l] BY <1>3
  <2>2. PICK k \in 0 .. Len(s) : k = n[l] BY <1>3, <2>1
  <2>3. PICK t : t = SubSeq(s, 1, k) OBVIOUS
  <2>4. t \in Seq(File) /\ \A m \in DOMAIN t : m \in DOMAIN s /\ m <= k /\ t[m] = s[m]
    BY <2>3, PrefixIs
  <2>5. \A f \in ToSet(t) : \E m \in DOMAIN s : m <= k /\ f = s[m] BY <2>4 DEF ToSet
  <2>6. IsFiniteSet(ToSet(t)) /\ ToSet(t) \subseteq File BY <2>4, ElementsFinite
  <2> QED BY <2>1, <2>2, <2>3, <2>5, <2>6
<1>7. \A f \in doomed' : \E l \in Lists : \E m \in DOMAIN tenant.records[l] :
          m <= n[l] /\ f = tenant.records[l][m]
  <2>1. ASSUME NEW f \in doomed'
        PROVE  \E l \in Lists : f \in ToSet(SubSeq(tenant.records[l], 1, n[l]))
    BY <1>2
  <2> QED BY <2>1, <1>6
<1>8. doomed' \subseteq File /\ IsFiniteSet(doomed')
  <2>1. doomed' = ToSet(SubSeq(tenant.records["backups"], 1, n["backups"]))
                    \cup ToSet(SubSeq(tenant.records["exports"], 1, n["exports"]))
    BY <1>2 DEF Lists
  <2>2. "backups" \in Lists /\ "exports" \in Lists BY DEF Lists
  <2> QED BY <2>1, <2>2, <1>6, FS_Union
<1>9. /\ ops' \in [Ids -> OpType]
      /\ \A i \in Ids :
           /\ ops'[i].kind = ops[i].kind /\ ops'[i].arg = ops[i].arg
           /\ ops'[i].status = ops[i].status \/ (Complete(i) /\ ops'[i].status = "pruned")
  <2>1. ops' = [i \in Ids |-> IF i \in Surplus THEN [ops[i] EXCEPT !.status = "pruned"] ELSE ops[i]]
    BY DEF Retain
  <2>2. ASSUME NEW a \in OpType
        PROVE  /\ [a EXCEPT !.status = "pruned"] \in OpType
               /\ [a EXCEPT !.status = "pruned"].kind = a.kind
               /\ [a EXCEPT !.status = "pruned"].arg = a.arg
               /\ [a EXCEPT !.status = "pruned"].status = "pruned"
    BY DEF OpType
  <2>3. ops \in [Ids -> OpType] BY <1>0 DEF Typed
  <2>4. \A i \in Surplus : Complete(i) BY DEF Surplus
  <2> QED BY <2>1, <2>2, <2>3, <2>4
<1>10. tenant' \in TenantType
  <2>1. tenant'.records \in [Lists -> Seq(File)] BY <1>4, <1>5
  <2>2. PICK rs \in [Lists -> Seq(File)] : rs = tenant'.records BY <2>1
  <2>3. tenant' = [status |-> tenant.status, restored |-> tenant.restored,
                   drills |-> tenant.drills, records |-> rs]
    BY <1>4, <2>2
  <2> QED BY <1>0, <2>3 DEF Typed, TenantType
<1>11. Typed' BY <1>0, <1>1, <1>8, <1>9, <1>10 DEF Typed
<1>12. /\ Stay /\ \A i \in Ids : Used(i)' <=> Used(i)
       /\ \A i \in Ids : Deletion(i)' <=> Deletion(i)
  BY <1>9 DEF Stay, Used, Complete, Deletion
<1>13. OpsOK'
  <2>1. Live' \subseteq Live BY <1>9 DEF Live, Complete
  <2>2. Cardinality(Live') <= Cardinality(Live) BY <2>1, LiveFinite, FS_Subset
  <2>3. Cardinality(Live) \in Nat /\ Cardinality(Live') \in Nat BY LiveFinite, FS_CardinalityType
  <2>4. Cardinality(Live') <= MaxOperations BY <1>0, <2>2, <2>3, LimitsArePositive DEF OpsOK
  <2>5. (\E k \in 0 .. MaxRequests : \A i \in Ids : Used(i) <=> i <= k)' BY <1>0, <1>12 DEF OpsOK
  <2>6. (\A i \in Ids : IF Used(i) THEN ops[i].kind \in Known ELSE ops[i].kind = "none")'
    BY <1>0, <1>9, <1>12 DEF OpsOK
  <2> QED BY <2>4, <2>5, <2>6 DEF OpsOK
<1>14. QueueOK' BY <1>0, <1>1, <1>12, QueueFrame
<1>15. ClosingOK' /\ (Safe' => Safe)
  <2>1. \A i \in Ids : Held(i)' => Held(i) BY <1>1, HeldFrame
  <2>2. \A i \in Ids : Unfinished(i)' => Unfinished(i) BY <1>9 DEF Unfinished
  <2> QED BY <2>1, <2>2, <1>0, <1>1, <1>4, <1>12, ClosingFrame, SafeFrame
<1>16. RecordsOK'
  <2>1. OneRecordEach'
    <3>1. ASSUME NEW l \in Lists, NEW p \in DOMAIN tenant'.records[l], NEW q \in DOMAIN tenant'.records[l],
                 tenant'.records[l][p].op = tenant'.records[l][q].op
          PROVE  p = q
      <4>1. p \in Int /\ q \in Int /\ n[l] \in Int BY <1>5, <1>3
      <4>2. p + n[l] = q + n[l] BY <1>5, <1>0, <3>1, SameRecord
      <4> QED BY <4>1, <4>2
    <3>2. \A p, q \in DOMAIN tenant'.drills : tenant'.drills[p] = tenant'.drills[q] => p = q
      BY <1>0, <1>4, OneRecordEachIs DEF RecordsOK
    <3> QED BY <3>1, <3>2, OneRecordEachIs
  <2>2. \A l \in Lists : Len(tenant'.records[l]) <= RetentionCount
    <3>1. ASSUME NEW l \in Lists PROVE Len(tenant'.records[l]) <= RetentionCount
      <4>1. Len(tenant.records[l]) <= RetentionCount /\ Len(tenant'.records[l]) <= Len(tenant.records[l])
        BY <1>0, <1>5 DEF RecordsOK
      <4>2. Len(tenant.records[l]) \in Nat /\ Len(tenant'.records[l]) \in Nat BY <1>3, <1>5
      <4> QED BY <4>1, <4>2, LimitsArePositive
    <3> QED BY <3>1
  <2>3. ASSUME NEW l \in Lists, NEW m \in DOMAIN tenant'.records[l]
        PROVE  /\ Rec(l, m)'.op \in Ids /\ ops'[Rec(l, m)'.op].status # "none"
               /\ ops'[Rec(l, m)'.op].kind \in Archiving /\ ListOf(ops'[Rec(l, m)'.op].kind) = l
    <3>1. Rec(l, m)' = Rec(l, m + n[l]) /\ m + n[l] \in DOMAIN tenant.records[l] BY <1>5 DEF Rec
    <3>2. PICK f : f = Rec(l, m + n[l]) OBVIOUS
    <3>3. f.op \in Ids /\ Used(f.op) /\ ops[f.op].kind \in Archiving /\ ListOf(ops[f.op].kind) = l
      BY <1>0, <3>1, <3>2 DEF RecordsOK
    <3> QED BY <3>1, <3>2, <3>3, <1>9, <1>12 DEF Used
  <2> QED BY <2>1, <2>2, <2>3 DEF RecordsOK, Used
<1>17. WorkerOK' BY <1>0, <1>1, <1>4, <1>12, WorkerFrame
<1>18. WindowOK' BY <1>0, <1>1, <1>12, WindowFrame
<1>19. Recorded' \subseteq Recorded /\ doomed' \subseteq Recorded BY <1>5, <1>7, RecordedIs
<1>20. doomed' \cap Recorded' = {}
  <2>1. SUFFICES ASSUME NEW f, f \in doomed', f \in Recorded' PROVE FALSE OBVIOUS
  <2>2. PICK l \in Lists : \E m \in DOMAIN tenant.records[l] : m <= n[l] /\ f = tenant.records[l][m]
    BY <2>1, <1>7
  <2>3. PICK m \in DOMAIN tenant.records[l] : m <= n[l] /\ f = tenant.records[l][m] BY <2>2
  <2>4. PICK k \in Lists : \E p \in DOMAIN tenant'.records[k] : f = tenant'.records[k][p]
    BY <2>1, RecordedIs
  <2>5. PICK p \in DOMAIN tenant'.records[k] : f = tenant'.records[k][p] BY <2>4
  <2>6. p + n[k] \in DOMAIN tenant.records[k] /\ f = tenant.records[k][p + n[k]] BY <2>5, <1>5
  <2>7. l = k /\ m = p + n[k] BY <2>3, <2>6, <1>0, SameRecord
  <2>8. p \in Nat \ {0} /\ n[k] \in Nat BY <1>5, <1>3
  <2> QED BY <2>3, <2>7, <2>8
<1>21. ArtifactsOK'
  BY <1>0, <1>1, <1>15, <1>19, <1>20 DEF ArtifactsOK
<1>22. DeletedOK' BY <1>0, <1>1, <1>4, <1>12, DeletedFrame
<1> QED BY <1>11, <1>13, <1>14, <1>15, <1>16, <1>17, <1>18, <1>21, <1>22 DEF IInv

\* A failure is counted.
LEMMA FaultType == ASSUME Typed, Fault PROVE faults' \in 0 .. MaxFaults
BY LimitsArePositive DEF Typed, Fault

\* What retention removes has no record, nor will it get one.
LEMMA RemoveDoomedKeeps ==
  ASSUME IInv, RemoveDoomed PROVE IInv'
<1>0. Typed /\ WindowOK /\ WorkerOK /\ ArtifactsOK /\ DeletedOK BY DEF IInv
<1>1. UNCHANGED <<tenant, ops, queue, requester, requeued, worker, cache, client,
                  accepting, maintenance, crashes>>
  BY DEF RemoveDoomed, plane
<1>2. PICK R \in SUBSET doomed : files' = files \ R BY DEF RemoveDoomed
<1>3. Typed'
  <2>1. IsFiniteSet(files') /\ IsFiniteSet(doomed')
    BY <1>0, <1>2, FS_Subset, FS_EmptySet DEF Typed, RemoveDoomed
  <2>2. faults' \in 0 .. MaxFaults BY <1>0, FaultType DEF RemoveDoomed, Typed
  <2>3. doomed' = {} BY DEF RemoveDoomed
  <2> QED BY <2>1, <2>2, <2>3, <1>0, <1>1, <1>2 DEF Typed
<1>4. Stay /\ OpsOK' /\ QueueOK' /\ ClosingOK' /\ WorkerOK' /\ RecordsOK' BY <1>1, DurableFrame
<1>5. WindowOK' BY <1>0, <1>1, <1>4, WindowFrame
<1>6. Recorded' = Recorded BY <1>1 DEF Recorded
<1>7. ArtifactsOK'
  <2>1. doomed' = {} BY DEF RemoveDoomed
  <2> QED BY <2>1, <1>0, <1>1, <1>2, <1>6 DEF ArtifactsOK, Safe, Closing
<1>8. DeletedOK' BY <1>0, <1>1, <1>2 DEF DeletedOK, Op, Drained
<1> QED BY <1>3, <1>4, <1>5, <1>7, <1>8 DEF IInv

----------------------------------------------------------------------------
(* The worker *)

\* A handler that comes to its end, well or not, without touching the operations,
\* the records or the cache, and without the artifact of a record.
LEMMA HandlerEnds ==
  ASSUME IInv, NEW s \in {"succeeding", "failing", "restored"}, Goto(s),
         worker.step \notin {"waiting", "failing", "dead"},
         UNCHANGED <<ops, queue, requester, doomed, requeued, cache, client, accepting, crashes>>,
         tenant' \in TenantType, tenant'.status = tenant.status,
         tenant'.drills = tenant.drills, tenant'.records = tenant.records,
         maintenance' \in BOOLEAN, faults' \in 0 .. MaxFaults,
         files' \subseteq files,
         Safe => Recorded \subseteq files'
  PROVE  IInv'
<1>0. /\ Typed /\ OpsOK /\ QueueOK /\ ClosingOK /\ WindowOK /\ WorkerOK
      /\ RecordsOK /\ ArtifactsOK /\ DeletedOK
  BY DEF IInv
<1>1. worker' \in WorkerType /\ worker'.step = s /\ worker'.op = worker.op
  BY <1>0, GotoFields DEF Typed, Steps
<1>2. IsFiniteSet(files') /\ files' \in SUBSET File BY <1>0, FS_Subset DEF Typed
<1>3. Typed' BY <1>0, <1>1, <1>2 DEF Typed
<1>4. Settle /\ \A i \in Ids : Deletion(i)' <=> Deletion(i) BY DEF Settle, Deletion
<1>5. OpsOK' /\ Stay BY <1>0, <1>4, OpsFrame
<1>6. QueueOK' BY <1>0, <1>5, QueueFrame
<1>7. ClosingOK' /\ (Safe' => Safe)
  <2>1. \A i \in Ids : Held(i)' => Held(i) BY <1>1, HeldFrame
  <2>2. \A i \in Ids : Unfinished(i)' => Unfinished(i) BY DEF Unfinished
  <2> QED BY <2>1, <2>2, <1>0, <1>4, ClosingFrame, SafeFrame
<1>8. RecordsOK' BY <1>0, <1>5, RecordsFrame
<1>9. WorkerOK' BY <1>0, <1>1 DEF WorkerOK, Op, Used
<1>10. WindowOK' BY <1>1 DEF WindowOK, RestoreIsAtomic, At
<1>11. Recorded' = Recorded BY DEF Recorded
<1>12. ArtifactsOK' BY <1>0, <1>1, <1>7, <1>11 DEF ArtifactsOK
<1>13. DeletedOK' BY <1>0, <1>1 DEF DeletedOK, Drained
<1> QED BY <1>3, <1>5, <1>6, <1>7, <1>8, <1>9, <1>10, <1>12, <1>13 DEF IInv

\* A handler that raises removes its own artifact or those it has pushed out, none of
\* which has a record.
LEMMA BreakKeeps ==
  ASSUME IInv, Break PROVE IInv'
<1>0. Typed /\ ArtifactsOK BY DEF IInv
<1>1. UNCHANGED <<tenant, ops, queue, requester, doomed, requeued, cache, client, accepting,
                  maintenance, crashes>>
  BY DEF Break, plane, threads
<1>2. /\ worker.step \in {"exporting", "recording", "trimming", "validating", "restored"}
      /\ Goto("failing") /\ files' \subseteq files
  BY DEF Break
<1>3. faults' \in 0 .. MaxFaults BY <1>0, FaultType DEF Break
<1>4. Recorded \subseteq files => Recorded \subseteq files'
  <2>1. worker.step = "recording" => worker.value \notin Recorded BY <1>0 DEF ArtifactsOK
  <2>2. worker.step = "trimming" => worker.removed \cap Recorded = {} BY <1>0 DEF ArtifactsOK
  <2>3. Removing \cap Recorded = {} BY <2>1, <2>2 DEF Removing, At
  <2> QED BY <2>3 DEF Break
<1>5. Safe => Recorded \subseteq files'
  BY <1>0, <1>4 DEF ArtifactsOK
<1>6. tenant' \in TenantType /\ maintenance' \in BOOLEAN BY <1>0, <1>1 DEF Typed
<1> QED BY <1>1, <1>2, <1>3, <1>5, <1>6, HandlerEnds

\* The artifacts of records that were pushed out have no record left.
LEMMA TrimKeeps ==
  ASSUME IInv, Trim PROVE IInv'
<1>0. Typed /\ ArtifactsOK BY DEF IInv
<1>1. UNCHANGED <<tenant, ops, queue, requester, doomed, requeued, cache, client, accepting,
                  maintenance, faults, crashes>>
  BY DEF Trim, plane, threads
<1>2. worker.step = "trimming" /\ Goto("succeeding") /\ files' = files \ worker.removed
  BY DEF Trim, At
<1>3. Safe => Recorded \subseteq files'
  BY <1>0, <1>2 DEF ArtifactsOK
<1>4. tenant' \in TenantType /\ maintenance' \in BOOLEAN /\ faults' \in 0 .. MaxFaults
  BY <1>0, <1>1 DEF Typed
<1> QED BY <1>1, <1>2, <1>3, <1>4, HandlerEnds

\* A validation changes nothing but its operation.
LEMMA ValidationKeeps ==
  ASSUME IInv, RejectBackup \/ ValidateRestore PROVE IInv'
<1>0. Typed /\ ArtifactsOK BY DEF IInv
<1>1. UNCHANGED <<tenant, ops, files, queue, requester, doomed, requeued, cache, client,
                  accepting, maintenance, faults, crashes>>
  BY DEF RejectBackup, ValidateRestore, plane, threads, durable
<1>2. worker.step = "validating" /\ (Goto("succeeding") \/ Goto("failing"))
  BY DEF RejectBackup, ValidateRestore, At
<1>3. Safe => Recorded \subseteq files'
  BY <1>0, <1>1 DEF ArtifactsOK
<1>4. tenant' \in TenantType /\ maintenance' \in BOOLEAN /\ faults' \in 0 .. MaxFaults
  BY <1>0, <1>1 DEF Typed
<1> QED BY <1>1, <1>2, <1>3, <1>4, HandlerEnds

\* The restore is written down.
LEMMA RecordRestoreKeeps ==
  ASSUME IInv, RecordRestore PROVE IInv'
<1>0. Typed /\ ArtifactsOK BY DEF IInv
<1>1. UNCHANGED <<ops, files, queue, requester, doomed, requeued, cache, client,
                  accepting, maintenance, faults, crashes>>
  BY DEF RecordRestore, plane, threads
<1>2. worker.step = "restored" /\ Goto("succeeding")
  BY DEF RecordRestore, At
<1>3. Safe => Recorded \subseteq files'
  BY <1>0, <1>1 DEF ArtifactsOK
<1>4. maintenance' \in BOOLEAN /\ faults' \in 0 .. MaxFaults BY <1>0, <1>1 DEF Typed
<1>5. /\ tenant' \in TenantType /\ tenant'.status = tenant.status
      /\ tenant'.drills = tenant.drills /\ tenant'.records = tenant.records
  <2>1. tenant \in TenantType /\ worker.op \in 0 .. MaxRequests BY <1>0 DEF Typed, WorkerType
  <2>2. tenant' = [tenant EXCEPT !.restored = worker.op] BY DEF RecordRestore
  <2>3. PICK o \in 0 .. MaxRequests : o = worker.op BY <2>1
  <2> QED BY <2>1, <2>2, <2>3 DEF TenantType
<1> QED BY <1>1, <1>2, <1>3, <1>4, <1>5, HandlerEnds

\* The window ends with the restore behind it.
LEMMA ResumeKeeps ==
  ASSUME IInv, Resume PROVE IInv'
<1>0. Typed /\ ArtifactsOK BY DEF IInv
<1>1. UNCHANGED <<tenant, ops, files, queue, requester, doomed, requeued, cache, client,
                  accepting, faults, crashes>>
  BY DEF Resume, durable, threads
<1>2. /\ worker.step \in {"resuming", "giving up", "losing"} /\ maintenance' \in BOOLEAN
      /\ Goto("restored") \/ Goto("failing")
  BY DEF Resume, At
<1>3. Safe => Recorded \subseteq files'
  BY <1>0, <1>1 DEF ArtifactsOK
<1>4. tenant' \in TenantType /\ faults' \in 0 .. MaxFaults BY <1>0, <1>1 DEF Typed
<1> QED BY <1>1, <1>2, <1>3, <1>4, HandlerEnds

\* A deletion that fails half-way stays one: the tenant is not active again.
LEMMA BuryFailsKeeps ==
  ASSUME IInv, BuryFails PROVE IInv'
<1>0. Typed /\ ArtifactsOK BY DEF IInv
<1>1. UNCHANGED <<tenant, ops, files, queue, requester, doomed, requeued, cache, client,
                  accepting, crashes>>
  BY DEF BuryFails, durable, threads
<1>2. worker.step = "erasing" /\ maintenance' \in BOOLEAN /\ Goto("failing")
  BY DEF BuryFails, At
<1>3. Safe => Recorded \subseteq files'
  BY <1>0, <1>1 DEF ArtifactsOK
<1>4. tenant' \in TenantType /\ faults' \in 0 .. MaxFaults
  BY <1>0, <1>1, FaultType DEF Typed, BuryFails
<1> QED BY <1>1, <1>2, <1>3, <1>4, HandlerEnds

\* The worker's fields after a step that changes two of them.
LEMMA FlushFields ==
  ASSUME worker \in WorkerType, NEW s, NEW p, worker' = [worker EXCEPT !.previous = p, !.step = s]
  PROVE  worker' = [step |-> s, op |-> worker.op, previous |-> p,
                    removed |-> worker.removed, value |-> worker.value]
<1>1. worker = [step |-> worker.step, op |-> worker.op, previous |-> worker.previous,
                removed |-> worker.removed, value |-> worker.value]
  BY DEF WorkerType
<1> QED BY <1>1

\* A restore begins its window; of a deleted tenant it can only restore nothing.
LEMMA BeginRestoreKeeps ==
  ASSUME IInv, BeginRestore PROVE IInv'
<1>0. Typed /\ WorkerOK /\ WindowOK /\ ArtifactsOK /\ DeletedOK BY DEF IInv
<1>1. UNCHANGED <<tenant, ops, files, queue, requester, doomed, requeued, cache, client,
                  accepting, faults, crashes>>
  BY DEF BeginRestore, durable, threads
<1>2. worker.step = "validating" /\ Op.kind = "restore" /\ Validated BY DEF BeginRestore, At
<1>3. CASE Goto("succeeding") /\ UNCHANGED maintenance
  <2>1. Safe => Recorded \subseteq files'
    BY <1>0, <1>1 DEF ArtifactsOK
  <2>2. tenant' \in TenantType /\ maintenance' \in BOOLEAN /\ faults' \in 0 .. MaxFaults
    BY <1>0, <1>1, <1>3 DEF Typed
  <2> QED BY <1>1, <1>2, <1>3, <2>1, <2>2, HandlerEnds
<1>4. CASE Goto("draining") /\ maintenance' = TRUE
  <2>1. worker' \in WorkerType /\ worker'.step = "draining" /\ worker'.op = worker.op
    BY <1>0, <1>4, GotoFields DEF Typed, Steps
  <2>2. Op' = Op BY <1>1, <2>1 DEF Op
  <2>3. Typed' BY <1>0, <1>1, <1>4, <2>1 DEF Typed
  <2>4. OpsOK' /\ QueueOK' /\ ClosingOK' /\ RecordsOK' BY <1>1, <1>2, <2>1, DurableFrame
  <2>5. WorkerOK' BY <1>0, <1>1, <1>2, <2>1, <2>2 DEF WorkerOK, Used
  <2>6. WindowOK' BY <1>4, <2>1 DEF WindowOK, RestoreIsAtomic, At
  <2>7. ArtifactsOK' BY <1>0, <1>1, <2>1 DEF ArtifactsOK, Recorded, Safe, Closing
  <2>8. tenant.status = "deleted" => Op.arg.value = 0 BY <1>0, <1>2 DEF Validated, Readable, DeletedOK
  <2>9. DeletedOK' BY <1>0, <1>1, <1>2, <2>1, <2>2, <2>8 DEF DeletedOK, Drained
  <2> QED BY <2>3, <2>4, <2>5, <2>6, <2>7, <2>9 DEF IInv
<1> QED BY <1>3, <1>4 DEF BeginRestore

\* Time is up, or nobody is inside and nobody can get in.
LEMMA DrainKeeps ==
  ASSUME IInv, Drain PROVE IInv'
<1>0. Typed /\ WorkerOK /\ WindowOK /\ ArtifactsOK /\ DeletedOK BY DEF IInv
<1>1. UNCHANGED <<tenant, ops, files, queue, requester, doomed, requeued, cache, client,
                  accepting, faults, crashes>>
  BY DEF Drain, durable, threads
<1>2. worker.step = "draining" BY DEF Drain, At
<1>3. CASE Goto("failing") /\ maintenance' = FALSE
  <2>1. Safe => Recorded \subseteq files'
    BY <1>0, <1>1 DEF ArtifactsOK
  <2>2. tenant' \in TenantType /\ maintenance' \in BOOLEAN /\ faults' \in 0 .. MaxFaults
    BY <1>0, <1>1, <1>3 DEF Typed
  <2> QED BY <1>1, <1>2, <1>3, <2>1, <2>2, HandlerEnds
<1>4. CASE Drained /\ Goto("flushing") /\ UNCHANGED maintenance
  <2>1. worker' \in WorkerType /\ worker'.step = "flushing" /\ worker'.op = worker.op
    BY <1>0, <1>4, GotoFields DEF Typed, Steps
  <2>2. Op' = Op BY <1>1, <2>1 DEF Op
  <2>3. Typed' BY <1>0, <1>1, <1>4, <2>1 DEF Typed
  <2>4. OpsOK' /\ QueueOK' /\ ClosingOK' /\ RecordsOK' BY <1>1, <1>2, <2>1, DurableFrame
  <2>5. WorkerOK' BY <1>0, <1>1, <1>2, <2>1, <2>2 DEF WorkerOK, Used
  <2>6. Drained' BY <1>1, <1>4 DEF Drained
  <2>7. WindowOK' BY <1>0, <1>2, <1>4, <2>1, <2>6 DEF WindowOK, RestoreIsAtomic, At
  <2>8. ArtifactsOK' BY <1>0, <1>1, <2>1 DEF ArtifactsOK, Recorded, Safe, Closing
  <2>9. DeletedOK' BY <1>0, <1>1, <1>2, <2>1, <2>2, <2>6 DEF DeletedOK
  <2> QED BY <2>3, <2>4, <2>5, <2>7, <2>8, <2>9 DEF IInv
<1> QED BY <1>3, <1>4 DEF Drain

\* The cache is emptied, or cannot be; what it held is kept for a restore that fails.
LEMMA FlushKeeps ==
  ASSUME IInv, Flush PROVE IInv'
<1>0. Typed /\ WorkerOK /\ WindowOK /\ ArtifactsOK /\ DeletedOK BY DEF IInv
<1>1. UNCHANGED <<tenant, ops, files, queue, requester, doomed, requeued, client,
                  accepting, maintenance, crashes>>
  BY DEF Flush, durable, threads
<1>2. worker.step = "flushing" /\ faults' \in 0 .. MaxFaults
  BY <1>0, FaultType DEF Flush, At, Typed
<1>3. PICK s \in {"restoring", "erasing", "giving up"} :
        /\ worker' = [worker EXCEPT !.previous = cache, !.step = s]
        /\ s = "restoring" => Op.kind = "restore" /\ cache' = 0
        /\ s = "erasing" => Op.kind # "restore" /\ cache' = 0
        /\ s = "giving up" => cache' = cache
  BY DEF Flush
<1>4. worker' = [step |-> s, op |-> worker.op, previous |-> cache,
                 removed |-> worker.removed, value |-> worker.value]
  BY <1>0, <1>3, FlushFields DEF Typed
<1>5. worker'.step = s /\ worker'.op = worker.op /\ worker'.previous = cache BY <1>4
<1>6. worker' \in WorkerType BY <1>0, <1>4 DEF Typed, WorkerType
<1>7. Op' = Op BY <1>1, <1>5 DEF Op
<1>8. Typed' BY <1>0, <1>1, <1>2, <1>3, <1>6 DEF Typed, Contained
<1>9. OpsOK' /\ QueueOK' /\ ClosingOK' /\ RecordsOK' BY <1>1, <1>2, <1>5, DurableFrame
<1>10. WorkerOK' BY <1>0, <1>1, <1>2, <1>3, <1>5, <1>7 DEF WorkerOK, Used
<1>11. Drained' BY <1>0, <1>1, <1>2 DEF Drained, WindowOK, RestoreIsAtomic
<1>12. WindowOK' BY <1>0, <1>1, <1>2, <1>3, <1>5, <1>11 DEF WindowOK, RestoreIsAtomic, At
<1>13. ArtifactsOK' BY <1>0, <1>1, <1>3, <1>5 DEF ArtifactsOK, Recorded, Safe, Closing
<1>14. DeletedOK' BY <1>0, <1>1, <1>2, <1>3, <1>5, <1>7, <1>11 DEF DeletedOK
<1> QED BY <1>8, <1>9, <1>10, <1>12, <1>13, <1>14 DEF IInv

\* The backup's value, the one before, or none.
LEMMA RestoreEntriesKeeps ==
  ASSUME IInv, RestoreEntries \/ Undo PROVE IInv'
<1>0. Typed /\ WorkerOK /\ WindowOK /\ ArtifactsOK /\ DeletedOK BY DEF IInv
<1>1. UNCHANGED <<tenant, ops, files, queue, requester, doomed, requeued, client,
                  accepting, maintenance, crashes>>
  BY DEF RestoreEntries, Undo, durable, threads
<1>2. worker.step \in {"restoring", "undoing"} BY DEF RestoreEntries, Undo, At
<1>3. /\ faults' \in 0 .. MaxFaults
      /\ \/ cache' = Op.arg.value /\ Goto("resuming")
         \/ cache' = worker.previous /\ Goto("giving up")
         \/ cache' = cache /\ (Goto("undoing") \/ Goto("losing"))
  BY <1>0, FaultType DEF RestoreEntries, Undo, Typed
<1>4. /\ worker' \in WorkerType /\ worker'.op = worker.op /\ worker'.previous = worker.previous
      /\ \/ worker'.step = "resuming" /\ cache' = Op.arg.value
         \/ worker'.step = "giving up" /\ cache' = worker'.previous
         \/ worker'.step \in {"undoing", "losing"} /\ cache' = cache
  BY <1>0, <1>3, GotoFields DEF Typed, Steps
<1>5. Op' = Op BY <1>1, <1>4 DEF Op
<1>6. cache' \in Contained
  <2>1. Op \in OpType BY <1>0, <1>2 DEF Op, Typed, WorkerOK
  <2>2. Op.arg.value \in Contained BY <2>1 DEF OpType, File
  <2> QED BY <1>0, <1>3, <2>2 DEF Typed, WorkerType
<1>7. Typed' BY <1>0, <1>1, <1>3, <1>4, <1>6 DEF Typed
<1>8. OpsOK' /\ QueueOK' /\ ClosingOK' /\ RecordsOK' BY <1>1, <1>2, <1>4, DurableFrame
<1>9. WorkerOK' BY <1>0, <1>1, <1>2, <1>4, <1>5 DEF WorkerOK, Used
<1>10. Drained' BY <1>0, <1>1, <1>2 DEF Drained, WindowOK, RestoreIsAtomic
<1>11. WindowOK' BY <1>0, <1>1, <1>2, <1>4, <1>5, <1>10 DEF WindowOK, RestoreIsAtomic, At
<1>12. ArtifactsOK' BY <1>0, <1>1, <1>4 DEF ArtifactsOK, Recorded, Safe, Closing
<1>13. DeletedOK'
  <2> SUFFICES ASSUME tenant'.status = "deleted" PROVE DeletedOK' BY DEF DeletedOK
  <2>1. /\ cache = 0 /\ worker.previous = 0 /\ Op.kind = "restore" /\ Op.arg.value = 0
        /\ ~accepting /\ \A f \in files : f.value = 0
    BY <1>0, <1>1, <1>2 DEF DeletedOK
  <2>2. cache' = 0 /\ worker'.previous = 0 /\ worker'.step # "erasing" BY <1>4, <2>1
  <2> QED BY <1>1, <1>5, <1>10, <2>1, <2>2 DEF DeletedOK
<1> QED BY <1>7, <1>8, <1>9, <1>11, <1>12, <1>13 DEF IInv

\* Artifacts go only while the tenant is being deleted.
LEMMA EraseKeeps ==
  ASSUME IInv, Erase PROVE IInv'
<1>0. Typed /\ ClosingOK /\ WorkerOK /\ WindowOK /\ ArtifactsOK /\ DeletedOK BY DEF IInv
<1>1. UNCHANGED <<tenant, ops, queue, requester, doomed, requeued, worker, cache, client,
                  accepting, maintenance, faults, crashes>>
  BY DEF Erase, plane, threads
<1>2. worker.step = "erasing" /\ files' \subseteq files BY DEF Erase, At
<1>3. IsFiniteSet(files') /\ files' \in SUBSET File BY <1>0, <1>2, FS_Subset DEF Typed
<1>4. Typed' BY <1>0, <1>1, <1>3 DEF Typed
<1>5. Stay /\ OpsOK' /\ QueueOK' /\ ClosingOK' /\ RecordsOK' /\ WorkerOK' BY <1>1, DurableFrame
<1>6. WindowOK' BY <1>0, <1>1, <1>5, WindowFrame
<1>7. tenant.status # "deleted" /\ worker.op \in Ids /\ Deletion(worker.op)
  BY <1>0, <1>2 DEF DeletedOK, WorkerOK, Deletion, Op
<1>8. ArtifactsOK'
  <2>1. Held(worker.op) /\ Pursued(worker.op) BY <1>2, <1>7 DEF Held, Pursued
  <2>2. ~Safe BY <2>1, <1>0, <1>7 DEF Safe, ClosingOK
  <2>3. ~Safe' BY <2>2, <1>1 DEF Safe, Closing
  <2> QED BY <2>3, <1>0, <1>1, <1>2 DEF ArtifactsOK, Recorded
<1>9. DeletedOK' BY <1>1, <1>7 DEF DeletedOK
<1> QED BY <1>4, <1>5, <1>6, <1>8, <1>9 DEF IInv

\* The tombstone is written over an empty cache and an empty namespace.
LEMMA BuryKeeps ==
  ASSUME IInv, Bury PROVE IInv'
<1>0. /\ Typed /\ OpsOK /\ QueueOK /\ ClosingOK /\ WorkerOK /\ WindowOK
      /\ RecordsOK /\ ArtifactsOK /\ DeletedOK
  BY DEF IInv
<1>1. UNCHANGED <<ops, files, queue, requester, doomed, requeued, cache, client, faults, crashes>>
  BY DEF Bury, threads
<1>2. /\ worker.step = "erasing" /\ files = {} /\ accepting' = FALSE /\ maintenance' = FALSE
      /\ Goto("succeeding")
  BY DEF Bury, At
<1>3. tenant' = [status |-> "deleted", restored |-> tenant.restored, drills |-> tenant.drills,
                 records |-> [l \in Lists |-> << >>]]
  <2>1. tenant = [status |-> tenant.status, restored |-> tenant.restored,
                  drills |-> tenant.drills, records |-> tenant.records]
    BY <1>0 DEF Typed, TenantType
  <2>2. tenant' = [tenant EXCEPT !.status = "deleted", !.records = [l \in Lists |-> << >>]]
    BY DEF Bury
  <2> QED BY <2>1, <2>2
<1>4. /\ tenant'.status = "deleted" /\ tenant'.drills = tenant.drills
      /\ tenant'.records = [l \in Lists |-> << >>]
  BY <1>3
<1>5. tenant' \in TenantType
  <2>1. [l \in Lists |-> << >>] \in [Lists -> Seq(File)] OBVIOUS
  <2>2. tenant.restored \in 0 .. MaxRequests /\ tenant.drills \in Seq(Ids)
    BY <1>0 DEF Typed, TenantType
  <2> QED BY <1>3, <2>1, <2>2 DEF TenantType
<1>6. worker' \in WorkerType /\ worker'.step = "succeeding" /\ worker'.op = worker.op
  BY <1>0, <1>2, GotoFields DEF Typed, Steps
<1>7. Typed' BY <1>0, <1>1, <1>2, <1>5, <1>6 DEF Typed
<1>8. Settle /\ \A i \in Ids : Deletion(i)' <=> Deletion(i) BY <1>1 DEF Settle, Deletion
<1>9. OpsOK' /\ Stay BY <1>0, <1>8, OpsFrame
<1>10. QueueOK' BY <1>0, <1>1, <1>9, QueueFrame
<1>11. worker.op \in Ids /\ Deletion(worker.op) BY <1>0, <1>2 DEF WorkerOK, Deletion, Op
<1>12. \A r \in Requesters : ~Closing(r)'
  <2>1. Held(worker.op) /\ Pursued(worker.op) BY <1>2, <1>11 DEF Held, Pursued
  <2>2. \A r \in Requesters : ~Closing(r) BY <2>1, <1>0, <1>11 DEF ClosingOK
  <2> QED BY <2>2, <1>1 DEF Closing
<1>13. ClosingOK' BY <1>0, <1>1, <1>4, <1>12 DEF ClosingOK
<1>14. \A l \in Lists : tenant'.records[l] = << >> BY <1>4
<1>15. OneRecordEach' BY <1>0, <1>4, <1>14, OneRecordEachIs DEF RecordsOK
<1>16. \A l \in Lists : Len(tenant'.records[l]) = 0 /\ DOMAIN tenant'.records[l] = {} BY <1>14
<1>17. RecordsOK' BY <1>15, <1>16, LimitsArePositive DEF RecordsOK
<1>18. WorkerOK' BY <1>0, <1>1, <1>2, <1>6 DEF WorkerOK, Op, Used
<1>19. WindowOK' BY <1>6 DEF WindowOK, RestoreIsAtomic, At
<1>20. Recorded' = {} BY <1>16, RecordedIs
<1>21. ArtifactsOK' BY <1>6, <1>20 DEF ArtifactsOK
<1>22. cache' = 0 /\ Drained' BY <1>0, <1>1, <1>2 DEF WindowOK, RestoreIsAtomic, Drained
<1>23. DeletedOK' BY <1>1, <1>2, <1>6, <1>22 DEF DeletedOK
<1> QED BY <1>7, <1>9, <1>10, <1>13, <1>17, <1>18, <1>19, <1>21, <1>23 DEF IInv

\* The drill was not on the list when its handler started, nor has anybody added it.
LEMMA DrillKeeps ==
  ASSUME IInv, Drill PROVE IInv'
<1>0. /\ Typed /\ OpsOK /\ QueueOK /\ ClosingOK /\ WorkerOK /\ WindowOK
      /\ RecordsOK /\ ArtifactsOK /\ DeletedOK
  BY DEF IInv
<1>1. UNCHANGED <<ops, files, queue, requester, doomed, requeued, cache, client, accepting,
                  maintenance, faults, crashes>>
  BY DEF Drill, plane, threads
<1>2. worker.step = "validating" /\ Goto("succeeding") BY DEF Drill, At
<1>3. worker.op \in Ids /\ \A n \in DOMAIN tenant.drills : tenant.drills[n] # worker.op
  BY <1>0, <1>2 DEF WorkerOK
<1>4. PICK d \in Seq(Ids) : d = tenant.drills BY <1>0 DEF Typed, TenantType
<1>5. PICK e : e = Append(d, worker.op) OBVIOUS
<1>6. e \in Seq(Ids) BY <1>3, <1>5
<1>7. /\ tenant' \in TenantType /\ tenant'.status = tenant.status
      /\ tenant'.records = tenant.records /\ tenant'.drills = e
  <2>1. tenant' = [tenant EXCEPT !.drills = e] BY <1>4, <1>5 DEF Drill
  <2> QED BY <1>0, <1>6, <2>1 DEF Typed, TenantType
<1>8. worker' \in WorkerType /\ worker'.step = "succeeding" /\ worker'.op = worker.op
  BY <1>0, <1>2, GotoFields DEF Typed, Steps
<1>9. Typed' BY <1>0, <1>1, <1>7, <1>8 DEF Typed
<1>10. Settle /\ \A i \in Ids : Deletion(i)' <=> Deletion(i) BY <1>1 DEF Settle, Deletion
<1>11. OpsOK' /\ Stay BY <1>0, <1>10, OpsFrame
<1>12. QueueOK' BY <1>0, <1>1, <1>11, QueueFrame
<1>13. ClosingOK' /\ (Safe' => Safe)
  <2>1. \A i \in Ids : Held(i)' => Held(i) BY <1>1, <1>2, <1>8, HeldFrame
  <2>2. \A i \in Ids : Unfinished(i)' => Unfinished(i) BY <1>1 DEF Unfinished
  <2> QED BY <2>1, <2>2, <1>0, <1>1, <1>7, <1>10, ClosingFrame, SafeFrame
<1>14. \A m, n \in DOMAIN e : e[m] = e[n] => m = n
  <2>1. \A m, n \in DOMAIN d : d[m] = d[n] => m = n BY <1>0, <1>4, OneRecordEachIs DEF RecordsOK
  <2>2. \A n \in DOMAIN d : d[n] # worker.op BY <1>3, <1>4
  <2> QED BY <1>3, <1>5, <2>1, <2>2
<1>15. OneRecordEach' BY <1>0, <1>7, <1>14, OneRecordEachIs DEF RecordsOK
<1>16. RecordsOK' BY <1>0, <1>7, <1>11, <1>15 DEF RecordsOK, Stay, Rec
<1>17. WorkerOK' BY <1>0, <1>1, <1>2, <1>8 DEF WorkerOK, Op, Used
<1>18. WindowOK' BY <1>8 DEF WindowOK, RestoreIsAtomic, At
<1>19. ArtifactsOK' BY <1>0, <1>1, <1>7, <1>8, <1>13 DEF ArtifactsOK, Recorded
<1>20. DeletedOK' BY <1>0, <1>1, <1>7, <1>8 DEF DeletedOK, Drained
<1> QED BY <1>9, <1>11, <1>12, <1>13, <1>16, <1>17, <1>18, <1>19, <1>20 DEF IInv

\* An operation that is gone is dropped from the queue.
LEMMA SkipKeeps ==
  ASSUME IInv, Skip PROVE IInv'
<1>0. Typed /\ QueueOK /\ ClosingOK /\ WorkerOK /\ WindowOK /\ ArtifactsOK /\ DeletedOK BY DEF IInv
<1>1. UNCHANGED <<tenant, ops, files, requester, doomed, requeued, worker, cache, client,
                  accepting, maintenance, faults, crashes>>
  BY DEF Skip, durable, plane
<1>2. queue # << >> /\ queue' = Tail(queue) BY DEF Skip
<1>3. queue' \in Seq(Ids) /\ Len(queue') <= Len(queue)
      /\ \A n \in DOMAIN queue' : n + 1 \in DOMAIN queue /\ queue'[n] = queue[n + 1]
  BY <1>0, <1>2 DEF Typed
<1>4. Typed' BY <1>0, <1>1, <1>3 DEF Typed
<1>5. Stay /\ OpsOK' /\ RecordsOK' /\ WorkerOK' BY <1>1, DurableFrame
<1>6. QueueOK'
  <2>1. Len(queue) \in Nat /\ Len(queue') \in Nat /\ MaxOperations \in Nat
    BY <1>0, <1>3, LimitsArePositive DEF Typed
  <2>2. Len(queue') <= MaxOperations BY <1>0, <1>3, <2>1 DEF QueueOK
  <2> QED BY <1>0, <1>1, <1>3, <2>2 DEF QueueOK, Used
<1>7. ClosingOK' /\ (Safe' => Safe)
  <2>1. \A i \in Ids : Held(i)' => Held(i) BY <1>1, <1>3 DEF Held
  <2>2. \A i \in Ids : (Deletion(i)' => Deletion(i)) /\ (Unfinished(i)' => Unfinished(i))
    BY <1>1 DEF Deletion, Unfinished
  <2> QED BY <2>1, <2>2, <1>0, <1>1, ClosingFrame, SafeFrame
<1>8. WindowOK' BY <1>0, <1>1, <1>5, WindowFrame
<1>9. ArtifactsOK' BY <1>0, <1>1 DEF ArtifactsOK, Recorded, Safe, Closing
<1>10. DeletedOK' BY <1>0, <1>1, <1>5, DeletedFrame
<1> QED BY <1>4, <1>5, <1>6, <1>7, <1>8, <1>9, <1>10 DEF IInv

\* Where an operation starts: one whose work is recorded is not done again.
LEMMA FirstIs ==
  ASSUME Typed, NEW i \in Ids, ops[i].kind \in Known
  PROVE  /\ First(i) \in {"exporting", "validating", "draining", "succeeding"}
         /\ First(i) = "exporting" => ops[i].kind \in Archiving /\ \A f \in Recorded : f.op # i
         /\ First(i) = "validating" =>
              ops[i].kind \in Reading /\ \A n \in DOMAIN tenant.drills : tenant.drills[n] # i
         /\ First(i) = "draining" => ops[i].kind = "tenant_delete" /\ tenant.status # "deleted"
<1>1. DOMAIN tenant.drills = 1 .. Len(tenant.drills) BY DEF Typed, TenantType
<1>2. CASE ops[i].kind \in Archiving
  BY <1>2 DEF First, Archiving, Reading
<1>3. CASE ops[i].kind \in Reading
  BY <1>1, <1>3 DEF First, Archiving, Reading, Contains
<1>4. CASE ops[i].kind = "tenant_delete"
  BY <1>4 DEF First, Archiving, Reading
<1> QED BY <1>2, <1>3, <1>4 DEF Known

\* The operation that is taken starts where its work of an earlier run ends.
LEMMA TakeKeeps ==
  ASSUME IInv, Take PROVE IInv'
<1> DEFINE i == Head(queue)
<1>0. /\ Typed /\ OpsOK /\ QueueOK /\ ClosingOK /\ WorkerOK /\ WindowOK
      /\ RecordsOK /\ ArtifactsOK /\ DeletedOK
  BY DEF IInv
<1>1. UNCHANGED <<tenant, files, requester, doomed, requeued, cache, client, accepting, faults, crashes>>
  BY DEF Take
<1>2. /\ queue # << >> /\ queue' = Tail(queue) /\ SetStatus(i, "running")
      /\ worker' = [Waiting EXCEPT !.step = First(i), !.op = i]
      /\ maintenance' = (maintenance \/ First(i) = "draining")
      /\ ops[i].status # "pruned"
  BY DEF Take
<1>3. /\ queue' \in Seq(Ids) /\ Len(queue') <= Len(queue)
      /\ \A n \in DOMAIN queue' : n + 1 \in DOMAIN queue /\ queue'[n] = queue[n + 1]
      /\ i \in Ids /\ i = queue[1] /\ 1 \in DOMAIN queue
  BY <1>0, <1>2 DEF Typed
<1>4. Used(i) BY <1>0, <1>3 DEF QueueOK
<1> HIDE DEF i
<1>5. /\ ops' \in [Ids -> OpType]
      /\ \A j \in Ids : /\ ops'[j].kind = ops[j].kind /\ ops'[j].arg = ops[j].arg
                        /\ ops'[j].status = IF j = i THEN "running" ELSE ops[j].status
  BY <1>0, <1>2, <1>3, StatusFields DEF Typed
<1>6. Settle /\ \A j \in Ids : Deletion(j)' <=> Deletion(j)
  BY <1>2, <1>4, <1>5 DEF Settle, Used, Deletion
<1>7. OpsOK' /\ Stay BY <1>0, <1>6, OpsFrame
<1>8. /\ First(i) \in {"exporting", "validating", "draining", "succeeding"}
      /\ First(i) = "exporting" => ops[i].kind \in Archiving /\ \A f \in Recorded : f.op # i
      /\ First(i) = "validating" =>
           ops[i].kind \in Reading /\ \A n \in DOMAIN tenant.drills : tenant.drills[n] # i
      /\ First(i) = "draining" => ops[i].kind = "tenant_delete" /\ tenant.status # "deleted"
  BY <1>0, <1>3, <1>4, FirstIs DEF OpsOK
<1>9. PICK s \in {"exporting", "validating", "draining", "succeeding"} : s = First(i) BY <1>8
<1>10. worker' = [step |-> s, op |-> i, previous |-> 0, removed |-> {}, value |-> NoFile]
  BY <1>2, <1>9 DEF Waiting
<1>11. worker'.step = s /\ worker'.op = i BY <1>10
<1>12. NoFile \in File BY LimitsArePositive DEF NoFile, File, Contained
<1>13. worker' \in WorkerType
  <2>1. i \in 0 .. MaxRequests BY <1>3, LimitsArePositive DEF Ids
  <2> QED BY <2>1, <1>10, <1>12 DEF WorkerType, Contained
<1>14. Typed' BY <1>0, <1>1, <1>2, <1>3, <1>5, <1>13 DEF Typed
<1>15. QueueOK'
  <2>1. \A n \in DOMAIN queue : queue[n] \in Ids BY <1>0 DEF Typed
  <2>2. \A n \in DOMAIN queue' : Used(queue[n])' BY <1>0, <1>3, <1>7, <2>1 DEF QueueOK, Stay, Used
  <2>3. \A r \in Requesters :
         /\ requester'[r].step = "recorded" =>
               /\ requester'[r].op \in Ids /\ Used(requester[r].op)'
               /\ ops'[requester'[r].op].kind = requester'[r].kind
         /\ requester'[r].step = "checked" => requester'[r].kind \in Known
    BY <1>0, <1>1, <1>7 DEF QueueOK, Stay, Used
  <2>4. Len(queue') <= MaxOperations
    <3>1. Len(queue) \in Nat /\ Len(queue') \in Nat /\ MaxOperations \in Nat
      BY <1>0, <1>3, LimitsArePositive DEF Typed
    <3> QED BY <1>0, <1>3, <3>1 DEF QueueOK
  <2> QED BY <2>2, <2>3, <2>4 DEF QueueOK
<1>16. ClosingOK' /\ (Safe' => Safe)
  <2>1. Held(i) BY <1>3 DEF Held
  <2>2. \A j \in Ids : Held(j)' => Held(j) BY <2>1, <1>3, <1>11 DEF Held
  <2>3. \A j \in Ids : Unfinished(j)' => Unfinished(j) \/ Held(j) BY <2>1, <1>5 DEF Unfinished
  <2> QED BY <2>2, <2>3, <1>0, <1>1, <1>6, ClosingFrame, SafeFrame
<1>17. RecordsOK' BY <1>0, <1>1, <1>7, RecordsFrame
<1>18. Op'.kind = ops[i].kind /\ Op'.status = "running" /\ Used(worker.op)'
  BY <1>3, <1>4, <1>5, <1>7, <1>11 DEF Op, Used
<1>19. WorkerOK' BY <1>1, <1>3, <1>8, <1>9, <1>11, <1>18 DEF WorkerOK
<1>20. WindowOK' BY <1>2, <1>9, <1>11 DEF WindowOK, RestoreIsAtomic, At
<1>21. ArtifactsOK' BY <1>0, <1>1, <1>8, <1>9, <1>11, <1>16 DEF ArtifactsOK, Recorded
<1>22. DeletedOK' BY <1>0, <1>1, <1>8, <1>9, <1>11 DEF DeletedOK, Drained
<1> QED BY <1>7, <1>14, <1>15, <1>16, <1>17, <1>19, <1>20, <1>21, <1>22 DEF IInv

\* What a finite set is mapped to is finite.
LEMMA ImageFinite ==
  ASSUME NEW S, IsFiniteSet(S), NEW T, NEW g, g = [x \in S |-> g[x]], T = {g[x] : x \in S}
  PROVE  IsFiniteSet(T)
<1>1. g \in Surjection(S, T) BY DEF Surjection
<1> QED BY <1>1, FS_Surjection DEF ExistsSurjection

\* An artifact's identifier is a new one: no record, no artifact, no argument and
\* nothing about to be removed has it.
LEMMA FreshIs ==
  ASSUME Typed, NEW i \in Ids
  PROVE  Fresh(i) \in Nat /\ \A f \in doomed : f.op = i => f.run # Fresh(i)
<1> DEFINE args == {ops[j].arg : j \in Ids}
           asked == {requester[r].arg : r \in Requesters}
           named == files \cup Recorded \cup doomed \cup args \cup asked
           chosen == {g \in named : g.op = i}
           taken == {f.run : f \in chosen}
           c == Cardinality(taken)
<1>1. IsFiniteSet(Recorded)
  <2>1. Recorded = ToSet(tenant.records["backups"]) \cup ToSet(tenant.records["exports"])
    BY DEF Recorded, Lists
  <2>2. tenant.records["backups"] \in Seq(File) /\ tenant.records["exports"] \in Seq(File)
    BY DEF Typed, TenantType, Lists
  <2> QED BY <2>1, <2>2, ElementsFinite, FS_Union
<1>2. IsFiniteSet(args)
  <2>1. IsFiniteSet(Ids) BY FS_Interval, LimitsArePositive DEF Ids
  <2>2. PICK g : g = [j \in Ids |-> ops[j].arg] OBVIOUS
  <2>3. g = [j \in Ids |-> g[j]] /\ args = {g[j] : j \in Ids} BY <2>2
  <2> HIDE DEF args
  <2> QED BY <2>1, <2>3, ImageFinite
<1>3. IsFiniteSet(asked)
  <2>1. PICK g : g = [r \in Requesters |-> requester[r].arg] OBVIOUS
  <2>2. g = [r \in Requesters |-> g[r]] /\ asked = {g[r] : r \in Requesters} BY <2>1
  <2> HIDE DEF asked
  <2> QED BY <2>2, RequestersAreFinite, ImageFinite
<1>4. IsFiniteSet(chosen)
  <2>1. IsFiniteSet(files) /\ IsFiniteSet(doomed) BY DEF Typed
  <2> HIDE DEF args, asked
  <2>2. IsFiniteSet(files \cup Recorded) BY <2>1, <1>1, FS_Union
  <2>3. IsFiniteSet(files \cup Recorded \cup doomed) BY <2>1, <2>2, FS_Union
  <2>4. IsFiniteSet(files \cup Recorded \cup doomed \cup args) BY <2>3, <1>2, FS_Union
  <2>5. IsFiniteSet(named) BY <2>4, <1>3, FS_Union
  <2> HIDE DEF named
  <2> QED BY <2>5, FS_Subset
<1>5. IsFiniteSet(taken)
  <2> HIDE DEF chosen
  <2>1. PICK g : g = [f \in chosen |-> f.run] OBVIOUS
  <2>2. g = [f \in chosen |-> g[f]] /\ taken = {g[f] : f \in chosen} BY <2>1
  <2> HIDE DEF taken
  <2> QED BY <2>2, <1>4, ImageFinite
<1>6. \A f \in doomed : f.op = i => f.run \in taken OBVIOUS
<1>7. Fresh(i) = CHOOSE n \in 0 .. c :
                    n \notin taken /\ \A m \in 0 .. c : m \notin taken => n <= m
  BY DEF Fresh
<1> HIDE DEF taken
<1>8. c \in Nat BY <1>5, FS_CardinalityType
<1>9. ~(0 .. c \subseteq taken)
  <2>1. Cardinality(0 .. c) = c + 1 BY <1>8, FS_Interval
  <2>2. 0 .. c \subseteq taken => Cardinality(0 .. c) <= c BY <1>5, FS_Subset
  <2> QED BY <1>8, <2>1, <2>2
<1>10. PICK S : S = {n \in 0 .. c : n \notin taken} OBVIOUS
<1>11. S # {} /\ S \subseteq Nat BY <1>8, <1>9, <1>10
<1>12. PICK x \in S : \A y \in S : ~(<<y, x>> \in OpToRel(<, Nat))
  BY <1>11, NatLessThanWellFounded, WFMin
<1>13. \A y \in S : x <= y
  <2>1. \A y \in S : ~(y < x) BY <1>11, <1>12 DEF OpToRel
  <2> QED BY <1>11, <2>1
<1>14. x \in 0 .. c /\ x \notin taken /\ \A m \in 0 .. c : m \notin taken => x <= m
  BY <1>10, <1>13
<1>15. Fresh(i) \in 0 .. c /\ Fresh(i) \notin taken BY <1>7, <1>14
<1> QED BY <1>6, <1>8, <1>15

\* The worker's fields after a step that changes two of them.
LEMMA ArchiveFields ==
  ASSUME worker \in WorkerType, NEW s, NEW f, worker' = [worker EXCEPT !.step = s, !.value = f]
  PROVE  worker' = [step |-> s, op |-> worker.op, previous |-> worker.previous,
                    removed |-> worker.removed, value |-> f]
<1>1. worker = [step |-> worker.step, op |-> worker.op, previous |-> worker.previous,
                removed |-> worker.removed, value |-> worker.value]
  BY DEF WorkerType
<1> QED BY <1>1

\* The artifact is a new one, and nobody is about to remove it.
LEMMA ArchiveKeeps ==
  ASSUME IInv, Archive PROVE IInv'
<1>0. Typed /\ WorkerOK /\ WindowOK /\ ArtifactsOK /\ DeletedOK BY DEF IInv
<1>1. UNCHANGED <<tenant, ops, queue, requester, doomed, requeued, cache, client,
                  accepting, maintenance, faults, crashes>>
  BY DEF Archive, plane, threads
<1>2. PICK f : f = [op |-> worker.op, run |-> Fresh(worker.op), value |-> Contents(Op.kind)] OBVIOUS
<1>3. /\ worker.step = "exporting" /\ files' = files \cup {f}
      /\ worker' = [worker EXCEPT !.step = "recording", !.value = f]
  BY <1>2 DEF Archive, At
<1>4. worker.op \in Ids BY <1>0, <1>3 DEF WorkerOK
<1>5. /\ Fresh(worker.op) \in Nat
      /\ \A g \in doomed : g.op = worker.op => g.run # Fresh(worker.op)
  BY <1>0, <1>4, FreshIs
<1>6. f.op = worker.op /\ f.value \in {0, cache} /\ f \notin doomed
  BY <1>2, <1>5 DEF Contents
<1>7. f \in File
  <2>1. Contents(Op.kind) \in Contained BY <1>0 DEF Contents, Typed, Contained
  <2>2. worker.op \in 0 .. MaxRequests BY <1>0 DEF Typed, WorkerType
  <2> QED BY <1>2, <1>5, <2>1, <2>2 DEF File
<1>8. worker' = [step |-> "recording", op |-> worker.op, previous |-> worker.previous,
                 removed |-> worker.removed, value |-> f]
  BY <1>0, <1>3, ArchiveFields DEF Typed
<1>9. worker' \in WorkerType BY <1>0, <1>7, <1>8 DEF Typed, WorkerType
<1>10. worker'.step = "recording" /\ worker'.op = worker.op /\ worker'.value = f BY <1>8
<1>11. IsFiniteSet(files') BY <1>0, <1>3, FS_AddElement DEF Typed
<1>12. Typed' BY <1>0, <1>1, <1>3, <1>7, <1>9, <1>11 DEF Typed
<1>13. OpsOK' /\ QueueOK' /\ ClosingOK' /\ RecordsOK' BY <1>1, <1>3, <1>10, DurableFrame
<1>14. Op' = Op BY <1>1, <1>10 DEF Op
<1>15. WorkerOK' BY <1>0, <1>1, <1>3, <1>10, <1>14 DEF WorkerOK, Used
<1>16. WindowOK' BY <1>10 DEF WindowOK, RestoreIsAtomic, At
<1>17. Recorded' = Recorded BY <1>1 DEF Recorded
<1>18. ArtifactsOK' BY <1>0, <1>1, <1>3, <1>6, <1>10, <1>17 DEF ArtifactsOK, Safe, Closing
<1>19. DeletedOK' BY <1>0, <1>1, <1>3, <1>6, <1>10 DEF DeletedOK, Drained
<1> QED BY <1>12, <1>13, <1>15, <1>16, <1>18, <1>19 DEF IInv

\* The worker's fields after a step that changes two of them.
LEMMA RecordFields ==
  ASSUME worker \in WorkerType, NEW s, NEW R, worker' = [worker EXCEPT !.step = s, !.removed = R]
  PROVE  worker' = [step |-> s, op |-> worker.op, previous |-> worker.previous,
                    removed |-> R, value |-> worker.value]
<1>1. worker = [step |-> worker.step, op |-> worker.op, previous |-> worker.previous,
                removed |-> worker.removed, value |-> worker.value]
  BY DEF WorkerType
<1> QED BY <1>1

\* A list with the record of one more operation has one record of each.
LEMMA OneMore ==
  ASSUME NEW s \in Seq(File), NEW v \in File, NEW all, all = Append(s, v),
         \A m, n \in DOMAIN s : s[m].op = s[n].op => m = n,
         \A m \in DOMAIN s : s[m].op # v.op
  PROVE  /\ all \in Seq(File) /\ Len(all) = Len(s) + 1
         /\ \A m \in DOMAIN all : (m \in DOMAIN s /\ all[m] = s[m]) \/ (m = Len(all) /\ all[m] = v)
         /\ \A m, n \in DOMAIN all : all[m].op = all[n].op => m = n
<1>1. /\ all \in Seq(File) /\ Len(all) = Len(s) + 1
      /\ \A m \in DOMAIN all : (m \in DOMAIN s /\ all[m] = s[m]) \/ (m = Len(all) /\ all[m] = v)
  OBVIOUS
<1> QED BY <1>1

\* The record joins its list, and what it pushes out is other than what stays.
LEMMA RecordArtifactKeeps ==
  ASSUME IInv, RecordArtifact PROVE IInv'
<1>0. /\ Typed /\ OpsOK /\ QueueOK /\ ClosingOK /\ WorkerOK /\ WindowOK
      /\ RecordsOK /\ ArtifactsOK /\ DeletedOK
  BY DEF IInv
<1>1. UNCHANGED <<ops, files, queue, requester, doomed, requeued, cache, client,
                  accepting, maintenance, faults, crashes>>
  BY DEF RecordArtifact, plane, threads
<1>2. PICK l \in Lists : l = ListOf(Op.kind) BY DEF ListOf, Lists
<1>3. PICK s \in Seq(File) : s = tenant.records[l] BY <1>0 DEF Typed, TenantType
<1>4. PICK v \in File : v = worker.value BY <1>0 DEF Typed, WorkerType
<1>5. PICK all : all = Append(s, v) OBVIOUS
<1>6. PICK e : e = IF Len(all) > RetentionCount THEN Len(all) - RetentionCount ELSE 0 OBVIOUS
<1>7. PICK t : t = SubSeq(all, e + 1, Len(all)) OBVIOUS
<1>8. PICK gone : gone = SubSeq(all, 1, e) OBVIOUS
<1>9. /\ worker.step = "recording"
      /\ tenant' = [tenant EXCEPT !.records[l] = t]
      /\ worker' = [worker EXCEPT !.step = "trimming", !.removed = ToSet(gone)]
  BY <1>2, <1>3, <1>4, <1>5, <1>6, <1>7, <1>8, Zenon DEF RecordArtifact, At
<1>10. /\ worker.op \in Ids /\ Used(worker.op)
       /\ Op.kind \in Archiving /\ v \in files /\ v \notin doomed /\ v.op = worker.op
       /\ \A f \in Recorded : f.op # worker.op
  BY <1>0, <1>4, <1>9 DEF WorkerOK, ArtifactsOK
<1>11. /\ \A m, n \in DOMAIN s : s[m].op = s[n].op => m = n
       /\ \A m \in DOMAIN s : s[m].op # v.op
  <2>1. \A m \in DOMAIN s : s[m] \in Recorded BY <1>3, RecordedIs
  <2> QED BY <2>1, <1>0, <1>3, <1>10, OneRecordEachIs DEF RecordsOK
<1>12. /\ all \in Seq(File) /\ Len(all) = Len(s) + 1
       /\ \A m \in DOMAIN all : (m \in DOMAIN s /\ all[m] = s[m]) \/ (m = Len(all) /\ all[m] = v)
       /\ \A m, n \in DOMAIN all : all[m].op = all[n].op => m = n
  BY <1>5, <1>11, OneMore
<1>13. RetentionCount \in Nat \ {0} /\ Len(all) \in Nat /\ DOMAIN all = 1 .. Len(all)
  BY <1>12, LimitsArePositive
<1>14. e \in 0 .. Len(all) /\ Len(all) - e <= RetentionCount
  <2>1. PICK n \in Nat : n = Len(all) BY <1>13
  <2>2. CASE n > RetentionCount
    <3>1. e = n - RetentionCount BY <1>6, <2>1, <2>2
    <3> QED BY <3>1, <2>1, <2>2, <1>13
  <2>3. CASE ~(n > RetentionCount)
    <3>1. e = 0 BY <1>6, <2>1, <2>3
    <3> QED BY <3>1, <2>1, <2>3, <1>13
  <2> QED BY <2>2, <2>3
<1>15. /\ t \in Seq(File) /\ Len(t) = Len(all) - e
       /\ \A m \in DOMAIN t : m + e \in DOMAIN all /\ t[m] = all[m + e]
  BY <1>7, <1>12, <1>14, SuffixIs
<1>16. /\ gone \in Seq(File)
       /\ \A m \in DOMAIN gone : m \in DOMAIN all /\ m <= e /\ gone[m] = all[m]
  BY <1>8, <1>12, <1>14, PrefixIs
<1>17. ToSet(gone) \subseteq File BY <1>16, ElementsFinite
<1>18. worker' = [step |-> "trimming", op |-> worker.op, previous |-> worker.previous,
                  removed |-> ToSet(gone), value |-> worker.value]
  BY <1>0, <1>9, RecordFields DEF Typed
<1>19. worker' \in WorkerType BY <1>0, <1>17, <1>18 DEF Typed, WorkerType
<1>20. worker'.step = "trimming" /\ worker'.op = worker.op /\ worker'.removed = ToSet(gone) BY <1>18
<1>21. /\ tenant' \in TenantType /\ tenant'.status = tenant.status /\ tenant'.drills = tenant.drills
       /\ tenant'.records[l] = t
       /\ \A k \in Lists \ {l} : tenant'.records[k] = tenant.records[k]
  <2>1. tenant \in TenantType BY <1>0 DEF Typed
  <2>2. PICK rs \in [Lists -> Seq(File)] : rs = [tenant.records EXCEPT ![l] = t]
    BY <2>1, <1>15 DEF TenantType
  <2>3. tenant' = [tenant EXCEPT !.records = rs] BY <1>9, <2>2, Zenon
  <2>4. tenant' \in TenantType /\ tenant'.status = tenant.status
        /\ tenant'.drills = tenant.drills /\ tenant'.records = rs
    BY <2>1, <2>3 DEF TenantType
  <2> QED BY <2>1, <2>2, <2>4 DEF TenantType
<1>22. Typed' BY <1>0, <1>1, <1>19, <1>21 DEF Typed
<1>23. Settle /\ \A i \in Ids : Deletion(i)' <=> Deletion(i) BY <1>1 DEF Settle, Deletion
<1>24. OpsOK' /\ Stay BY <1>0, <1>23, OpsFrame
<1>25. QueueOK' BY <1>0, <1>1, <1>24, QueueFrame
<1>26. ClosingOK' /\ (Safe' => Safe)
  <2>1. \A i \in Ids : Held(i)' => Held(i) BY <1>1, <1>9, <1>20, HeldFrame
  <2>2. \A i \in Ids : Unfinished(i)' => Unfinished(i) BY <1>1 DEF Unfinished
  <2> QED BY <2>1, <2>2, <1>0, <1>1, <1>21, <1>23, ClosingFrame, SafeFrame
<1>27. \A m \in DOMAIN t : t[m] = v \/ \E n \in DOMAIN s : t[m] = s[n] BY <1>12, <1>15
<1>28. RecordsOK'
  <2>1. OneRecordEach'
    <3>1. ASSUME NEW m \in DOMAIN t, NEW n \in DOMAIN t, t[m].op = t[n].op PROVE m = n
      <4>1. m + e = n + e BY <1>12, <1>15, <3>1
      <4>2. m \in Int /\ n \in Int /\ e \in Int BY <1>13, <1>14, <1>15
      <4> QED BY <4>1, <4>2
    <3>2. ASSUME NEW k \in Lists, NEW m \in DOMAIN tenant'.records[k],
                 NEW n \in DOMAIN tenant'.records[k],
                 tenant'.records[k][m].op = tenant'.records[k][n].op
          PROVE  m = n
      <4>1. CASE k = l BY <4>1, <3>1, <3>2, <1>21
      <4>2. CASE k # l BY <4>2, <3>2, <1>0, <1>21, OneRecordEachIs DEF RecordsOK
      <4> QED BY <4>1, <4>2
    <3>3. \A m, n \in DOMAIN tenant'.drills : tenant'.drills[m] = tenant'.drills[n] => m = n
      BY <1>0, <1>21, OneRecordEachIs DEF RecordsOK
    <3> QED BY <3>2, <3>3, OneRecordEachIs
  <2>2. \A k \in Lists : Len(tenant'.records[k]) <= RetentionCount
    BY <1>0, <1>14, <1>15, <1>21 DEF RecordsOK
  <2>3. ASSUME NEW k \in Lists, NEW m \in DOMAIN tenant'.records[k]
        PROVE  /\ Rec(k, m)'.op \in Ids /\ ops'[Rec(k, m)'.op].status # "none"
               /\ ops'[Rec(k, m)'.op].kind \in Archiving /\ ListOf(ops'[Rec(k, m)'.op].kind) = k
    <3>1. CASE k # l BY <3>1, <1>0, <1>1, <1>21 DEF RecordsOK, Rec, Used
    <3>2. CASE k = l
      <4>1. Rec(k, m)' = t[m] /\ m \in DOMAIN t BY <3>2, <1>21 DEF Rec
      <4>2. CASE t[m] = v
        <5>1. Rec(k, m)'.op = worker.op BY <4>1, <4>2, <1>10
        <5> QED BY <5>1, <3>2, <1>1, <1>2, <1>10 DEF Op, Used
      <4>3. CASE \E n \in DOMAIN s : t[m] = s[n]
        <5>1. PICK n \in DOMAIN s : t[m] = s[n] BY <4>3
        <5>2. s[n].op \in Ids /\ Used(s[n].op) /\ ops[s[n].op].kind \in Archiving
              /\ ListOf(ops[s[n].op].kind) = l
          BY <1>0, <1>3 DEF RecordsOK, Rec
        <5> QED BY <4>1, <5>1, <5>2, <3>2, <1>1 DEF Used
      <4> QED BY <4>1, <4>2, <4>3, <1>27
    <3> QED BY <3>1, <3>2
  <2> QED BY <2>1, <2>2, <2>3 DEF RecordsOK, Used
<1>29. WorkerOK'
  <2>1. Op' = Op BY <1>1, <1>20 DEF Op
  <2> QED BY <2>1, <1>1, <1>10, <1>20 DEF WorkerOK, Used
<1>30. WindowOK' BY <1>20 DEF WindowOK, RestoreIsAtomic, At
<1>31. Recorded' \subseteq Recorded \cup {v}
  <2>1. SUFFICES ASSUME NEW f \in Recorded' PROVE f \in Recorded \cup {v} OBVIOUS
  <2>2. PICK k \in Lists : \E m \in DOMAIN tenant'.records[k] : f = tenant'.records[k][m]
    BY <2>1, RecordedIs
  <2>3. CASE k # l BY <2>2, <2>3, <1>21, RecordedIs
  <2>4. CASE k = l BY <2>2, <2>4, <1>3, <1>21, <1>27, RecordedIs
  <2> QED BY <2>3, <2>4
<1>32. ToSet(gone) \cap Recorded' = {}
  <2>1. SUFFICES ASSUME NEW f \in ToSet(gone), f \in Recorded' PROVE FALSE OBVIOUS
  <2>2. PICK p \in DOMAIN all : p <= e /\ f = all[p] BY <1>16 DEF ToSet
  <2>3. PICK k \in Lists : \E m \in DOMAIN tenant'.records[k] : f = tenant'.records[k][m]
    BY <2>1, RecordedIs
  <2>4. PICK m \in DOMAIN tenant'.records[k] : f = tenant'.records[k][m] BY <2>3
  <2>5. CASE k = l
    <3>1. m \in DOMAIN t /\ f = t[m] BY <2>4, <2>5, <1>21
    <3>2. p = m + e BY <3>1, <2>2, <1>12, <1>15
    <3>3. m \in Nat \ {0} /\ e \in Nat BY <3>1, <1>14, <1>15, <1>13
    <3> QED BY <2>2, <3>2, <3>3
  <2>6. CASE k # l
    <3>1. m \in DOMAIN tenant.records[k] /\ f = tenant.records[k][m] BY <2>4, <2>6, <1>21
    <3>2. f.op # v.op BY <3>1, <1>10, RecordedIs
    <3>3. p \in DOMAIN s /\ f = s[p] BY <2>2, <3>2, <1>12
    <3>4. k = l BY <3>1, <3>3, <1>0, <1>3, SameRecord
    <3> QED BY <3>4, <2>6
  <2> QED BY <2>5, <2>6
<1>33. ArtifactsOK'
  BY <1>0, <1>1, <1>10, <1>20, <1>26, <1>31, <1>32 DEF ArtifactsOK
<1>34. DeletedOK' BY <1>0, <1>1, <1>20, <1>21 DEF DeletedOK, Drained
<1> QED BY <1>22, <1>24, <1>25, <1>26, <1>28, <1>29, <1>30, <1>33, <1>34 DEF IInv

\* A worker that waits is in nobody's way.
LEMMA WaitingIs ==
  /\ Waiting \in WorkerType /\ Waiting.step = "waiting"
  /\ NoRequest \in RequestType /\ NoRequest.step = "idle"
BY LimitsArePositive DEF Waiting, WorkerType, NoFile, File, Contained, NoRequest, RequestType

\* The end of an operation, with its audit record or without.
LEMMA SucceedKeeps ==
  ASSUME IInv, Succeed \/ SucceedUnaudited PROVE IInv'
<1>0. /\ Typed /\ OpsOK /\ QueueOK /\ ClosingOK /\ WorkerOK /\ WindowOK
      /\ RecordsOK /\ ArtifactsOK /\ DeletedOK
  BY DEF IInv
<1>1. UNCHANGED <<tenant, files, queue, requester, doomed, requeued, cache, client,
                  accepting, maintenance, crashes>>
  BY DEF Succeed, SucceedUnaudited, plane, threads
<1>2. /\ worker.step = "succeeding"
      /\ \/ Op.status = "pruned" /\ UNCHANGED ops
         \/ Op.status # "pruned" /\ SetStatus(worker.op, "succeeded")
  BY DEF Succeed, SucceedUnaudited, At
<1>3. faults' \in 0 .. MaxFaults
  BY <1>0, FaultType DEF Succeed, SucceedUnaudited, Typed
<1>4. /\ worker' \in WorkerType
      /\ worker'.step = "waiting" \/ (worker'.step = "failing" /\ worker'.op = worker.op)
  BY <1>0, GotoFields, WaitingIs DEF Succeed, SucceedUnaudited, Typed, Steps
<1>5. worker.op \in Ids /\ Used(worker.op) BY <1>0, <1>2 DEF WorkerOK
<1>6. /\ ops' \in [Ids -> OpType]
      /\ \A j \in Ids : /\ ops'[j].kind = ops[j].kind /\ ops'[j].arg = ops[j].arg
                        /\ ops'[j].status = IF j = worker.op /\ Op.status # "pruned"
                                            THEN "succeeded" ELSE ops[j].status
  <2>1. CASE Op.status = "pruned" /\ UNCHANGED ops BY <2>1, <1>0 DEF Typed
  <2>2. CASE Op.status # "pruned" /\ SetStatus(worker.op, "succeeded")
    BY <2>2, <1>0, <1>5, StatusFields DEF Typed
  <2> QED BY <2>1, <2>2, <1>2
<1>7. Settle /\ \A j \in Ids : Deletion(j)' <=> Deletion(j)
  BY <1>5, <1>6 DEF Settle, Op, Used, Deletion
<1>8. OpsOK' /\ Stay BY <1>0, <1>7, OpsFrame
<1>9. Typed' BY <1>0, <1>1, <1>3, <1>4, <1>6 DEF Typed
<1>10. QueueOK' BY <1>0, <1>1, <1>8, QueueFrame
<1>11. ClosingOK' /\ (Safe' => Safe)
  <2>1. \A i \in Ids : Held(i)' => Held(i) BY <1>1, <1>2, <1>4, HeldFrame
  <2>2. \A i \in Ids : Unfinished(i)' => Unfinished(i) BY <1>6 DEF Unfinished
  <2> QED BY <2>1, <2>2, <1>0, <1>1, <1>7, ClosingFrame, SafeFrame
<1>12. RecordsOK' BY <1>0, <1>1, <1>8, RecordsFrame
<1>13. WorkerOK' BY <1>4, <1>5, <1>8 DEF WorkerOK, Stay, Used
<1>14. WindowOK' BY <1>4 DEF WindowOK, RestoreIsAtomic, At
<1>15. ArtifactsOK' BY <1>0, <1>1, <1>4, <1>11 DEF ArtifactsOK, Recorded
<1>16. DeletedOK' BY <1>0, <1>1, <1>4 DEF DeletedOK, Drained
<1> QED BY <1>8, <1>9, <1>10, <1>11, <1>12, <1>13, <1>14, <1>15, <1>16 DEF IInv

\* What the handler of exceptions makes of the tenant.
LEMMA SuspendedIs ==
  ASSUME IInv, worker.op \in Ids, tenant' \in {tenant, Suspended}
  PROVE  /\ tenant' \in TenantType /\ tenant'.drills = tenant.drills
         /\ tenant'.records = tenant.records
         /\ (tenant'.status = "deleted") <=> (tenant.status = "deleted")
         /\ tenant'.status = "active" => tenant.status = "active"
         /\ tenant'.status # tenant.status =>
              tenant.status = "deletion_pending" /\ Deletion(worker.op)
<1>1. tenant \in TenantType BY DEF IInv, Typed
<1>2. \/ tenant' = tenant
      \/ /\ Deletion(worker.op) /\ tenant.status = "deletion_pending"
         /\ tenant' = [tenant EXCEPT !.status = "suspended"]
  BY DEF Suspended, Deletion, Op
<1>3. CASE tenant' = tenant BY <1>1, <1>3
<1>4. CASE /\ Deletion(worker.op) /\ tenant.status = "deletion_pending"
           /\ tenant' = [tenant EXCEPT !.status = "suspended"]
  BY <1>1, <1>4, TenantFields
<1> QED BY <1>2, <1>3, <1>4

\* The handler of exceptions suspends a tenant whose deletion failed, no other.
LEMMA FailKeeps ==
  ASSUME IInv, Fail \/ Die PROVE IInv'
<1>0. /\ Typed /\ OpsOK /\ QueueOK /\ ClosingOK /\ WorkerOK /\ WindowOK
      /\ RecordsOK /\ ArtifactsOK /\ DeletedOK
  BY DEF IInv
<1>1. UNCHANGED <<files, queue, requester, doomed, requeued, cache, client, maintenance, crashes>>
  BY DEF Fail, Die, threads
<1>2. /\ worker.step = "failing" /\ tenant' \in {tenant, Suspended}
      /\ accepting' = (accepting /\ Op.kind # "tenant_delete")
  BY DEF Fail, Die, At
<1>3. faults' \in 0 .. MaxFaults /\ accepting' \in BOOLEAN
  BY <1>0, <1>2, FaultType DEF Fail, Die, Typed
<1>4. worker' \in WorkerType /\ worker'.step \in {"waiting", "dead"}
  BY <1>0, GotoFields, WaitingIs DEF Fail, Die, Typed, Steps
<1>5. worker.op \in Ids /\ Used(worker.op) BY <1>0, <1>2 DEF WorkerOK
<1>6. /\ tenant' \in TenantType /\ tenant'.drills = tenant.drills
      /\ tenant'.records = tenant.records
      /\ (tenant'.status = "deleted") <=> (tenant.status = "deleted")
      /\ tenant'.status = "active" => tenant.status = "active"
      /\ tenant'.status # tenant.status => Deletion(worker.op)
  BY <1>2, <1>5, SuspendedIs
<1>7. ops' \in [Ids -> OpType] /\ Settle /\ \A i \in Ids : Unfinished(i)' => Unfinished(i)
  <2>1. CASE Fail
    <3>1. SetStatus(worker.op, "failed") /\ ops[worker.op].status # "pruned"
      BY <2>1 DEF Fail, Op
    <3>2. /\ ops' \in [Ids -> OpType]
          /\ \A j \in Ids : /\ ops'[j].kind = ops[j].kind /\ ops'[j].arg = ops[j].arg
                            /\ ops'[j].status = IF j = worker.op THEN "failed" ELSE ops[j].status
      BY <1>0, <1>5, <3>1, StatusFields DEF Typed
    <3> QED BY <1>5, <3>1, <3>2 DEF Settle, Used, Unfinished
  <2>2. CASE Die BY <2>2, <1>0 DEF Die, Settle, Typed, Unfinished
  <2> QED BY <2>1, <2>2
<1>8. \A j \in Ids : Deletion(j)' <=> Deletion(j) BY <1>7 DEF Settle, Deletion
<1>9. OpsOK' /\ Stay BY <1>0, <1>7, OpsFrame
<1>10. Typed' BY <1>0, <1>1, <1>3, <1>4, <1>6, <1>7 DEF Typed
<1>11. QueueOK' BY <1>0, <1>1, <1>9, QueueFrame
<1>12. \A r \in Requesters : Closing(r)' <=> Closing(r) BY <1>1 DEF Closing
<1>13. ClosingOK' /\ (Safe' => Safe)
  <2>1. \A i \in Ids : Held(i)' => Held(i) BY <1>1, <1>4, HeldFrame
  <2>2. CASE tenant'.status = tenant.status
    BY <2>1, <2>2, <1>0, <1>1, <1>7, <1>8, ClosingFrame, SafeFrame
  <2>3. CASE tenant'.status # tenant.status
    <3>1. Held(worker.op) /\ Pursued(worker.op) BY <2>3, <1>2, <1>6 DEF Held, Pursued
    <3>2. \A r \in Requesters : ~Closing(r)' BY <3>1, <1>0, <1>5, <1>12 DEF ClosingOK
    <3>3. tenant'.status \notin {"active", "deleted"} BY <2>3, <1>6
    <3> QED BY <3>2, <3>3, <1>0, <1>1 DEF ClosingOK, Safe
  <2> QED BY <2>2, <2>3
<1>14. RecordsOK' BY <1>0, <1>6, <1>9, RecordsFrame
<1>15. WorkerOK' BY <1>4 DEF WorkerOK
<1>16. WindowOK' BY <1>4 DEF WindowOK, RestoreIsAtomic, At
<1>17. ArtifactsOK' BY <1>0, <1>1, <1>4, <1>6, <1>13 DEF ArtifactsOK, Recorded
<1>18. DeletedOK' BY <1>0, <1>1, <1>2, <1>4, <1>6 DEF DeletedOK, Drained
<1> QED BY <1>9, <1>10, <1>11, <1>13, <1>14, <1>15, <1>16, <1>17, <1>18 DEF IInv

----------------------------------------------------------------------------
(* Crash and start *)

\* After a crash only the state file counts, and artifacts without a record go.
LEMMA RestartKeeps ==
  ASSUME IInv, Restart PROVE IInv'
<1>0. /\ Typed /\ OpsOK /\ QueueOK /\ ClosingOK /\ WorkerOK /\ WindowOK
      /\ RecordsOK /\ ArtifactsOK /\ DeletedOK
  BY DEF IInv
<1>1. /\ UNCHANGED <<ops, faults>> /\ files' = files \cap Recorded
      /\ queue' = << >> /\ worker' = Waiting /\ doomed' = {} /\ requeued' = FALSE
      /\ requester' = [r \in Requesters |-> NoRequest]
      /\ cache' = 0 /\ maintenance' = FALSE
      /\ tenant' \in Loaded /\ accepting' = (tenant'.status = "active")
      /\ client' = [c \in Clients |-> "idle"]
  BY DEF Restart
<1>2. crashes' \in 0 .. MaxCrashes BY <1>0, LimitsArePositive DEF Restart, Typed
<1>3. /\ tenant' \in TenantType /\ tenant'.drills = tenant.drills
      /\ tenant'.records = tenant.records
      /\ (tenant'.status = "deleted") <=> (tenant.status = "deleted")
      /\ tenant'.status = "active" => tenant.status = "active"
  <2>1. tenant \in TenantType BY <1>0 DEF Typed
  <2>2. \/ tenant' = tenant
        \/ tenant.status = "active" /\ tenant' = [tenant EXCEPT !.status = "suspended"]
    BY <1>1 DEF Loaded
  <2>3. CASE tenant' = tenant BY <2>1, <2>3
  <2>4. CASE tenant.status = "active" /\ tenant' = [tenant EXCEPT !.status = "suspended"]
    BY <2>1, <2>4, TenantFields
  <2> QED BY <2>2, <2>3, <2>4
<1>4. worker' \in WorkerType /\ worker'.step = "waiting" BY <1>1, WaitingIs
<1>5. /\ requester' \in [Requesters -> RequestType]
      /\ \A r \in Requesters : requester'[r].step = "idle"
  BY <1>1, WaitingIs
<1>6. IsFiniteSet(files') /\ files' \in SUBSET File /\ IsFiniteSet(doomed')
  BY <1>0, <1>1, FS_Subset, FS_EmptySet DEF Typed
<1>7. Typed'
  <2>1. queue' \in Seq(Ids) /\ client' \in [Clients -> {"idle", "active"}] BY <1>1
  <2>2. accepting' \in BOOLEAN /\ maintenance' \in BOOLEAN /\ requeued' \in BOOLEAN BY <1>1
  <2>3. cache' \in Contained BY <1>1 DEF Contained
  <2> QED BY <2>1, <2>2, <2>3, <1>0, <1>1, <1>2, <1>3, <1>4, <1>5, <1>6 DEF Typed
<1>8. Settle /\ \A j \in Ids : Deletion(j)' <=> Deletion(j) BY <1>1 DEF Settle, Deletion
<1>9. OpsOK' /\ Stay BY <1>0, <1>8, OpsFrame
<1>10. QueueOK'
  <2>1. Len(queue') = 0 /\ DOMAIN queue' = {} BY <1>1
  <2> QED BY <2>1, <1>5, LimitsArePositive DEF QueueOK
<1>11. ClosingOK' /\ (Safe' => Safe)
  <2>1. \A i \in Ids : ~Held(i)' BY <1>1, <1>4 DEF Held
  <2>2. \A i \in Ids : Unfinished(i)' <=> Unfinished(i) BY <1>1 DEF Unfinished
  <2>3. \A i \in Ids : Pursued(i)' => Pursued(i) BY <2>1, <2>2, <1>8 DEF Pursued
  <2>4. \A r \in Requesters : ~Closing(r)' BY <1>5 DEF Closing
  <2> QED BY <2>3, <2>4, <1>0, <1>3, <1>5 DEF ClosingOK, Safe
<1>12. RecordsOK' BY <1>0, <1>3, <1>9, RecordsFrame
<1>13. WorkerOK' BY <1>4 DEF WorkerOK
<1>14. WindowOK' BY <1>4 DEF WindowOK, RestoreIsAtomic, At
<1>15. Recorded' = Recorded BY <1>3 DEF Recorded
<1>16. ArtifactsOK' BY <1>0, <1>1, <1>4, <1>11, <1>15 DEF ArtifactsOK
<1>17. DeletedOK' BY <1>0, <1>1, <1>3, <1>4 DEF DeletedOK, Drained
<1> QED BY <1>7, <1>9, <1>10, <1>11, <1>12, <1>13, <1>14, <1>16, <1>17 DEF IInv

\* What was pending or running is pending and queued, maybe for a second time, or
\* fails for lack of room.
LEMMA RequeueKeeps ==
  ASSUME IInv, Requeue PROVE IInv'
<1> DEFINE I == {i \in Ids : ops[i].status \in {"pending", "running"}}
<1>0. /\ Typed /\ OpsOK /\ QueueOK /\ ClosingOK /\ WorkerOK /\ WindowOK
      /\ RecordsOK /\ ArtifactsOK /\ DeletedOK
  BY DEF IInv
<1>1. UNCHANGED <<tenant, files, requester, doomed, worker, cache, client,
                  accepting, maintenance, faults, crashes>>
  BY DEF Requeue, plane
<1>2. PICK s \in InOrder(I) :
        /\ ~requeued /\ requeued' = TRUE
        /\ LET room == MaxOperations - Len(queue)
               put == SubSeq(s, 1, IF room < Len(s) THEN room ELSE Len(s))
           IN /\ queue' = queue \o put
              /\ ops' = [i \in Ids |->
                    IF i \in I
                      THEN [ops[i] EXCEPT !.status = IF Contains(put, i) THEN "pending" ELSE "failed"]
                      ELSE ops[i]]
  BY DEF Requeue
<1>3. PICK room : room = MaxOperations - Len(queue) OBVIOUS
<1>4. PICK k : k = IF room < Len(s) THEN room ELSE Len(s) OBVIOUS
<1>5. PICK put : put = SubSeq(s, 1, k) OBVIOUS
<1>6. /\ queue' = queue \o put
      /\ ops' = [i \in Ids |->
              IF i \in I
                THEN [ops[i] EXCEPT !.status = IF Contains(put, i) THEN "pending" ELSE "failed"]
                ELSE ops[i]]
  BY <1>2, <1>3, <1>4, <1>5
<1>7. s \in Seq(I)
  <2>1. IsFiniteSet(I)
    <3>1. IsFiniteSet(Ids) BY FS_Interval, LimitsArePositive DEF Ids
    <3> QED BY <3>1, FS_Subset
  <2>2. Cardinality(I) \in Nat BY <2>1, FS_CardinalityType
  <2>3. s \in [1 .. Cardinality(I) -> I] BY DEF InOrder
  <2>4. ASSUME NEW J, NEW n \in Nat, NEW t \in [1 .. n -> J] PROVE t \in Seq(J) OBVIOUS
  <2>5. PICK n \in Nat : n = Cardinality(I) BY <2>2
  <2> HIDE DEF I
  <2> QED BY <2>3, <2>4, <2>5
<1>8. queue \in Seq(Ids) /\ Len(queue) \in Nat /\ MaxOperations \in Nat
      /\ Len(queue) <= MaxOperations /\ Len(s) \in Nat
  BY <1>0, <1>7, LimitsArePositive DEF Typed, QueueOK
<1>9. room \in Nat BY <1>3, <1>8
<1>10. k \in 0 .. Len(s) /\ k <= room
  BY <1>4, <1>8, <1>9
<1>11. /\ put \in Seq(I) /\ Len(put) = k
       /\ \A n \in DOMAIN put : put[n] \in I
  <2> HIDE DEF I
  <2>1. put \in Seq(I) /\ Len(put) = k BY <1>5, <1>7, <1>10
  <2> QED BY <2>1
<1>12. /\ queue' \in Seq(Ids) /\ Len(queue') <= MaxOperations
       /\ \A n \in DOMAIN queue' : (\E m \in DOMAIN queue : queue'[n] = queue[m]) \/ queue'[n] \in I
  <2>1. put \in Seq(Ids)
    <3>1. I \subseteq Ids OBVIOUS
    <3> HIDE DEF I
    <3> QED BY <3>1, <1>11
  <2> HIDE DEF I
  <2>2. Len(queue') = Len(queue) + Len(put) /\ queue' \in Seq(Ids) BY <1>6, <1>8, <2>1
  <2>3. Len(queue') <= MaxOperations BY <2>2, <1>3, <1>8, <1>9, <1>10, <1>11
  <2>4. \A n \in DOMAIN queue' : (\E m \in DOMAIN queue : queue'[n] = queue[m])
                                 \/ (\E m \in DOMAIN put : queue'[n] = put[m])
    <3>1. ASSUME NEW a \in Seq(Ids), NEW b \in Seq(Ids), NEW n \in DOMAIN (a \o b)
          PROVE  (\E m \in DOMAIN a : (a \o b)[n] = a[m]) \/ (\E m \in DOMAIN b : (a \o b)[n] = b[m])
      <4>1. CASE n <= Len(a)
        <5>1. n \in DOMAIN a /\ (a \o b)[n] = a[n] BY <4>1
        <5> QED BY <5>1
      <4>2. CASE n > Len(a)
        <5>1. n - Len(a) \in DOMAIN b /\ (a \o b)[n] = b[n - Len(a)] BY <4>2
        <5> QED BY <5>1
      <4> QED BY <4>1, <4>2
    <3> QED BY <3>1, <1>6, <1>8, <2>1
  <2> QED BY <2>2, <2>3, <2>4, <1>11
<1>13. /\ ops' \in [Ids -> OpType]
       /\ \A j \in Ids : /\ ops'[j].kind = ops[j].kind /\ ops'[j].arg = ops[j].arg
                         /\ IF j \in I THEN ops'[j].status \in {"pending", "failed"}
                                       ELSE ops'[j].status = ops[j].status
  <2>1. ops \in [Ids -> OpType] BY <1>0 DEF Typed
  <2>2. PICK g : g = [j \in Ids |-> IF Contains(put, j) THEN "pending" ELSE "failed"] OBVIOUS
  <2>3. /\ g \in [Ids -> {"pending", "failed"}]
        /\ ops' = [j \in Ids |-> IF j \in I THEN [ops[j] EXCEPT !.status = g[j]] ELSE ops[j]]
    BY <2>2, <1>6
  <2> HIDE DEF I
  <2>4. ASSUME NEW j \in Ids
        PROVE  /\ ops'[j] \in OpType
               /\ ops'[j].kind = ops[j].kind /\ ops'[j].arg = ops[j].arg
               /\ IF j \in I THEN ops'[j].status \in {"pending", "failed"}
                             ELSE ops'[j].status = ops[j].status
    <3>1. ops[j] \in OpType /\ g[j] \in {"pending", "failed"} BY <2>1, <2>3
    <3>2. CASE j \in I
      <4>1. ops'[j] = [ops[j] EXCEPT !.status = g[j]] BY <2>3, <3>2
      <4>2. PICK a \in OpType : a = ops[j] BY <3>1
      <4>3. PICK t \in {"pending", "failed"} : t = g[j] BY <3>1
      <4>4. ops'[j] = [a EXCEPT !.status = t] BY <4>1, <4>2, <4>3
      <4>5. ops'[j] \in OpType /\ ops'[j].kind = a.kind /\ ops'[j].arg = a.arg /\ ops'[j].status = t
        BY <4>4 DEF OpType
      <4> QED BY <4>5, <4>2, <3>2
    <3>3. CASE j \notin I
      <4>1. ops'[j] = ops[j] BY <2>3, <3>3
      <4> QED BY <4>1, <3>1, <3>3
    <3> QED BY <3>2, <3>3
  <2>5. ops' = [j \in Ids |-> ops'[j]] BY <2>3
  <2> QED BY <2>4, <2>5
<1>14. Settle /\ \A j \in Ids : Deletion(j)' <=> Deletion(j) BY <1>13 DEF Settle, Deletion
<1>15. OpsOK' /\ Stay BY <1>0, <1>14, OpsFrame
<1>16. Typed' BY <1>0, <1>1, <1>2, <1>12, <1>13 DEF Typed
<1>17. QueueOK'
  <2>1. \A i \in I : Used(i) BY DEF Used
  <2>2. \A n \in DOMAIN queue : queue[n] \in Ids /\ Used(queue[n]) BY <1>0 DEF Typed, QueueOK
  <2>3. \A n \in DOMAIN queue' : queue'[n] \in Ids /\ Used(queue'[n])
    <3>1. I \subseteq Ids OBVIOUS
    <3> HIDE DEF I
    <3> QED BY <1>12, <2>1, <2>2, <3>1
  <2>4. \A n \in DOMAIN queue' : Used(queue[n])' BY <2>3, <1>15 DEF Stay, Used
  <2>5. \A r \in Requesters :
         /\ requester'[r].step = "recorded" =>
               /\ requester'[r].op \in Ids /\ Used(requester[r].op)'
               /\ ops'[requester'[r].op].kind = requester'[r].kind
         /\ requester'[r].step = "checked" => requester'[r].kind \in Known
    BY <1>0, <1>1, <1>15 DEF QueueOK, Stay, Used
  <2> QED BY <1>12, <2>4, <2>5 DEF QueueOK
<1>18. ClosingOK'
  <2>1. \A r \in Requesters : ~Closing(r) /\ requester[r].step # "challenged"
    BY <1>0, <1>2 DEF ClosingOK
  <2>2. \A i \in Ids : Held(i)' => Held(i) \/ Unfinished(i)
    BY <1>1, <1>12 DEF Held, Unfinished
  <2>3. \A i \in Ids : Unfinished(i)' => Unfinished(i) BY <1>13 DEF Unfinished
  <2>4. \A i \in Ids : Pursued(i)' => Pursued(i) BY <2>2, <2>3, <1>14 DEF Pursued
  <2> QED BY <2>1, <2>4, <1>0, <1>1 DEF ClosingOK, Closing
<1>19. RecordsOK' BY <1>0, <1>1, <1>15, RecordsFrame
<1>20. WorkerOK' BY <1>0, <1>1, <1>15, WorkerFrame
<1>21. WindowOK' BY <1>0, <1>1, <1>15, WindowFrame
<1>22. ArtifactsOK' BY <1>0, <1>1, SafeFrame, ArtifactsFrame
<1>23. DeletedOK' BY <1>0, <1>1, <1>15, DeletedFrame
<1> QED BY <1>15, <1>16, <1>17, <1>18, <1>19, <1>20, <1>21, <1>22, <1>23 DEF IInv

----------------------------------------------------------------------------
(* The theorems *)

\* The invariant holds when the control plane is first started.
LEMMA InitKeeps == Init => IInv
<1> SUFFICES ASSUME Init PROVE IInv OBVIOUS
<1>1. /\ tenant = [status |-> "active", restored |-> 0, drills |-> << >>,
                   records |-> [l \in Lists |-> << >>]]
      /\ ops = [i \in Ids |-> IF i <= History THEN Past ELSE NoOp]
      /\ files = {} /\ queue = << >> /\ worker = Waiting /\ doomed = {} /\ requeued = TRUE
      /\ requester = [r \in Requesters |-> NoRequest]
      /\ cache = 0 /\ accepting = TRUE /\ maintenance = FALSE
      /\ client = [c \in Clients |-> "idle"] /\ faults = 0 /\ crashes = 0
  BY DEF Init
<1>2. /\ tenant.status = "active" /\ tenant.drills = << >>
      /\ tenant.records = [l \in Lists |-> << >>]
  BY <1>1
<1>3. tenant \in TenantType
  <2>1. [l \in Lists |-> << >>] \in [Lists -> Seq(File)] /\ << >> \in Seq(Ids) OBVIOUS
  <2> QED BY <1>1, <2>1, LimitsArePositive DEF TenantType
<1>4. /\ Past \in OpType /\ Past.status = "failed" /\ Past.kind = "data_export"
      /\ NoOp \in OpType /\ NoOp.status = "none" /\ NoOp.kind = "none"
  <2>1. NoFile \in File BY LimitsArePositive DEF NoFile, File, Contained
  <2>2. Past = [kind |-> "data_export", arg |-> NoFile, status |-> "failed"]
    <3>1. NoOp = [kind |-> "none", arg |-> NoFile, status |-> "none"] BY DEF NoOp
    <3>2. Past = [NoOp EXCEPT !.kind = "data_export", !.status = "failed"] BY DEF Past
    <3> QED BY <3>1, <3>2
  <2> QED BY <2>1, <2>2 DEF NoOp, OpType, Known, Archiving
<1>5. worker.step = "waiting" /\ worker \in WorkerType BY <1>1, WaitingIs
<1>6. requester \in [Requesters -> RequestType] /\ \A r \in Requesters : requester[r].step = "idle"
  BY <1>1, WaitingIs
<1>7. Typed
  <2>1. IsFiniteSet({}) BY FS_EmptySet
  <2>2. ops \in [Ids -> OpType] BY <1>1, <1>4
  <2>3. queue \in Seq(Ids) /\ client \in [Clients -> {"idle", "active"}] BY <1>1
  <2>4. cache \in Contained /\ faults \in 0 .. MaxFaults /\ crashes \in 0 .. MaxCrashes
    BY <1>1, LimitsArePositive DEF Contained
  <2>5. accepting \in BOOLEAN /\ maintenance \in BOOLEAN /\ requeued \in BOOLEAN BY <1>1
  <2>6. files \in SUBSET File /\ IsFiniteSet(files) /\ doomed \in SUBSET File /\ IsFiniteSet(doomed)
    BY <1>1, <2>1
  <2> QED BY <2>2, <2>3, <2>4, <2>5, <2>6, <1>3, <1>5, <1>6 DEF Typed
<1>8. \A i \in Ids : Used(i) <=> i <= History BY <1>1, <1>4 DEF Used
<1>9. OpsOK
  <2>1. History \in Nat /\ MaxRequests \in Nat /\ MaxOperations \in Nat /\ History <= MaxOperations
    BY LimitsArePositive
  <2>2. \E n \in 0 .. MaxRequests : \A i \in Ids : Used(i) <=> i <= n
    <3>1. CASE History <= MaxRequests BY <3>1, <2>1, <1>8
    <3>2. CASE ~(History <= MaxRequests)
      <4>1. \A i \in Ids : Used(i) /\ i <= MaxRequests BY <3>2, <2>1, <1>8 DEF Ids
      <4> QED BY <4>1, <2>1
    <3> QED BY <3>1, <3>2
  <2>3. \A i \in Ids : IF Used(i) THEN ops[i].kind \in Known ELSE ops[i].kind = "none"
    BY <1>1, <1>4, <1>8 DEF Known, Archiving
  <2>4. Cardinality(Live) <= MaxOperations
    <3>1. Live \subseteq 1 .. History BY <1>8, <2>1 DEF Live, Used, Ids
    <3>2. IsFiniteSet(1 .. History) /\ Cardinality(1 .. History) = History BY <2>1, FS_Interval
    <3>3. Cardinality(Live) <= History BY <3>1, <3>2, FS_Subset
    <3>4. Cardinality(Live) \in Nat BY LiveFinite, FS_CardinalityType
    <3> QED BY <3>3, <3>4, <2>1
  <2> QED BY <2>2, <2>3, <2>4 DEF OpsOK
<1>10. \A i \in Ids : ~Deletion(i) BY <1>1, <1>4 DEF Deletion
<1>11. QueueOK /\ ClosingOK
  <2>1. Len(queue) = 0 /\ DOMAIN queue = {} BY <1>1
  <2> QED BY <2>1, <1>1, <1>6, <1>10, LimitsArePositive DEF QueueOK, ClosingOK, Closing, Pursued
<1>12. WorkerOK /\ WindowOK BY <1>5 DEF WorkerOK, WindowOK, RestoreIsAtomic, At
<1>13. \A l \in Lists : Len(tenant.records[l]) = 0 /\ DOMAIN tenant.records[l] = {} BY <1>2
<1>14. OneRecordEach BY <1>2, <1>13, OneRecordEachIs
<1>15. RecordsOK BY <1>13, <1>14, LimitsArePositive DEF RecordsOK
<1>16. ArtifactsOK BY <1>1, <1>5, <1>13, RecordedIs DEF ArtifactsOK
<1>17. DeletedOK BY <1>2 DEF DeletedOK
<1> QED BY <1>7, <1>9, <1>11, <1>12, <1>15, <1>16, <1>17 DEF IInv

\* The worker's steps.
LEMMA WorkKeeps == ASSUME IInv, Work PROVE IInv'
BY SkipKeeps, TakeKeeps, BreakKeeps, ArchiveKeeps, RecordArtifactKeeps, TrimKeeps,
   ValidationKeeps, DrillKeeps, BeginRestoreKeeps, DrainKeeps, FlushKeeps,
   RestoreEntriesKeeps, ResumeKeeps, RecordRestoreKeeps, EraseKeeps, BuryKeeps,
   BuryFailsKeeps, SucceedKeeps, FailKeeps
   DEF Work

\* Nothing happens: nothing is lost.
LEMMA StutterKeeps == ASSUME IInv, UNCHANGED vars PROVE IInv'
<1>0. Typed /\ WindowOK /\ WorkerOK /\ ArtifactsOK /\ DeletedOK BY DEF IInv
<1>1. UNCHANGED <<tenant, ops, files, queue, requester, doomed, requeued, worker, cache, client,
                  accepting, maintenance, faults, crashes>>
  BY DEF vars, durable, plane, threads
<1>2. Typed' BY <1>0, <1>1 DEF Typed
<1>3. Stay /\ OpsOK' /\ QueueOK' /\ ClosingOK' /\ RecordsOK' /\ WorkerOK' BY <1>1, DurableFrame
<1>4. WindowOK' BY <1>0, <1>1, <1>3, WindowFrame
<1>5. ArtifactsOK' BY <1>0, <1>1 DEF ArtifactsOK, Recorded, Safe, Closing
<1>6. DeletedOK' BY <1>0, <1>1, <1>3, DeletedFrame
<1> QED BY <1>2, <1>3, <1>4, <1>5, <1>6 DEF IInv

\* The invariant the proofs below rest on: the operations of the state file, the
\* queue and the worker's step fit each other, only one request closes the tenant,
\* the maintenance window keeps requests out, and no artifact of a record is about
\* to be removed, through every crash and restart.
THEOREM ControlInvariant == Spec => []IInv
<1>1. Init => IInv BY InitKeeps
<1>2. IInv /\ [Next]_vars => IInv'
  <2> SUFFICES ASSUME IInv, [Next]_vars PROVE IInv' OBVIOUS
  <2>1. CASE UNCHANGED vars BY <2>1, StutterKeeps
  <2>2. ASSUME NEW c \in Clients, Admit(c) \/ Finish(c) PROVE IInv'
    BY <2>2, AdmitKeeps, FinishKeeps
  <2>3. ASSUME NEW r \in Requesters,
               \/ \E kind \in Kinds :
                    \E arg \in ToSet(tenant.records["backups"]) \cup {NoFile} : Check(r, kind, arg)
               \/ IssueChallenge(r) \/ RejectChallenge(r) \/ MarkPending(r) \/ Record(r)
               \/ Repeat(r) \/ Put(r) \/ PutFull(r) \/ Refuse(r)
        PROVE  IInv'
    BY <2>3, CheckKeeps, ChallengeKeeps, MarkPendingKeeps, RecordKeeps, PutFullKeeps, RefuseKeeps
  <2>4. CASE Retain \/ RemoveDoomed \/ Work \/ Restart \/ Requeue
    BY <2>4, RetainKeeps, RemoveDoomedKeeps, WorkKeeps, RestartKeeps, RequeueKeeps
  <2> QED BY <2>1, <2>2, <2>3, <2>4 DEF Next
<1> QED BY <1>1, <1>2, PTL DEF Spec

\* Unless the tenant is being deleted every record has its artifact, whichever of
\* the worker, retention and the clean-up at start has removed artifacts, and
\* however often it crashed between an artifact and its record.
THEOREM RecordsKeepArtifacts == Spec => []RecordsHaveArtifacts
<1>1. IInv => RecordsHaveArtifacts
  <2> SUFFICES ASSUME IInv PROVE RecordsHaveArtifacts OBVIOUS
  <2>1. Typed /\ OpsOK /\ QueueOK /\ ClosingOK /\ RecordsOK /\ ArtifactsOK BY DEF IInv
  <2>2. ToSet(queue) \subseteq Ids BY <2>1, ElementsFinite DEF Typed
  <2>3. \A i \in Ids : ops[i].status \in
            {"none", "pending", "running", "succeeded", "failed", "pruned"}
    BY <2>1 DEF Typed, OpType
  <2>4. /\ tenant.status \in {"active", "deletion_pending", "suspended", "deleted"}
        /\ tenant.restored \in 0 .. MaxRequests
    BY <2>1 DEF Typed, TenantType
  <2>5. cache \in Values \cup {0} /\ {accepting, maintenance, requeued} \subseteq BOOLEAN
    BY <2>1 DEF Typed, Contained
  <2>6. faults \in 0 .. MaxFaults /\ crashes \in 0 .. MaxCrashes BY <2>1 DEF Typed
  <2>7. TypeOK BY <2>1, <2>2, <2>3, <2>4, <2>5, <2>6 DEF TypeOK, RecordsOK, OpsOK, QueueOK
  <2>8. tenant.status \in {"active", "deleted"} => Recorded \subseteq files
    BY <2>1 DEF Safe, ArtifactsOK
  <2>9. OneRecordEach BY <2>1 DEF RecordsOK
  <2> QED BY <2>7, <2>8, <2>9 DEF RecordsHaveArtifacts
<1> QED BY <1>1, ControlInvariant, PTL

\* An operation that runs again, after a crash or because it was queued twice,
\* leaves one record of its work: a handler looks for its record before it starts.
THEOREM RerunsLeaveOneRecord == Spec => []OneRecordEach
<1>1. IInv => OneRecordEach BY DEF IInv, RecordsOK
<1> QED BY <1>1, ControlInvariant, PTL

\* A deleted tenant has no value left in its cache or in an artifact, whatever was
\* requested, admitted or under way before: the door is shut before the cache is
\* emptied, and an operation that comes later finds nothing to archive or restore.
THEOREM DeletionIsForGood == Spec => []DeletedHoldsNothing
<1>1. IInv => DeletedHoldsNothing BY DEF IInv, DeletedOK, DeletedHoldsNothing
<1> QED BY <1>1, ControlInvariant, PTL

\* A restore that succeeds ends its window with what the backup held, one that fails with
\* what was there before, unless its rollback fails too; begin_maintenance lets nobody in
\* and waits for those who are.
THEOREM RestoresAreAtomic == Spec => []RestoreIsAtomic
<1>1. IInv => RestoreIsAtomic BY DEF IInv, WindowOK
<1> QED BY <1>1, ControlInvariant, PTL

\* What a step makes of the tenant's status: only whoever has closed the tenant
\* opens it, and only while the deletion is in nobody's hands.
LEMMA StatusStep ==
  ASSUME IInv, [Next]_vars
  PROVE  /\ tenant.status = "deleted" => tenant'.status = "deleted"
         /\ tenant.status = "suspended" => tenant'.status # "active"
<1>0. Typed /\ ClosingOK /\ WorkerOK BY DEF IInv
<1>1. tenant \in TenantType BY <1>0 DEF Typed
<1>2. CASE UNCHANGED tenant BY <1>2
<1>3. ASSUME NEW r \in Requesters, MarkPending(r) PROVE tenant.status = "active"
  BY <1>3 DEF MarkPending
<1>4. ASSUME NEW r \in Requesters, PutFull(r) \/ Refuse(r)
      PROVE  UNCHANGED tenant \/ tenant.status = "deletion_pending"
  <2>1. UNCHANGED tenant \/ Closing(r) BY <1>4 DEF PutFull, Refuse, Closing
  <2> QED BY <2>1, <1>0 DEF ClosingOK
<1>5. CASE Retain \/ RecordArtifact \/ Drill \/ RecordRestore
  BY <1>1, <1>5 DEF Retain, RecordArtifact, Drill, RecordRestore, TenantType
<1>6. CASE Bury BY <1>1, <1>6 DEF Bury, TenantType
<1>7. CASE Fail \/ Die
  <2>1. worker.op \in Ids /\ tenant' \in {tenant, Suspended}
    BY <1>0, <1>7 DEF Fail, Die, At, WorkerOK
  <2> QED BY <2>1, SuspendedIs
<1>8. CASE Restart BY <1>1, <1>8 DEF Restart, Loaded, TenantType
<1>9. ASSUME NEW r \in Requesters,
             \/ \E kind \in Kinds :
                  \E arg \in ToSet(tenant.records["backups"]) \cup {NoFile} : Check(r, kind, arg)
             \/ IssueChallenge(r) \/ RejectChallenge(r) \/ Record(r) \/ Repeat(r) \/ Put(r)
      PROVE  UNCHANGED tenant
  BY <1>9 DEF Check, IssueChallenge, RejectChallenge, Record, Repeat, Put, durable
<1>10. ASSUME NEW c \in Clients, Admit(c) \/ Finish(c) PROVE UNCHANGED tenant
  BY <1>10 DEF Admit, Finish, durable
<1>11. CASE \/ Skip \/ Take \/ Break \/ Archive \/ Trim \/ RejectBackup \/ ValidateRestore
            \/ BeginRestore \/ Drain \/ Flush \/ RestoreEntries \/ Undo \/ Resume \/ Erase \/ BuryFails
            \/ Succeed \/ SucceedUnaudited
  BY <1>2, <1>11 DEF Skip, Take, Break, Archive, Trim, RejectBackup, ValidateRestore,
     BeginRestore, Drain, Flush, RestoreEntries, Undo, Resume, Erase, BuryFails, Succeed,
     SucceedUnaudited, durable
<1>12. CASE RemoveDoomed \/ Requeue \/ UNCHANGED vars
  BY <1>2, <1>12 DEF RemoveDoomed, Requeue, vars, durable
<1>13. CASE Work BY <1>5, <1>6, <1>7, <1>11, <1>13 DEF Work
<1>14. ASSUME NEW r \in Requesters,
              \/ \E kind \in Kinds :
                   \E arg \in ToSet(tenant.records["backups"]) \cup {NoFile} : Check(r, kind, arg)
              \/ IssueChallenge(r) \/ RejectChallenge(r) \/ MarkPending(r) \/ Record(r)
              \/ Repeat(r) \/ Put(r) \/ PutFull(r) \/ Refuse(r)
       PROVE  UNCHANGED tenant \/ tenant.status \in {"active", "deletion_pending"}
  BY <1>14, <1>3, <1>4, <1>9
<1> QED BY <1>2, <1>5, <1>8, <1>10, <1>12, <1>13, <1>14 DEF Next

\* A deleted tenant stays deleted and one whose deletion failed half-way is never
\* opened again: request_tenant_deletion opens the tenant only when its operation
\* cannot be recorded or queued, and then no deletion is or will be at work.
THEOREM DeletionsStayFinal == Spec => DeletionIsFinal
<1>1. IInv /\ [Next]_vars =>
        [/\ tenant.status = "deleted" => tenant'.status = "deleted"
         /\ tenant.status = "suspended" => tenant'.status # "active"]_vars
  BY StatusStep
<1> QED BY <1>1, ControlInvariant, PTL DEF Spec, DeletionIsFinal

=============================================================================
