------------------------- MODULE OriginRuntimeProofs -------------------------
(***************************************************************************)
(* Proofs about OriginRuntime for any number of requests, any limits and   *)
(* any policy: the budgets count exactly, no wakeup is lost, and, unless a *)
(* transport raises an exception of no known class, a half-open breaker    *)
(* never waits for a probe that nobody makes.                              *)
(***************************************************************************)
EXTENDS OriginRuntime, FiniteSetTheorems, TLAPS

Holders(b) == {r \in Requests : b \in Held(r)}

Probing == {r \in Requests : request[r].probe}

\* A budget's waiters are requests at its step, each asleep or on its way, and
\* a closed budget lets nobody sleep.
WaitersWait ==
    \A b \in Budgets :
        /\ \A r \in Waiting(b) : At(r, b)
        /\ budget[b].asleep \cap budget[b].notified = {}
        /\ budget[b].closed => budget[b].asleep = {}

\* A request about to try has an attempt left; one that is idle has none behind it.
AttemptsLeft ==
    \A r \in Requests :
        /\ At(r, "idle") => request[r].attempts = 0
        /\ request[r].step \in {"attempt", "backoff"} => request[r].attempts <= RetryAttempts

\* A probe belongs to a request between its permission and its answer.
ProbesAreUnderway ==
    \A r \in Requests : request[r].probe => request[r].step \in {"global", "origin", "sending"}

IInv == BudgetExact /\ NoLostWakeup /\ WaitersWait /\ AttemptsLeft /\ ProbesAreUnderway

----------------------------------------------------------------------------
(* Counting *)

\* A set that one element joins or leaves, or neither.
LEMMA CountOne ==
    ASSUME NEW S, IsFiniteSet(S), NEW T, NEW x,
           \A y : y # x => (y \in T <=> y \in S)
    PROVE  /\ IsFiniteSet(T) /\ Cardinality(S) \in Nat /\ Cardinality(T) \in Nat
           /\ (x \in S <=> x \in T) => Cardinality(T) = Cardinality(S)
           /\ x \in S /\ x \notin T => Cardinality(T) = Cardinality(S) - 1
           /\ x \notin S /\ x \in T => Cardinality(T) = Cardinality(S) + 1
<1>0. Cardinality(S) \in Nat
  BY FS_CardinalityType
<1>1. CASE x \in S <=> x \in T
  <2>1. S = T
    BY <1>1
  <2> QED
    BY <1>0, <1>1, <2>1
<1>2. CASE x \in S /\ x \notin T
  <2>1. T = S \ {x}
    BY <1>2
  <2>2. IsFiniteSet(T) /\ Cardinality(T) = Cardinality(S) - 1
    BY <1>2, <2>1, FS_RemoveElement
  <2> QED
    BY <1>0, <1>2, <2>2, FS_CardinalityType
<1>3. CASE x \notin S /\ x \in T
  <2>1. T = S \cup {x}
    BY <1>3
  <2>2. IsFiniteSet(T) /\ Cardinality(T) = Cardinality(S) + 1
    BY <1>3, <2>1, FS_AddElement
  <2> QED
    BY <1>0, <1>3, <2>2, FS_CardinalityType
<1> QED
  BY <1>1, <1>2, <1>3

\* The part of a finite set that satisfies a condition is finite.
LEMMA RequestSets ==
    ASSUME NEW S, S \subseteq Requests
    PROVE  IsFiniteSet(S) /\ Cardinality(S) \in Nat
BY RequestsAreFinite, FS_Subset, FS_CardinalityType

\* What one request's step does to the number of slots that are held.
LEMMA OneRequestMoves ==
    ASSUME NEW r \in Requests, \A q \in Requests \ {r} : request'[q] = request[q],
           NEW b \in Budgets
    PROVE  /\ Cardinality(Holders(b)) \in Nat /\ Cardinality(Holders(b)') \in Nat
           /\ (b \in Held(r) <=> b \in Held(r)') =>
                 Cardinality(Holders(b)') = Cardinality(Holders(b))
           /\ b \in Held(r) /\ b \notin Held(r)' =>
                 Cardinality(Holders(b)') = Cardinality(Holders(b)) - 1
           /\ b \notin Held(r) /\ b \in Held(r)' =>
                 Cardinality(Holders(b)') = Cardinality(Holders(b)) + 1
<1>1. ASSUME NEW q \in Requests \ {r}
      PROVE  b \in Held(q) <=> b \in Held(q)'
  BY <1>1 DEF Held, At
<1>2. \A y : y # r => (y \in Holders(b)' <=> y \in Holders(b))
  BY <1>1 DEF Holders
<1>3. /\ r \in Holders(b) <=> b \in Held(r)
      /\ r \in Holders(b)' <=> b \in Held(r)'
  BY DEF Holders
<1>4. IsFiniteSet(Holders(b))
  BY RequestSets DEF Holders
<1> HIDE DEF Holders, Held
<1> QED
  BY <1>2, <1>3, <1>4, CountOne
----------------------------------------------------------------------------
(* Every step keeps the invariant *)

\* The budgets as the proofs use them: exact counts, within their limits.
LEMMA BudgetsCount ==
    BudgetExact <=>
        /\ TypeOK
        /\ \A b \in Budgets :
              /\ budget[b].active = Cardinality(Holders(b))
              /\ budget[b].active <= Maximum[b]
              /\ Cardinality(Waiting(b)) <= MaximumQueue[b]
BY DEF BudgetExact, Holders

\* Nothing has begun at first.
LEMMA InitIInv == Init => IInv
<1> SUFFICES ASSUME Init PROVE IInv
  OBVIOUS
<1> USE BudgetsAreLimited, PolicyIsPositive
<1>1. TypeOK
  <2>1. 0 \in 0..FailureThreshold /\ 0 \in 0..HalfOpenRequests
        /\ RetryCapacity \in 0..RetryCapacity /\ 0 \in 0..RetryAttempts + 1
    OBVIOUS
  <2>2. \A b \in Budgets : budget[b] \in [active : Int, closed : BOOLEAN,
                              asleep : SUBSET Requests, notified : SUBSET Requests]
    BY DEF Init
  <2>3. budget \in [Budgets -> [active : Int, closed : BOOLEAN,
                        asleep : SUBSET Requests, notified : SUBSET Requests]]
    BY <2>2 DEF Init
  <2> QED
    BY <2>1, <2>3 DEF Init, TypeOK, Idle
<1>2. \A b \in Budgets : Holders(b) = {} /\ Waiting(b) = {}
  BY DEF Init, Holders, Held, At, Idle, Waiting, Budgets
<1>3. BudgetExact
  <2>1. \A b \in Budgets : budget[b].active = 0 /\ Maximum[b] >= 0 /\ MaximumQueue[b] >= 0
    BY DEF Init
  <2> QED
    BY <1>1, <1>2, <2>1, FS_EmptySet, BudgetsCount
<1>4. NoLostWakeup /\ WaitersWait /\ AttemptsLeft /\ ProbesAreUnderway
  BY DEF Init, NoLostWakeup, WaitersWait, AttemptsLeft, ProbesAreUnderway, Idle, At, Waiting
<1> QED
  BY <1>3, <1>4 DEF IInv

\* A step of a request that moves no slot and no waiter.
LEMMA QuietStep ==
    ASSUME IInv, NEW r \in Requests, UNCHANGED budget, TypeOK',
           \A q \in Requests \ {r} : request'[q] = request[q],
           Held(r)' = Held(r),
           \A b \in Budgets : At(r, b) => request'[r].step = request[r].step
    PROVE  BudgetExact' /\ NoLostWakeup' /\ WaitersWait'
<1>1. \A b \in Budgets : Cardinality(Holders(b)') = Cardinality(Holders(b))
  BY OneRequestMoves
<1>2. BudgetExact'
  <2>1. \A b \in Budgets : Waiting(b)' = Waiting(b)
    BY DEF Waiting
  <2>2. /\ TypeOK'
        /\ \A b \in Budgets : /\ budget'[b].active = Cardinality(Holders(b)')
                               /\ budget'[b].active <= Maximum[b]
                               /\ Cardinality(Waiting(b)') <= MaximumQueue[b]
    BY <1>1, <2>1, BudgetsCount DEF IInv
  <2> QED
    BY <2>2 DEF BudgetExact, Holders
<1>3. NoLostWakeup'
  BY DEF IInv, NoLostWakeup
<1>4. WaitersWait'
  <2>1. ASSUME NEW b \in Budgets, NEW q \in Waiting(b)
        PROVE  At(q, b)'
    <3>1. q \in Requests /\ At(q, b)
      BY <2>1 DEF IInv, BudgetExact, TypeOK, WaitersWait, Waiting
    <3> QED
      BY <3>1 DEF At
  <2> QED
    BY <2>1 DEF IInv, WaitersWait, Waiting
<1> QED
  BY <1>2, <1>3, <1>4

BreakerType == [state : {"closed", "open", "half_open"}, failures : 0..FailureThreshold,
                active : 0..HalfOpenRequests]

RequestType == [step : Budgets \cup {"idle", "attempt", "sending", "releasing", "backoff"},
                probe : BOOLEAN, attempts : 0..RetryAttempts + 1,
                fate : {"none", "shed", "answered", "failed", "raised"}]

\* An idle request is a request.
LEMMA IdleType == Idle \in RequestType
<1>1. 0 \in 0..RetryAttempts + 1
  BY PolicyIsPositive
<1> QED
  BY <1>1, PolicyIsPositive DEF Idle, RequestType

\* Looking at the breaker opens at most a half-open period.
LEMMA ProbedType ==
    ASSUME breaker \in BreakerType, NEW over \in BOOLEAN
    PROVE  Probed(over) \in BreakerType
<1>1. 0 \in 0..HalfOpenRequests
  BY PolicyIsPositive
<1>2. [breaker EXCEPT !.state = "half_open"] \in BreakerType
  BY DEF BreakerType
<1>3. [breaker EXCEPT !.state = "half_open", !.active = 0] \in BreakerType
  BY <1>1, <1>2 DEF BreakerType
<1> QED
  BY <1>3 DEF Probed

\* A refused, a permitted, a beginning or a resting request holds no slot.
LEMMA LoopIInv ==
    ASSUME IInv, NEW r \in Requests,
           \/ Begin(r) \/ Backoff(r)
           \/ \E over \in BOOLEAN : Refused(r, over) \/ Allowed(r, over)
    PROVE  IInv'
<1> USE PolicyIsPositive DEF IInv, BudgetExact, At
<1>1. CASE Begin(r)
  <2>1. TypeOK'
    BY <1>1 DEF Begin, TypeOK
  <2>2. \A q \in Requests \ {r} : request'[q] = request[q]
    BY <1>1 DEF Begin, TypeOK
  <2>3. request[r].step = "idle" /\ request'[r] = [request[r] EXCEPT !.step = "attempt"]
    BY <1>1 DEF Begin, TypeOK
  <2>4. BudgetExact' /\ NoLostWakeup' /\ WaitersWait'
    BY <1>1, <2>1, <2>2, <2>3, QuietStep DEF Begin, Held, Budgets, TypeOK
  <2>5. AttemptsLeft' /\ ProbesAreUnderway'
    BY <2>2, <2>3 DEF AttemptsLeft, ProbesAreUnderway, TypeOK
  <2> QED
    BY <2>4, <2>5
<1>2. CASE Backoff(r)
  <2>1. TypeOK'
    BY <1>2 DEF Backoff, TypeOK, Idle
  <2>2. \A q \in Requests \ {r} : request'[q] = request[q]
    BY <1>2 DEF Backoff, TypeOK
  <2>3. /\ request[r].step = "backoff"
        /\ request'[r] = IF closed THEN Idle ELSE [request[r] EXCEPT !.step = "attempt"]
    BY <1>2 DEF Backoff, TypeOK
  <2>4. BudgetExact' /\ NoLostWakeup' /\ WaitersWait'
    BY <1>2, <2>1, <2>2, <2>3, QuietStep DEF Backoff, Held, Budgets, TypeOK, Idle
  <2>5. AttemptsLeft' /\ ProbesAreUnderway'
    BY <2>2, <2>3 DEF AttemptsLeft, ProbesAreUnderway, TypeOK, Idle
  <2> QED
    BY <2>4, <2>5
<1>3. ASSUME NEW over \in BOOLEAN, Refused(r, over) PROVE IInv'
  <2>1. TypeOK'
    <3>1. breaker' \in BreakerType
      BY <1>3, ProbedType DEF Refused, BreakerType, TypeOK
    <3> QED
      BY <1>3, <3>1, IdleType DEF Refused, TypeOK, BreakerType, RequestType
  <2>2. \A q \in Requests \ {r} : request'[q] = request[q]
    BY <1>3 DEF Refused, TypeOK
  <2>3. request[r].step = "attempt" /\ request'[r] = Idle
    BY <1>3 DEF Refused, TypeOK
  <2>4. BudgetExact' /\ NoLostWakeup' /\ WaitersWait'
    BY <1>3, <2>1, <2>2, <2>3, QuietStep DEF Refused, Held, Budgets, TypeOK, Idle
  <2>5. AttemptsLeft' /\ ProbesAreUnderway'
    BY <2>2, <2>3 DEF AttemptsLeft, ProbesAreUnderway, TypeOK, Idle
  <2> QED
    BY <2>4, <2>5
<1>4. ASSUME NEW over \in BOOLEAN, Allowed(r, over) PROVE IInv'
  <2> DEFINE probed == Probed(over)
             probe == probed.state = "half_open"
  <2>a. /\ request[r].step = "attempt" /\ UNCHANGED <<budget, tokens, closed>>
        /\ probed.state # "open" /\ (probe => probed.active < HalfOpenRequests)
        /\ breaker' = IF probe THEN [probed EXCEPT !.active = probed.active + 1] ELSE probed
        /\ request' = [request EXCEPT ![r].step = "global", ![r].probe = probe,
                                      ![r].attempts = request[r].attempts + 1]
    BY <1>4 DEF Allowed
  <2>b. probed \in BreakerType
    BY ProbedType DEF BreakerType, TypeOK
  <2> HIDE DEF probed
  <2>c. probe \in BOOLEAN /\ request[r].attempts + 1 \in 0..RetryAttempts + 1
    BY <2>a DEF AttemptsLeft, TypeOK
  <2>d. breaker' \in BreakerType
    BY <2>a, <2>b DEF BreakerType
  <2> HIDE DEF probe
  <2>1. TypeOK'
    BY <2>a, <2>c, <2>d DEF TypeOK, Budgets, BreakerType
  <2>2. \A q \in Requests \ {r} : request'[q] = request[q]
    BY <2>a DEF TypeOK
  <2>3. request[r].step = "attempt" /\ request'[r].step = "global"
    BY <2>a DEF TypeOK
  <2>4. BudgetExact' /\ NoLostWakeup' /\ WaitersWait'
    BY <2>a, <2>1, <2>2, <2>3, QuietStep DEF Held, Budgets, TypeOK
  <2>5. AttemptsLeft' /\ ProbesAreUnderway'
    BY <2>a, <2>2, <2>3 DEF AttemptsLeft, ProbesAreUnderway, TypeOK
  <2> QED
    BY <2>4, <2>5
<1> QED
  BY <1>1, <1>2, <1>3, <1>4

\* Ending a probe leaves the breaker a breaker.
LEMMA BreakerSteps ==
    ASSUME breaker \in BreakerType, NEW probe \in BOOLEAN
    PROVE  /\ CancelProbe(probe) \in BreakerType
           /\ Success(probe) \in BreakerType
           /\ Failure(probe) \in BreakerType
<1>1. Freed(probe) \in 0..HalfOpenRequests
  BY PolicyIsPositive DEF Freed, BreakerType
<1>2. CancelProbe(probe) \in BreakerType
  BY <1>1 DEF CancelProbe, BreakerType
<1>3. Success(probe) \in BreakerType
  BY <1>1, PolicyIsPositive DEF Success, BreakerType
<1>4. Failure(probe) \in BreakerType
  <2> DEFINE failures == IF breaker.failures < FailureThreshold THEN breaker.failures + 1
                                                             ELSE breaker.failures
             opens == probe \/ failures >= FailureThreshold
  <2>1. failures \in 0..FailureThreshold
    BY PolicyIsPositive DEF BreakerType
  <2>2. Failure(probe) = [state |-> IF opens THEN "open" ELSE breaker.state,
                          failures |-> failures, active |-> Freed(probe)]
    BY DEF Failure
  <2> HIDE DEF failures
  <2>3. (IF opens THEN "open" ELSE breaker.state) \in {"closed", "open", "half_open"}
    BY DEF BreakerType
  <2> HIDE DEF opens
  <2> QED
    BY <1>1, <2>1, <2>2, <2>3 DEF BreakerType
<1> QED
  BY <1>2, <1>3, <1>4

\* A request shed at a budget keeps what it held until it is released.
LEMMA ShedStep ==
    ASSUME IInv, NEW r \in Requests, NEW b \in Budgets, At(r, b), Shed(r, b)
    PROVE  /\ breaker' \in BreakerType /\ request' \in [Requests -> RequestType]
           /\ \A q \in Requests \ {r} : request'[q] = request[q]
           /\ \A c \in Budgets : Cardinality(Holders(c)') = Cardinality(Holders(c))
           /\ AttemptsLeft' /\ ProbesAreUnderway'
<1> USE DEF IInv, BudgetExact
<1>1. breaker' \in BreakerType
  BY BreakerSteps DEF Shed, TypeOK, BreakerType
<1>2. request'[r] = IF b = "global" THEN Idle
                    ELSE [request[r] EXCEPT !.step = "releasing", !.fate = "shed", !.probe = FALSE]
  BY DEF Shed, TypeOK
<1>3. request' \in [Requests -> RequestType]
  BY IdleType DEF Shed, TypeOK, RequestType
<1>4. \A q \in Requests \ {r} : request'[q] = request[q]
  BY DEF Shed, TypeOK
<1>5. Held(r)' = Held(r)
  BY <1>2 DEF Held, At, TypeOK, Idle, Budgets
<1>6. \A c \in Budgets : Cardinality(Holders(c)') = Cardinality(Holders(c))
  BY <1>4, <1>5, OneRequestMoves
<1>7. AttemptsLeft' /\ ProbesAreUnderway'
  <2>1. /\ request'[r].probe = FALSE
        /\ request'[r] = Idle \/ request'[r].step = "releasing"
    BY <1>2 DEF Idle, TypeOK
  <2>2. /\ request'[r].step = "idle" => request'[r].attempts = 0
        /\ request'[r].step \notin {"attempt", "backoff"}
    BY <2>1 DEF Idle
  <2> QED
    BY <1>4, <2>1, <2>2 DEF AttemptsLeft, ProbesAreUnderway, At
<1> QED
  BY <1>1, <1>3, <1>4, <1>6, <1>7

\* A request admitted at a budget holds one more slot of it.
LEMMA AdmittedStep ==
    ASSUME IInv, NEW r \in Requests, NEW b \in Budgets, At(r, b), Admitted(r)
    PROVE  /\ request' \in [Requests -> RequestType]
           /\ \A q \in Requests \ {r} : request'[q] = request[q]
           /\ ~At(r, b)'
           /\ Cardinality(Holders(b)') = Cardinality(Holders(b)) + 1
           /\ \A c \in Budgets \ {b} : Cardinality(Holders(c)') = Cardinality(Holders(c))
           /\ AttemptsLeft' /\ ProbesAreUnderway'
<1> USE DEF IInv, BudgetExact
<1>1. request'[r] = [request[r] EXCEPT !.step = IF b = "global" THEN "origin" ELSE "sending"]
  BY DEF Admitted, TypeOK, At, Budgets
<1>2. request' \in [Requests -> RequestType]
  BY DEF Admitted, TypeOK, RequestType, Budgets
<1>3. \A q \in Requests \ {r} : request'[q] = request[q]
  BY DEF Admitted, TypeOK
<1>4. request[r].step = b /\ request'[r].step = IF b = "global" THEN "origin" ELSE "sending"
  BY <1>1 DEF At, TypeOK
<1>5. b \notin Held(r) /\ b \in Held(r)' /\ ~At(r, b)'
  BY <1>4 DEF Held, At, Budgets
<1>6. \A c \in Budgets \ {b} : c \in Held(r) <=> c \in Held(r)'
  BY <1>4 DEF Held, At, Budgets
<1>7. AttemptsLeft' /\ ProbesAreUnderway'
  BY <1>1, <1>3 DEF AttemptsLeft, ProbesAreUnderway, TypeOK, At, Budgets
<1> QED
  BY <1>2, <1>3, <1>5, <1>6, <1>7, OneRequestMoves

\* Entering a budget: shed, admitted, or asleep in its queue.
LEMMA AcquireIInv ==
    ASSUME IInv, NEW r \in Requests, NEW b \in Budgets, Acquire(r, b)
    PROVE  IInv'
<1> USE BudgetsAreLimited DEF IInv
<1>0. /\ At(r, b) /\ r \notin Waiting(b) /\ UNCHANGED <<tokens, closed>>
      /\ TypeOK /\ \A c \in Budgets : budget[c].active = Cardinality(Holders(c))
  BY BudgetsCount DEF Acquire
<1>w. ASSUME NEW c \in Budgets, NEW q \in Waiting(c)
      PROVE  q \in Requests \ {r} /\ At(q, c)
  BY <1>0, <1>w DEF WaitersWait, Waiting, TypeOK, At
<1>1. CASE Shed(r, b) /\ UNCHANGED budget
  <2>1. TypeOK'
    BY <1>0, <1>1, ShedStep DEF TypeOK, BreakerType, RequestType
  <2>2. \A c \in Budgets : Waiting(c)' = Waiting(c)
    BY <1>1 DEF Waiting
  <2>3. \A c \in Budgets : Cardinality(Holders(c)') = Cardinality(Holders(c))
    BY <1>0, <1>1, ShedStep
  <2>4. BudgetExact'
    BY <1>1, <2>1, <2>2, <2>3 DEF BudgetExact, Holders
  <2>5. NoLostWakeup'
    BY <1>1 DEF NoLostWakeup
  <2>6. \A q \in Requests \ {r} : request'[q] = request[q]
    BY <1>0, <1>1, ShedStep
  <2>7. WaitersWait'
    BY <1>1, <1>w, <2>2, <2>6 DEF WaitersWait, At
  <2> QED
    BY <1>0, <1>1, <2>4, <2>5, <2>7, ShedStep
<1>2. CASE /\ ~budget[b].closed /\ budget[b].active < Maximum[b]
           /\ budget' = [budget EXCEPT ![b].active = budget[b].active + 1]
           /\ Admitted(r) /\ UNCHANGED breaker
  <2>0. /\ budget'[b] = [budget[b] EXCEPT !.active = budget[b].active + 1]
        /\ \A c \in Budgets \ {b} : budget'[c] = budget[c]
    BY <1>0, <1>2 DEF TypeOK
  <2>a. budget' \in [Budgets -> [active : Int, closed : BOOLEAN,
                                 asleep : SUBSET Requests, notified : SUBSET Requests]]
    BY <1>0, <1>2 DEF TypeOK
  <2>b. request' \in [Requests -> RequestType]
    BY <1>0, <1>2, AdmittedStep
  <2>1. /\ TypeOK'
        /\ budget'[b] = [budget[b] EXCEPT !.active = budget[b].active + 1]
        /\ \A c \in Budgets \ {b} : budget'[c] = budget[c]
    BY <1>0, <1>2, <2>0, <2>a, <2>b DEF TypeOK, RequestType
  <2>2. /\ budget'[b].active = budget[b].active + 1
        /\ \A c \in Budgets : /\ budget'[c].asleep = budget[c].asleep
                               /\ budget'[c].notified = budget[c].notified
                               /\ budget'[c].closed = budget[c].closed
    BY <1>0, <2>1 DEF TypeOK
  <2>3. \A c \in Budgets : Waiting(c)' = Waiting(c)
    BY <2>2 DEF Waiting
  <2>4. \A c \in Budgets : budget'[c].active = Cardinality(Holders(c)')
    BY <1>0, <1>2, <2>1, <2>2, AdmittedStep
  <2>5. \A c \in Budgets : budget'[c].active <= Maximum[c]
    <3>1. budget[b].active + 1 <= Maximum[b]
      BY <1>0, <1>2 DEF TypeOK
    <3> QED
      BY <2>1, <2>2, <3>1 DEF BudgetExact
  <2>6. BudgetExact'
    BY <2>1, <2>3, <2>4, <2>5 DEF BudgetExact, Holders
  <2>7. NoLostWakeup'
    <3>1. \A c \in Budgets : Cardinality(budget[c].notified) \in Nat
      BY <1>0, RequestSets DEF TypeOK
    <3> QED
      BY <1>0, <2>1, <2>2, <3>1 DEF NoLostWakeup, TypeOK
  <2>8. \A q \in Requests \ {r} : request'[q] = request[q]
    BY <1>0, <1>2, AdmittedStep
  <2>9. WaitersWait'
    BY <1>w, <2>2, <2>3, <2>8 DEF WaitersWait, At
  <2> QED
    BY <1>0, <1>2, <2>6, <2>7, <2>9, AdmittedStep
<1>3. CASE /\ ~budget[b].closed /\ budget[b].active >= Maximum[b]
           /\ Cardinality(Waiting(b)) < MaximumQueue[b]
           /\ budget' = [budget EXCEPT ![b].asleep = budget[b].asleep \cup {r}]
           /\ UNCHANGED <<breaker, request>>
  <2>1. /\ TypeOK'
        /\ budget'[b] = [budget[b] EXCEPT !.asleep = budget[b].asleep \cup {r}]
        /\ \A c \in Budgets \ {b} : budget'[c] = budget[c]
    BY <1>0, <1>3 DEF TypeOK
  <2>2. /\ budget'[b].asleep = budget[b].asleep \cup {r}
        /\ \A c \in Budgets : /\ budget'[c].active = budget[c].active
                               /\ budget'[c].notified = budget[c].notified
                               /\ budget'[c].closed = budget[c].closed
    BY <1>0, <2>1 DEF TypeOK
  <2>3. /\ Waiting(b)' = Waiting(b) \cup {r}
        /\ \A c \in Budgets \ {b} : Waiting(c)' = Waiting(c)
    BY <2>1, <2>2 DEF Waiting
  <2>4. Cardinality(Waiting(b)') <= MaximumQueue[b]
    <3>1. IsFiniteSet(Waiting(b)) /\ Cardinality(Waiting(b)) \in Nat
      BY <1>0, RequestSets DEF TypeOK, Waiting
    <3>2. Cardinality(Waiting(b)') = Cardinality(Waiting(b)) + 1
      BY <1>0, <2>3, <3>1, FS_AddElement
    <3> QED
      BY <1>3, <3>1, <3>2
  <2>5. \A c \in Budgets : Holders(c)' = Holders(c)
    BY <1>3 DEF Holders, Held, At
  <2>6. BudgetExact'
    <3>1. \A c \in Budgets : /\ budget'[c].active = Cardinality(Holders(c)')
                             /\ budget'[c].active <= Maximum[c]
                             /\ Cardinality(Waiting(c)') <= MaximumQueue[c]
      BY <1>0, <2>2, <2>3, <2>4, <2>5 DEF BudgetExact
    <3> QED
      BY <2>1, <3>1 DEF BudgetExact, Holders
  <2>7. NoLostWakeup'
    <3>1. \A c \in Budgets : Cardinality(budget[c].notified) \in Nat
      BY <1>0, RequestSets DEF TypeOK
    <3> QED
      BY <1>0, <1>3, <2>1, <2>2, <3>1 DEF NoLostWakeup, TypeOK
  <2>8. WaitersWait'
    BY <1>0, <1>3, <1>w, <2>1, <2>2, <2>3 DEF WaitersWait, At, Waiting
  <2> QED
    BY <1>3, <2>6, <2>7, <2>8 DEF AttemptsLeft, ProbesAreUnderway, At
<1> QED
  BY <1>1, <1>2, <1>3 DEF Acquire

BudgetType == [active : Int, closed : BOOLEAN,
               asleep : SUBSET Requests, notified : SUBSET Requests]

\* Leaving the queue: shed at the deadline or by the shutdown, admitted, or
\* asleep again because a newcomer took the slot.
LEMMA ResumeIInv ==
    ASSUME IInv, NEW r, NEW b \in Budgets, NEW late \in BOOLEAN, Resume(r, b, late)
    PROVE  IInv'
<1> USE BudgetsAreLimited DEF IInv
<1>0. /\ TypeOK /\ UNCHANGED <<tokens, closed>>
      /\ \A c \in Budgets : budget[c].active = Cardinality(Holders(c))
      /\ budget \in [Budgets -> BudgetType]
  BY BudgetsCount DEF Resume, TypeOK, BudgetType
<1>r. r \in Waiting(b) /\ r \in Requests /\ At(r, b)
  BY <1>0 DEF Resume, Waiting, WaitersWait, BudgetType
<1> DEFINE awake == [budget[b] EXCEPT !.asleep = budget[b].asleep \ {r},
                                      !.notified = budget[b].notified \ {r}]
<1>a. /\ awake \in BudgetType /\ awake.active = budget[b].active
      /\ awake.closed = budget[b].closed
      /\ awake.asleep = budget[b].asleep \ {r} /\ awake.notified = budget[b].notified \ {r}
  BY <1>0 DEF BudgetType
<1>w. ASSUME NEW c \in Budgets, NEW q \in Waiting(c)
      PROVE  q \in Requests /\ At(q, c) /\ (c # b => q # r)
  BY <1>0, <1>r, <1>w DEF WaitersWait, Waiting, BudgetType, At
<1>n. /\ \A c \in Budgets : IsFiniteSet(budget[c].notified) /\ Cardinality(budget[c].notified) \in Nat
      /\ IsFiniteSet(Waiting(b)) /\ Cardinality(Waiting(b)) \in Nat
  BY <1>0, RequestSets DEF BudgetType, Waiting
<1>m. /\ Cardinality(budget[b].notified \ {r}) \in Nat
      /\ Cardinality(budget[b].notified \ {r}) >= Cardinality(budget[b].notified) - 1
      /\ Cardinality(Waiting(b) \ {r}) = Cardinality(Waiting(b)) - 1
  <2>1. /\ Cardinality(budget[b].notified \ {r}) \in Nat
        /\ Cardinality(budget[b].notified \ {r}) >= Cardinality(budget[b].notified) - 1
    <3>1. Cardinality(budget[b].notified \ {r}) \in Nat
      BY <1>0, RequestSets DEF BudgetType
    <3>2. \/ Cardinality(budget[b].notified \ {r}) = Cardinality(budget[b].notified) - 1
          \/ Cardinality(budget[b].notified \ {r}) = Cardinality(budget[b].notified)
      BY <1>n, FS_RemoveElement
    <3> QED
      BY <1>n, <3>1, <3>2
  <2>2. Cardinality(Waiting(b) \ {r}) = Cardinality(Waiting(b)) - 1
    BY <1>n, <1>r, FS_RemoveElement
  <2> QED
    BY <2>1, <2>2
<1>q. Cardinality(Waiting(b) \ {r}) <= MaximumQueue[b]
  <2>1. Cardinality(Waiting(b)) <= MaximumQueue[b] /\ MaximumQueue[b] \in Nat
    BY DEF BudgetExact
  <2> QED
    BY <1>n, <1>m, <2>1
<1>1. CASE /\ budget[b].closed \/ (late /\ budget[b].active >= Maximum[b])
           /\ budget' = [budget EXCEPT ![b] = awake]
           /\ Shed(r, b)
  <2>1. budget'[b] = awake /\ \A c \in Budgets \ {b} : budget'[c] = budget[c]
    BY <1>0, <1>1
  <2>2. budget' \in [Budgets -> BudgetType]
    BY <1>0, <1>1, <1>a
  <2> HIDE DEF awake
  <2>3. TypeOK'
    BY <1>0, <1>1, <1>r, <2>2, ShedStep DEF TypeOK, BreakerType, RequestType, BudgetType
  <2>4. /\ Waiting(b)' = Waiting(b) \ {r}
        /\ \A c \in Budgets \ {b} : Waiting(c)' = Waiting(c)
    BY <1>a, <2>1 DEF Waiting
  <2>5. /\ \A c \in Budgets : Cardinality(Holders(c)') = Cardinality(Holders(c))
        /\ \A q \in Requests \ {r} : request'[q] = request[q]
        /\ AttemptsLeft' /\ ProbesAreUnderway'
    BY <1>r, <1>1, ShedStep
  <2>6. \A c \in Budgets : budget'[c].active = budget[c].active
    BY <1>a, <2>1
  <2>7. \A c \in Budgets : /\ budget'[c].active = Cardinality(Holders(c)')
                           /\ budget'[c].active <= Maximum[c]
                           /\ Cardinality(Waiting(c)') <= MaximumQueue[c]
    BY <1>0, <1>q, <2>4, <2>5, <2>6 DEF BudgetExact
  <2>8. BudgetExact'
    BY <2>3, <2>7 DEF BudgetExact, Holders
  <2>9. NoLostWakeup'
    <3>1. budget'[b].asleep # {} =>
             Maximum[b] - budget'[b].active <= Cardinality(budget'[b].notified)
      <4>1. budget'[b].asleep # {} => budget[b].active >= Maximum[b]
        BY <1>1, <1>a, <2>1 DEF WaitersWait
      <4>2. budget'[b].active \in Int /\ budget'[b].active = budget[b].active
        BY <2>2, <2>6 DEF BudgetType
      <4>3. Cardinality(budget'[b].notified) \in Nat
        BY <1>a, <1>m, <2>1
      <4> QED
        BY <4>1, <4>2, <4>3
    <3> QED
      BY <2>1, <3>1 DEF NoLostWakeup
  <2>10. WaitersWait'
    BY <1>a, <1>w, <2>1, <2>4, <2>5 DEF WaitersWait, At
  <2> QED
    BY <2>5, <2>8, <2>9, <2>10
<1>2. CASE /\ ~budget[b].closed /\ budget[b].active < Maximum[b]
           /\ budget' = [budget EXCEPT ![b] = [awake EXCEPT !.active = awake.active + 1]]
           /\ Admitted(r) /\ UNCHANGED breaker
  <2> DEFINE taken == [awake EXCEPT !.active = awake.active + 1]
  <2>1. budget'[b] = taken /\ \A c \in Budgets \ {b} : budget'[c] = budget[c]
    BY <1>0, <1>2
  <2> HIDE DEF awake
  <2>a. /\ taken \in BudgetType /\ taken.active = budget[b].active + 1
        /\ taken.closed = budget[b].closed
        /\ taken.asleep = budget[b].asleep \ {r} /\ taken.notified = budget[b].notified \ {r}
    BY <1>a DEF BudgetType
  <2>2. budget' \in [Budgets -> BudgetType]
    BY <1>0, <1>2, <2>a
  <2> HIDE DEF taken
  <2>3. TypeOK'
    BY <1>0, <1>2, <1>r, <2>2, AdmittedStep DEF TypeOK, RequestType, BudgetType
  <2>4. /\ Waiting(b)' = Waiting(b) \ {r}
        /\ \A c \in Budgets \ {b} : Waiting(c)' = Waiting(c)
    BY <2>a, <2>1 DEF Waiting
  <2>5. /\ Cardinality(Holders(b)') = Cardinality(Holders(b)) + 1
        /\ \A c \in Budgets \ {b} : Cardinality(Holders(c)') = Cardinality(Holders(c))
        /\ \A q \in Requests \ {r} : request'[q] = request[q]
        /\ AttemptsLeft' /\ ProbesAreUnderway'
    BY <1>r, <1>2, AdmittedStep
  <2>6. budget'[b].active = budget[b].active + 1 /\ budget[b].active \in Int
    BY <1>0, <2>a, <2>1 DEF BudgetType
  <2>7. \A c \in Budgets : /\ budget'[c].active = Cardinality(Holders(c)')
                           /\ budget'[c].active <= Maximum[c]
                           /\ Cardinality(Waiting(c)') <= MaximumQueue[c]
    <3>1. budget[b].active + 1 <= Maximum[b]
      BY <1>2, <2>6
    <3>2. Cardinality(Waiting(b)') <= MaximumQueue[b]
      BY <1>q, <2>4
    <3> QED
      BY <1>0, <2>1, <2>4, <2>5, <2>6, <3>1, <3>2 DEF BudgetExact
  <2>8. BudgetExact'
    BY <2>3, <2>7 DEF BudgetExact, Holders
  <2>9. NoLostWakeup'
    <3>1. budget'[b].asleep # {} =>
             Maximum[b] - budget'[b].active <= Cardinality(budget'[b].notified)
      <4>1. budget'[b].asleep # {} =>
               Maximum[b] - budget[b].active <= Cardinality(budget[b].notified)
        BY <2>a, <2>1 DEF NoLostWakeup
      <4>2. Cardinality(budget'[b].notified) = Cardinality(budget[b].notified \ {r})
        BY <2>a, <2>1
      <4> QED
        BY <1>n, <1>m, <2>6, <4>1, <4>2
    <3> QED
      BY <2>1, <3>1 DEF NoLostWakeup
  <2>10. WaitersWait'
    BY <1>w, <2>a, <2>1, <2>4, <2>5 DEF WaitersWait, At
  <2> QED
    BY <2>5, <2>8, <2>9, <2>10
<1>3. CASE /\ ~budget[b].closed /\ budget[b].active >= Maximum[b] /\ ~late
           /\ budget' = [budget EXCEPT ![b] = [awake EXCEPT !.asleep = awake.asleep \cup {r}]]
           /\ UNCHANGED <<breaker, request>>
  <2> DEFINE again == [awake EXCEPT !.asleep = awake.asleep \cup {r}]
  <2>1. budget'[b] = again /\ \A c \in Budgets \ {b} : budget'[c] = budget[c]
    BY <1>0, <1>3
  <2> HIDE DEF awake
  <2>a. /\ again \in BudgetType /\ again.active = budget[b].active
        /\ again.closed = budget[b].closed
        /\ again.asleep = (budget[b].asleep \ {r}) \cup {r}
        /\ again.notified = budget[b].notified \ {r}
    BY <1>a, <1>r DEF BudgetType
  <2>2. budget' \in [Budgets -> BudgetType]
    BY <1>0, <1>3, <2>a
  <2> HIDE DEF again
  <2>3. TypeOK'
    BY <1>0, <1>3, <2>2 DEF TypeOK, BudgetType
  <2>4. \A c \in Budgets : Waiting(c)' = Waiting(c)
    BY <1>r, <2>a, <2>1 DEF Waiting
  <2>5. \A c \in Budgets : Holders(c)' = Holders(c)
    BY <1>3 DEF Holders, Held, At
  <2>6. \A c \in Budgets : budget'[c].active = budget[c].active
    BY <2>a, <2>1
  <2>7. BudgetExact'
    <3>1. \A c \in Budgets : /\ budget'[c].active = Cardinality(Holders(c)')
                             /\ budget'[c].active <= Maximum[c]
                             /\ Cardinality(Waiting(c)') <= MaximumQueue[c]
      BY <1>0, <2>4, <2>5, <2>6 DEF BudgetExact
    <3> QED
      BY <2>3, <3>1 DEF BudgetExact, Holders
  <2>8. NoLostWakeup'
    <3>1. Maximum[b] - budget'[b].active <= Cardinality(budget'[b].notified)
      <4>1. budget'[b].active \in Int /\ budget'[b].active >= Maximum[b]
        BY <1>3, <2>2, <2>6 DEF BudgetType
      <4>2. Cardinality(budget'[b].notified) \in Nat
        BY <1>m, <2>a, <2>1
      <4> QED
        BY <4>1, <4>2
    <3> QED
      BY <2>1, <3>1 DEF NoLostWakeup
  <2>9. WaitersWait'
    <3>1. \A c \in Budgets : \A q \in Waiting(c)' : At(q, c)'
      BY <1>3, <1>w, <2>4 DEF At
    <3>2. budget[b].asleep \cap budget[b].notified = {}
      BY DEF WaitersWait
    <3>3. budget'[b].asleep \cap budget'[b].notified = {} /\ ~budget'[b].closed
      BY <1>3, <2>a, <2>1, <3>2
    <3> QED
      BY <2>1, <3>1, <3>3 DEF WaitersWait
  <2> QED
    BY <1>3, <2>7, <2>8, <2>9 DEF AttemptsLeft, ProbesAreUnderway, At
<1> QED
  BY <1>1, <1>2, <1>3 DEF Resume

\* What the breaker learns of an attempt's end.
LEMMA RespondBreaker ==
    ASSUME NEW r, NEW outcome \in Outcomes, Respond(r, outcome)
    PROVE  \/ breaker' = breaker /\ outcome = "unknown"
           \/ breaker' = CancelProbe(request[r].probe)
           \/ breaker' = Success(request[r].probe)
           \/ breaker' = Failure(request[r].probe)
<1> USE OutcomesAreKnown
<1>1. CASE outcome = "unknown"
  BY <1>1, Zenon DEF Respond
<1>2. CASE outcome = "policy" \/ (closed /\ outcome \notin {"unknown", "broken"})
  <2>1. outcome # "unknown"
    BY <1>2
  <2> QED
    BY <1>2, <2>1, Zenon DEF Respond
<1>3. CASE outcome \in {"answer", "rejected"} /\ ~closed
  <2>1. outcome # "unknown" /\ outcome # "policy"
    BY <1>3
  <2> QED
    BY <1>3, <2>1, Zenon DEF Respond
<1>4. CASE outcome = "broken" \/ (outcome = "retryable" /\ ~closed)
  <2>1. /\ outcome # "unknown" /\ outcome # "policy" /\ outcome \notin {"answer", "rejected"}
        /\ ~(closed /\ outcome \notin {"unknown", "broken"})
    BY <1>4
  <2> QED
    BY <1>4, <2>1, Zenon DEF Respond
<1> QED
  BY <1>1, <1>2, <1>3, <1>4

\* The answer changes nothing about the slots held.
LEMMA RespondIInv ==
    ASSUME IInv, NEW r \in Requests, NEW outcome \in Outcomes, Respond(r, outcome)
    PROVE  IInv'
<1> USE DEF IInv, BudgetExact
<1>1. breaker' \in BreakerType
  BY RespondBreaker, BreakerSteps DEF TypeOK, BreakerType
<1>2. /\ request[r].step = "sending" /\ UNCHANGED <<budget, tokens, closed>>
      /\ request' = [request EXCEPT ![r].step = "releasing", ![r].fate = Fate(outcome),
                                    ![r].probe = FALSE]
  BY DEF Respond, At
<1>3. Fate(outcome) \in {"answered", "failed", "raised"}
  BY DEF Fate
<1>4. TypeOK'
  <2>1. request' \in [Requests -> RequestType]
    <3>1. [request[r] EXCEPT !.step = "releasing", !.fate = Fate(outcome), !.probe = FALSE]
             \in RequestType
      BY <1>3 DEF TypeOK, RequestType
    <3> QED
      BY <1>2, <3>1 DEF TypeOK, RequestType
  <2> QED
    BY <1>1, <1>2, <2>1 DEF TypeOK, BreakerType, RequestType
<1>5. /\ \A q \in Requests \ {r} : request'[q] = request[q]
      /\ request'[r].step = "releasing" /\ request'[r].fate # "shed" /\ ~request'[r].probe
  BY <1>2, <1>3 DEF TypeOK
<1>6. Held(r)' = Held(r)
  BY <1>2, <1>5 DEF Held, At
<1>7. BudgetExact' /\ NoLostWakeup' /\ WaitersWait'
  BY <1>2, <1>4, <1>5, <1>6, QuietStep DEF At, Budgets
<1>8. AttemptsLeft' /\ ProbesAreUnderway'
  BY <1>5 DEF AttemptsLeft, ProbesAreUnderway, At
<1> QED
  BY <1>7, <1>8

\* A slot given back wakes a sleeper, if there is one.
LEMMA ReleasedStep ==
    ASSUME NEW x \in BudgetType, x.asleep \cap x.notified = {}, NEW y \in Released(x)
    PROVE  /\ y \in BudgetType
           /\ y.active = x.active - 1 /\ y.closed = x.closed
           /\ y.asleep \cup y.notified = x.asleep \cup x.notified
           /\ y.asleep \cap y.notified = {}
           /\ x.asleep = {} => y.asleep = {}
           /\ y.asleep # {} => /\ x.asleep # {}
                               /\ Cardinality(x.notified) \in Nat
                               /\ Cardinality(y.notified) = Cardinality(x.notified) + 1
<1> DEFINE z == [x EXCEPT !.active = x.active - 1]
<1>0. /\ z \in BudgetType /\ z.active = x.active - 1 /\ z.closed = x.closed
      /\ z.asleep = x.asleep /\ z.notified = x.notified
  BY DEF BudgetType
<1>1. CASE x.asleep = {}
  <2>1. y = z
    BY <1>1 DEF Released
  <2> HIDE DEF z
  <2> QED
    BY <1>0, <1>1, <2>1
<1>2. CASE x.asleep # {}
  <2>1. PICK w \in x.asleep : y = [z EXCEPT !.asleep = x.asleep \ {w},
                                            !.notified = x.notified \cup {w}]
    BY <1>2 DEF Released
  <2> HIDE DEF z
  <2>2. /\ y \in BudgetType /\ y.active = x.active - 1 /\ y.closed = x.closed
        /\ y.asleep = x.asleep \ {w} /\ y.notified = x.notified \cup {w}
    BY <1>0, <2>1 DEF BudgetType
  <2>3. w \notin x.notified
    OBVIOUS
  <2>4. IsFiniteSet(x.notified) /\ Cardinality(x.notified) \in Nat
    BY RequestSets DEF BudgetType
  <2>5. Cardinality(y.notified) = Cardinality(x.notified) + 1
    BY <2>2, <2>3, <2>4, FS_AddElement
  <2> QED
    BY <1>2, <2>2, <2>3, <2>4, <2>5
<1> QED
  BY <1>1, <1>2

\* Release gives back what is held, and wakes one waiter for each slot.
LEMMA ReleaseIInv ==
    ASSUME IInv, NEW r \in Requests, Release(r)
    PROVE  IInv'
<1> USE BudgetsAreLimited, PolicyIsPositive DEF IInv
<1>0. /\ TypeOK /\ UNCHANGED <<breaker, closed>> /\ request[r].step = "releasing"
      /\ \A c \in Budgets : budget[c].active = Cardinality(Holders(c))
      /\ budget \in [Budgets -> BudgetType]
  BY BudgetsCount DEF Release, TypeOK, BudgetType, At
<1>1. "global" \in Held(r) /\ Budgets = {"global", "origin"}
  BY <1>0 DEF Held, At, Budgets
<1>2. /\ budget' \in [Budgets -> UNION {Released(budget[c]) \cup {budget[c]} : c \in Budgets}]
      /\ \A c \in Budgets : IF c \in Held(r) THEN budget'[c] \in Released(budget[c])
                                            ELSE budget'[c] = budget[c]
  <2>1. PICK g \in Released(budget["global"]) :
          IF "origin" \in Held(r)
            THEN \E o \in Released(budget["origin"]) :
                    budget' = [b \in Budgets |-> IF b = "global" THEN g ELSE o]
            ELSE budget' = [budget EXCEPT !["global"] = g]
    BY DEF Release
  <2>2. CASE "origin" \in Held(r)
    BY <1>1, <2>1, <2>2
  <2>3. CASE "origin" \notin Held(r)
    BY <1>0, <1>1, <2>1, <2>3
  <2> QED
    BY <2>2, <2>3
<1>3. \A c \in Budgets :
         /\ budget'[c] \in BudgetType
         /\ budget'[c].active = IF c \in Held(r) THEN budget[c].active - 1 ELSE budget[c].active
         /\ budget'[c].closed = budget[c].closed
         /\ Waiting(c)' = Waiting(c)
         /\ budget'[c].asleep \cap budget'[c].notified = {}
         /\ budget[c].asleep = {} => budget'[c].asleep = {}
         /\ budget'[c].asleep # {} =>
               Maximum[c] - budget'[c].active <= Cardinality(budget'[c].notified)
  <2> SUFFICES ASSUME NEW c \in Budgets
               PROVE  /\ budget'[c] \in BudgetType
                      /\ budget'[c].active = IF c \in Held(r) THEN budget[c].active - 1
                                                             ELSE budget[c].active
                      /\ budget'[c].closed = budget[c].closed
                      /\ Waiting(c)' = Waiting(c)
                      /\ budget'[c].asleep \cap budget'[c].notified = {}
                      /\ budget[c].asleep = {} => budget'[c].asleep = {}
                      /\ budget'[c].asleep # {} =>
                            Maximum[c] - budget'[c].active <= Cardinality(budget'[c].notified)
    OBVIOUS
  <2>0. /\ budget[c] \in BudgetType /\ budget[c].active \in Int /\ Maximum[c] \in Int
        /\ budget[c].asleep \cap budget[c].notified = {}
        /\ budget[c].asleep # {} =>
              Maximum[c] - budget[c].active <= Cardinality(budget[c].notified)
    BY <1>0 DEF WaitersWait, NoLostWakeup, BudgetType
  <2>1. CASE c \notin Held(r)
    BY <1>2, <2>0, <2>1 DEF Waiting
  <2>2. CASE c \in Held(r)
    <3>1. budget'[c] \in Released(budget[c])
      BY <1>2, <2>2
    <3> QED
      BY <2>0, <2>2, <3>1, ReleasedStep DEF Waiting
  <2> QED
    BY <2>1, <2>2
<1>4. budget' \in [Budgets -> BudgetType]
  BY <1>2, <1>3
<1>5. /\ tokens' \in 0..RetryCapacity
      /\ \/ request' = [request EXCEPT ![r] = Idle]
         \/ /\ request[r].attempts <= RetryAttempts
            /\ request' = [request EXCEPT ![r].step = "backoff", ![r].fate = "none"]
  BY <1>0 DEF Release, TypeOK, MayRetry
<1>6. /\ request' \in [Requests -> RequestType]
      /\ \A q \in Requests \ {r} : request'[q] = request[q]
      /\ request'[r].step \in {"idle", "backoff"}
  <2>1. Idle \in RequestType /\ Idle.step = "idle"
    BY IdleType DEF Idle
  <2>2. request \in [Requests -> RequestType]
    BY <1>0 DEF TypeOK, RequestType
  <2>3. CASE request' = [request EXCEPT ![r] = Idle]
    BY <2>1, <2>2, <2>3
  <2>4. CASE request' = [request EXCEPT ![r].step = "backoff", ![r].fate = "none"]
    <3>1. /\ [request[r] EXCEPT !.step = "backoff", !.fate = "none"] \in RequestType
          /\ [request[r] EXCEPT !.step = "backoff", !.fate = "none"].step = "backoff"
      BY <2>2 DEF RequestType
    <3> QED
      BY <2>2, <2>4, <3>1
  <2> QED
    BY <1>5, <2>3, <2>4
<1>7. TypeOK'
  BY <1>0, <1>4, <1>5, <1>6 DEF TypeOK, BudgetType, RequestType
<1>8. Held(r)' = {}
  BY <1>6 DEF Held, At
<1>9. BudgetExact'
  <2>1. \A c \in Budgets : budget'[c].active = Cardinality(Holders(c)')
    BY <1>0, <1>3, <1>6, <1>8, OneRequestMoves
  <2>2. \A c \in Budgets : budget'[c].active <= Maximum[c]
    <3> SUFFICES ASSUME NEW c \in Budgets PROVE budget'[c].active <= Maximum[c]
      OBVIOUS
    <3>1. budget[c].active \in Int /\ Maximum[c] \in Int /\ budget[c].active <= Maximum[c]
      <4>1. budget[c].active <= Maximum[c]
        BY DEF BudgetExact
      <4>2. budget[c].active \in Int
        BY <1>0 DEF BudgetType
      <4> QED
        BY <4>1, <4>2
    <3> QED
      BY <1>3, <3>1
  <2>3. \A c \in Budgets : Cardinality(Waiting(c)') <= MaximumQueue[c]
    BY <1>3 DEF BudgetExact
  <2> QED
    BY <1>7, <2>1, <2>2, <2>3 DEF BudgetExact, Holders
<1>10. NoLostWakeup'
  BY <1>3 DEF NoLostWakeup
<1>11. WaitersWait'
  <2>1. ASSUME NEW c \in Budgets, NEW q \in Waiting(c)'
        PROVE  At(q, c)'
    <3>1. q \in Requests /\ request[q].step = c
      BY <1>0, <1>3, <2>1 DEF WaitersWait, At, Waiting, BudgetType
    <3>2. q # r
      BY <1>0, <1>1, <3>1
    <3> QED
      BY <1>6, <3>1, <3>2 DEF At
  <2> QED
    BY <1>3, <2>1 DEF WaitersWait
<1>12. AttemptsLeft' /\ ProbesAreUnderway'
  <2>1. /\ request'[r].step = "idle" => request'[r].attempts = 0
        /\ request'[r].step = "backoff" => request'[r].attempts <= RetryAttempts
        /\ ~request'[r].probe
    BY <1>0, <1>5 DEF Idle, TypeOK, ProbesAreUnderway
  <2> QED
    BY <1>6, <2>1 DEF AttemptsLeft, ProbesAreUnderway, At
<1> QED
  BY <1>9, <1>10, <1>11, <1>12

\* The shutdown's event, and the closing of the budgets: everyone is woken.
LEMMA ShutdownIInv ==
    ASSUME IInv, Shutdown \/ CloseBudgets
    PROVE  IInv'
<1> USE DEF IInv
<1>1. CASE Shutdown
  <2>1. TypeOK'
    BY <1>1 DEF Shutdown, TypeOK, BudgetExact
  <2>2. /\ \A c \in Budgets : Holders(c)' = Holders(c) /\ Waiting(c)' = Waiting(c)
        /\ UNCHANGED <<breaker, budget, request>>
    BY <1>1 DEF Shutdown, Holders, Held, At, Waiting
  <2>3. BudgetExact'
    BY <2>1, <2>2 DEF BudgetExact, Holders
  <2> QED
    BY <2>2, <2>3 DEF NoLostWakeup, WaitersWait, AttemptsLeft, ProbesAreUnderway, At, Waiting
<1>2. CASE CloseBudgets
  <2>1. /\ UNCHANGED <<breaker, tokens, closed, request>> /\ TypeOK
        /\ budget \in [Budgets -> BudgetType]
    BY <1>2 DEF CloseBudgets, BudgetExact, TypeOK, BudgetType
  <2>2. ASSUME NEW c \in Budgets
        PROVE  /\ budget'[c] \in BudgetType
               /\ budget'[c].active = budget[c].active /\ budget'[c].asleep = {}
               /\ budget'[c].notified = Waiting(c)
    BY <1>2, <2>1 DEF CloseBudgets, BudgetType, Waiting
  <2>3. budget' \in [Budgets -> BudgetType]
    BY <1>2, <2>2 DEF CloseBudgets
  <2>4. TypeOK'
    BY <2>1, <2>3 DEF TypeOK, BudgetType
  <2>5. \A c \in Budgets : Holders(c)' = Holders(c) /\ Waiting(c)' = Waiting(c)
    BY <2>1, <2>2 DEF Holders, Held, At, Waiting
  <2>6. BudgetExact'
    BY <2>2, <2>4, <2>5 DEF BudgetExact, Holders
  <2>7. NoLostWakeup' /\ WaitersWait'
    BY <2>1, <2>2, <2>5 DEF NoLostWakeup, WaitersWait, At
  <2> QED
    BY <2>1, <2>6, <2>7 DEF AttemptsLeft, ProbesAreUnderway, At
<1> QED
  BY <1>1, <1>2

\* Every step keeps the invariant.
LEMMA NextIInv == IInv /\ [Next]_vars => IInv'
<1> SUFFICES ASSUME IInv, [Next]_vars PROVE IInv'
  OBVIOUS
<1>1. CASE Next
  <2>1. ASSUME NEW r \in Requests, Begin(r) \/ Step(r) PROVE IInv'
    BY <2>1, LoopIInv, AcquireIInv, ResumeIInv, RespondIInv, ReleaseIInv DEF Step
  <2> QED
    BY <1>1, <2>1, ShutdownIInv DEF Next
<1>2. CASE UNCHANGED vars
  <2>1. \A b \in Budgets : Waiting(b)' = Waiting(b) /\ Holders(b)' = Holders(b)
    BY <1>2 DEF vars, Waiting, Holders, Held, At
  <2>2. TypeOK'
    BY <1>2 DEF vars, IInv, BudgetExact, TypeOK
  <2>3. BudgetExact'
    BY <1>2, <2>1, <2>2 DEF vars, IInv, BudgetExact, Holders
  <2> QED
    BY <1>2, <2>1, <2>3 DEF vars, IInv, NoLostWakeup, WaitersWait, AttemptsLeft,
                            ProbesAreUnderway, At
<1> QED
  BY <1>1, <1>2

----------------------------------------------------------------------------
(* What follows for every execution *)

\* The inductive invariant holds in every reachable state.
THEOREM RuntimeInvariant == Spec => []IInv
BY InitIInv, NextIInv, PTL DEF Spec

\* The admission budgets of origin.py count exactly the attempts that hold a
\* slot, and never exceed their limits, however attempts end.
THEOREM BudgetsAreExact == Spec => []BudgetExact
<1>1. IInv => BudgetExact
  BY DEF IInv
<1> QED
  BY <1>1, RuntimeInvariant, PTL

\* While a slot of a budget is free, no waiter sleeps that is not about to be
\* overtaken by a notified one: release's single notify is enough.
THEOREM WakeupsAreNotLost == Spec => []NoLostWakeup
<1>1. IInv => NoLostWakeup
  BY DEF IInv
<1> QED
  BY <1>1, RuntimeInvariant, PTL

\* A probe ends with its request, or the breaker stops counting it: one step
\* keeps the number of a half-open breaker's probes within the requests that
\* make them, provided the transport raises no exception of an unknown class.
LEMMA ProbesCounted ==
    ASSUME "unknown" \notin Outcomes, IInv, BusyMeansProbing, [Next]_vars
    PROVE  BusyMeansProbing'
<1> USE PolicyIsPositive DEF IInv
<1>0. /\ TypeOK /\ breaker \in BreakerType /\ breaker.active \in Nat
      /\ \A r \in Requests : request[r].probe \in BOOLEAN
      /\ IsFiniteSet(Probing) /\ Cardinality(Probing) \in Nat
      /\ breaker.state = "half_open" => breaker.active <= Cardinality(Probing)
  BY RequestSets DEF BudgetExact, TypeOK, BreakerType, Probing, BusyMeansProbing
<1>1. SUFFICES breaker'.state = "half_open" => breaker'.active <= Cardinality(Probing')
  BY DEF BusyMeansProbing, Probing
<1>2. ASSUME NEW r \in Requests, \A q \in Requests \ {r} : request'[q] = request[q],
             request'[r].probe \in BOOLEAN
      PROVE  /\ Cardinality(Probing') \in Nat
             /\ request'[r].probe = request[r].probe => Cardinality(Probing') = Cardinality(Probing)
             /\ request[r].probe /\ ~request'[r].probe =>
                   Cardinality(Probing') = Cardinality(Probing) - 1
             /\ ~request[r].probe /\ request'[r].probe =>
                   Cardinality(Probing') = Cardinality(Probing) + 1
  <2>1. \A y : y # r => (y \in Probing' <=> y \in Probing)
    BY <1>2 DEF Probing
  <2>2. (r \in Probing <=> request[r].probe) /\ (r \in Probing' <=> request'[r].probe)
    BY DEF Probing
  <2> HIDE DEF Probing
  <2> QED
    BY <1>0, <1>2, <2>1, <2>2, CountOne
<1>3. ASSUME NEW r \in Requests, breaker' = CancelProbe(request[r].probe),
             \A q \in Requests \ {r} : request'[q] = request[q], request'[r].probe = FALSE
      PROVE  breaker'.state = "half_open" => breaker'.active <= Cardinality(Probing')
  <2>1. breaker'.state = breaker.state /\ breaker'.active = Freed(request[r].probe)
    BY <1>0, <1>3 DEF CancelProbe, BreakerType
  <2>2. Cardinality(Probing') \in Nat
    BY <1>2, <1>3
  <2>3. CASE request[r].probe
    <3>1. Cardinality(Probing') = Cardinality(Probing) - 1
      BY <1>2, <1>3, <2>3
    <3>2. breaker'.active = IF breaker.active > 0 THEN breaker.active - 1 ELSE breaker.active
      BY <2>1, <2>3 DEF Freed
    <3> QED
      BY <1>0, <2>1, <2>2, <3>1, <3>2
  <2>4. CASE ~request[r].probe
    <3>1. request'[r].probe = request[r].probe
      BY <1>0, <1>3, <2>4
    <3>2. Cardinality(Probing') = Cardinality(Probing)
      BY <1>2, <1>3, <3>1
    <3>3. breaker'.active = breaker.active
      BY <2>1, <2>4 DEF Freed
    <3> QED
      BY <1>0, <2>1, <3>2, <3>3
  <2> QED
    BY <2>3, <2>4
<1>4. ASSUME NEW r \in Requests, NEW b \in Budgets, Shed(r, b)
      PROVE  breaker'.state = "half_open" => breaker'.active <= Cardinality(Probing')
  BY <1>0, <1>3, <1>4 DEF Shed, TypeOK, Idle
<1>5. ASSUME UNCHANGED breaker, \A r \in Requests : request'[r].probe = request[r].probe
      PROVE  breaker'.state = "half_open" => breaker'.active <= Cardinality(Probing')
  <2>1. Probing' = Probing
    BY <1>5 DEF Probing
  <2> QED
    BY <1>0, <1>5, <2>1
<1>6. ASSUME NEW r \in Requests, Begin(r) \/ Backoff(r) \/ Release(r)
      PROVE  UNCHANGED breaker /\ \A q \in Requests : request'[q].probe = request[q].probe
  <2>1. CASE Begin(r)
    BY <1>0, <2>1 DEF Begin, TypeOK
  <2>2. CASE Backoff(r)
    <3>1. request[r].probe = FALSE
      BY <1>0, <2>2 DEF Backoff, At, ProbesAreUnderway
    <3> QED
      BY <1>0, <2>2, <3>1 DEF Backoff, TypeOK, Idle
  <2>3. CASE Release(r)
    <3>1. request[r].probe = FALSE
      BY <1>0, <2>3 DEF Release, At, ProbesAreUnderway
    <3>2. /\ UNCHANGED breaker
          /\ \/ request' = [request EXCEPT ![r] = Idle]
             \/ request' = [request EXCEPT ![r].step = "backoff", ![r].fate = "none"]
      BY <2>3 DEF Release
    <3>3. \A q \in Requests \ {r} : request'[q] = request[q]
      BY <1>0, <3>2 DEF TypeOK
    <3>4. request'[r].probe = FALSE
      BY <1>0, <3>1, <3>2 DEF TypeOK, Idle
    <3> QED
      BY <3>1, <3>2, <3>3, <3>4
  <2> QED
    BY <1>6, <2>1, <2>2, <2>3
<1>7. ASSUME NEW r \in Requests, NEW b \in Budgets, NEW late \in BOOLEAN,
             Acquire(r, b) \/ Resume(r, b, late)
      PROVE  \/ Shed(r, b)
             \/ UNCHANGED breaker /\ \A q \in Requests : request'[q].probe = request[q].probe
  <2>1. Shed(r, b) \/ (UNCHANGED breaker /\ Admitted(r)) \/ UNCHANGED <<breaker, request>>
    BY <1>7 DEF Acquire, Resume
  <2> QED
    BY <1>0, <2>1 DEF Admitted, TypeOK
<1>8. ASSUME NEW r \in Requests, NEW over \in BOOLEAN, Refused(r, over)
      PROVE  breaker'.state = "half_open" => breaker'.active <= Cardinality(Probing')
  <2>1. request[r].probe = FALSE
    BY <1>0, <1>8 DEF Refused, At, ProbesAreUnderway
  <2>2. \A q \in Requests : request'[q].probe = request[q].probe
    BY <1>0, <1>8, <2>1 DEF Refused, TypeOK, Idle
  <2>3. breaker' = breaker \/ (breaker' = Probed(over) /\
                              (breaker'.state = "half_open" => breaker'.active >= HalfOpenRequests))
    BY <1>8 DEF Refused
  <2>4. breaker.state = "open" /\ over => Probed(over).active = 0
    BY <1>0 DEF Probed, BreakerType
  <2>5. breaker' = breaker \/ breaker'.state # "half_open"
    <3>1. CASE breaker.state = "open" /\ over
      <4>1. Probed(over).active = 0 /\ ~(0 >= HalfOpenRequests)
        <5>1. Probed(over).active = 0
          BY <2>4, <3>1, Zenon
        <5>2. ~(0 >= HalfOpenRequests)
          OBVIOUS
        <5> QED
          BY <5>1, <5>2
      <4>2. breaker' = Probed(over) => ~(breaker'.active >= HalfOpenRequests)
        BY <4>1
      <4> QED
        BY <2>3, <4>2
    <3>2. CASE ~(breaker.state = "open" /\ over)
      BY <2>3, <3>2 DEF Probed
    <3> QED
      BY <3>1, <3>2
  <2> QED
    BY <1>5, <2>2, <2>5
<1>9. ASSUME NEW r \in Requests, NEW over \in BOOLEAN, Allowed(r, over)
      PROVE  breaker'.state = "half_open" => breaker'.active <= Cardinality(Probing')
  <2> DEFINE probed == Probed(over)
             probe == probed.state = "half_open"
  <2>1. /\ request[r].step = "attempt"
        /\ breaker' = IF probe THEN [probed EXCEPT !.active = probed.active + 1] ELSE probed
        /\ request' = [request EXCEPT ![r].step = "global", ![r].probe = probe,
                                      ![r].attempts = request[r].attempts + 1]
    BY <1>9 DEF Allowed, At
  <2>2. probed \in BreakerType /\ (probed = breaker \/ probed.active = 0)
    BY <1>0, ProbedType DEF Probed, BreakerType
  <2> HIDE DEF probed
  <2>3. CASE ~probe
    BY <2>1, <2>3
  <2>4. CASE probe
    <3>1. /\ \A q \in Requests \ {r} : request'[q] = request[q]
          /\ request'[r].probe = TRUE
      BY <1>0, <2>1, <2>4 DEF TypeOK
    <3>2. request[r].probe = FALSE
      BY <1>0, <2>1 DEF ProbesAreUnderway
    <3>3. Cardinality(Probing') = Cardinality(Probing) + 1
      BY <1>2, <3>1, <3>2
    <3>4. breaker'.active = probed.active + 1
      BY <2>1, <2>2, <2>4 DEF BreakerType
    <3>5. probed.active <= Cardinality(Probing) /\ probed.active \in Int
      BY <1>0, <2>2, <2>4
    <3> QED
      BY <1>0, <3>3, <3>4, <3>5
  <2> QED
    BY <2>3, <2>4
<1>10. ASSUME NEW r \in Requests, NEW outcome \in Outcomes, Respond(r, outcome)
       PROVE  breaker'.state = "half_open" => breaker'.active <= Cardinality(Probing')
  <2>0. /\ \A q \in Requests \ {r} : request'[q] = request[q]
        /\ request'[r].probe = FALSE
    BY <1>0, <1>10 DEF Respond, TypeOK
  <2>1. CASE breaker' = CancelProbe(request[r].probe)
    BY <1>3, <2>0, <2>1
  <2>2. CASE breaker' = Success(request[r].probe)
    BY <2>2 DEF Success
  <2>3. CASE breaker' = Failure(request[r].probe) /\ request[r].probe
    BY <2>3 DEF Failure
  <2>4. CASE breaker' = Failure(request[r].probe) /\ ~request[r].probe
    <3>1. request'[r].probe = request[r].probe
      BY <1>0, <2>0, <2>4
    <3>2. Cardinality(Probing') = Cardinality(Probing)
      BY <1>2, <2>0, <3>1
    <3>3. /\ breaker'.active = breaker.active
          /\ breaker'.state = "open" \/ breaker'.state = breaker.state
      BY <2>4 DEF Failure, Freed
    <3> QED
      BY <1>0, <3>2, <3>3
  <2>5. outcome # "unknown"
    OBVIOUS
  <2> QED
    BY <1>10, <2>1, <2>2, <2>3, <2>4, <2>5, RespondBreaker
<1>11. CASE UNCHANGED vars \/ Shutdown \/ CloseBudgets
  BY <1>5, <1>11 DEF vars, Shutdown, CloseBudgets
<1>12. ASSUME NEW r \in Requests, Begin(r) \/ Step(r)
       PROVE  breaker'.state = "half_open" => breaker'.active <= Cardinality(Probing')
  BY <1>4, <1>5, <1>6, <1>7, <1>8, <1>9, <1>10, <1>12 DEF Step
<1> QED
  BY <1>11, <1>12 DEF Next

\* Unless a transport raises an exception of no known class, which leaves
\* origin.py's request loop without telling the breaker, a half-open breaker
\* counts no more probes than requests are making: it is never stuck busy.
THEOREM BusyBreakersProbe ==
    ASSUME "unknown" \notin Outcomes
    PROVE  Spec => []BusyMeansProbing
<1>1. Init => BusyMeansProbing
  BY DEF Init, BusyMeansProbing
<1>2. IInv /\ BusyMeansProbing /\ [Next]_vars => BusyMeansProbing'
  BY ProbesCounted
<1> QED
  BY <1>1, <1>2, RuntimeInvariant, PTL DEF Spec
=============================================================================
