---------------------------- MODULE OriginRuntime ----------------------------
(***************************************************************************)
(* One origin's resilience policy in src/megacache/origin.py: the circuit  *)
(* breaker and retry budget (_OriginRuntime), the admission budgets of the *)
(* process and of the origin (_AdmissionBudget) and the request loop that  *)
(* uses them (_request_with_retries), until and through shutdown.          *)
(*                                                                         *)
(* Each breaker, budget and flag has a lock of its own, and a step is one  *)
(* critical section.  Time is abstract: an open period may have ended when *)
(* a request looks at it, any number of retry tokens may have come back    *)
(* when one is taken, and any wait may reach its deadline.                 *)
(***************************************************************************)
EXTENDS Integers, FiniteSets

CONSTANTS
    Requests,          \* the threads that may ask the origin
    Maximum,           \* "global", "origin" -> concurrent attempts
    MaximumQueue,      \* "global", "origin" -> waiting attempts
    FailureThreshold, HalfOpenRequests, RetryAttempts, RetryCapacity,
    Outcomes           \* bound: how a transport ends

Budgets == {"global", "origin"}

ASSUME RequestsAreFinite == IsFiniteSet(Requests)

ASSUME BudgetsAreLimited ==
    \A b \in Budgets : Maximum[b] \in Nat \ {0} /\ MaximumQueue[b] \in Nat

ASSUME PolicyIsPositive ==
    /\ FailureThreshold \in Nat \ {0} /\ HalfOpenRequests \in Nat \ {0}
    /\ RetryAttempts \in Nat /\ RetryCapacity \in Nat \ {0}

\* The ways a transport call ends: an answer, an answer that is an error not
\* worth a retry, one worth it (or no answer), a refused address, an exception
\* of no known class.
ASSUME OutcomesAreKnown ==
    Outcomes \subseteq {"answer", "rejected", "retryable", "broken", "policy", "unknown"}

VARIABLES
    breaker,   \* state, consecutive failures, active probes
    budget,    \* budget -> active, closed and its waiters: asleep, notified
    tokens,    \* whole retry tokens
    closed,    \* the service's shutdown event
    request    \* thread -> step, probe, attempts, fate of its attempt

vars == <<breaker, budget, tokens, closed, request>>

Idle == [step |-> "idle", probe |-> FALSE, attempts |-> 0, fate |-> "none"]

Init ==
    /\ breaker = [state |-> "closed", failures |-> 0, active |-> 0]
    /\ budget = [b \in Budgets |-> [active |-> 0, closed |-> FALSE,
                                    asleep |-> {}, notified |-> {}]]
    /\ tokens = RetryCapacity
    /\ closed = FALSE
    /\ request = [r \in Requests |-> Idle]

At(r, step) == request[r].step = step

----------------------------------------------------------------------------
(* The circuit breaker *)

Freed(probe) == IF probe /\ breaker.active > 0 THEN breaker.active - 1 ELSE breaker.active

Success(probe) ==
    [state |-> "closed", failures |-> 0, active |-> Freed(probe)]

\* The count of failures stops at the threshold: more of them change nothing.
Failure(probe) ==
    LET failures == IF breaker.failures < FailureThreshold THEN breaker.failures + 1
                                                           ELSE breaker.failures
        opens == probe \/ failures >= FailureThreshold
    IN [state |-> IF opens THEN "open" ELSE breaker.state,
        failures |-> failures,
        active |-> Freed(probe)]

\* Mutant: a cancelled probe keeps its slot.
CancelProbeNothing(probe) == breaker

CancelProbe(probe) == [breaker EXCEPT !.active = Freed(probe)]

\* allow_request opens a half-open period first, if the open one is over.
Probed(over) ==
    IF breaker.state = "open" /\ over
      THEN [breaker EXCEPT !.state = "half_open", !.active = 0] ELSE breaker

\* CircuitOpen, and shutdown, leave the loop at once: nothing is held yet.
Refused(r, over) ==
    /\ At(r, "attempt")
    /\ request' = [request EXCEPT ![r] = Idle]
    /\ \/ closed /\ UNCHANGED breaker
       \/ /\ ~closed /\ breaker' = Probed(over)
          /\ breaker'.state # "closed"
          /\ breaker'.state = "half_open" => breaker'.active >= HalfOpenRequests
    /\ UNCHANGED <<budget, tokens, closed>>

\* Mutant: attempts are not counted.
AllowedUncounted(r, over) ==
    LET probed == Probed(over)
        probe == probed.state = "half_open"
    IN /\ At(r, "attempt") /\ ~closed
       /\ probed.state # "open" /\ (probe => probed.active < HalfOpenRequests)
       /\ breaker' = IF probe THEN [probed EXCEPT !.active = probed.active + 1] ELSE probed
       /\ request' = [request EXCEPT ![r].step = "global", ![r].probe = probe]
       /\ UNCHANGED <<budget, tokens, closed>>

Allowed(r, over) ==
    LET probed == Probed(over)
        probe == probed.state = "half_open"
    IN /\ At(r, "attempt") /\ ~closed
       /\ probed.state # "open" /\ (probe => probed.active < HalfOpenRequests)
       /\ breaker' = IF probe THEN [probed EXCEPT !.active = probed.active + 1] ELSE probed
       /\ request' = [request EXCEPT ![r].step = "global", ![r].probe = probe,
                                     ![r].attempts = request[r].attempts + 1]
       /\ UNCHANGED <<budget, tokens, closed>>

----------------------------------------------------------------------------
(* Admission *)

Held(r) == {b \in Budgets : \/ At(r, "sending")
                            \/ At(r, "origin") /\ b = "global"
                            \/ At(r, "releasing") /\ (request[r].fate = "shed" => b = "global")}

Waiting(b) == budget[b].asleep \cup budget[b].notified

Admitted(r) ==
    request' = [request EXCEPT ![r].step = IF At(r, "global") THEN "origin" ELSE "sending"]

\* Mutant: an attempt shed at the origin keeps its slot in the process.
ShedKeeping(r, b) ==
    /\ breaker' = CancelProbe(request[r].probe)
    /\ request' = [request EXCEPT ![r] = Idle]

\* Overload or shutdown at budget b: the probe is cancelled, the error raised
\* once what is held has been released.
Shed(r, b) ==
    /\ breaker' = CancelProbe(request[r].probe)
    /\ request' = [request EXCEPT ![r] =
                      IF b = "global" THEN Idle
                      ELSE [request[r] EXCEPT !.step = "releasing", !.fate = "shed",
                                                 !.probe = FALSE]]

\* acquire, up to the first wait.
Acquire(r, b) ==
    /\ At(r, b) /\ r \notin Waiting(b)
    /\ \/ /\ budget[b].closed
          /\ Shed(r, b) /\ UNCHANGED budget
       \/ /\ ~budget[b].closed /\ budget[b].active < Maximum[b]
          /\ budget' = [budget EXCEPT ![b].active = budget[b].active + 1]
          /\ Admitted(r) /\ UNCHANGED breaker
       \/ /\ ~budget[b].closed /\ budget[b].active >= Maximum[b]
          /\ Cardinality(Waiting(b)) >= MaximumQueue[b]
          /\ Shed(r, b) /\ UNCHANGED budget
       \/ /\ ~budget[b].closed /\ budget[b].active >= Maximum[b]
          /\ Cardinality(Waiting(b)) < MaximumQueue[b]
          /\ budget' = [budget EXCEPT ![b].asleep = budget[b].asleep \cup {r}]
          /\ UNCHANGED <<breaker, request>>
    /\ UNCHANGED <<tokens, closed>>

\* A waiter returns from its wait, notified or at its deadline (late): shutdown
\* first, then the budget, then the deadline.
Resume(r, b, late) ==
    /\ r \in budget[b].notified \/ (late /\ r \in budget[b].asleep)
    /\ LET awake == [budget[b] EXCEPT !.asleep = budget[b].asleep \ {r},
                                      !.notified = budget[b].notified \ {r}]
       IN \/ /\ budget[b].closed \/ (late /\ budget[b].active >= Maximum[b])
             /\ budget' = [budget EXCEPT ![b] = awake]
             /\ Shed(r, b)
          \/ /\ ~budget[b].closed /\ budget[b].active < Maximum[b]
             /\ budget' = [budget EXCEPT ![b] = [awake EXCEPT !.active = awake.active + 1]]
             /\ Admitted(r) /\ UNCHANGED breaker
          \/ /\ ~budget[b].closed /\ budget[b].active >= Maximum[b] /\ ~late
             /\ budget' = [budget EXCEPT ![b] = [awake EXCEPT !.asleep = awake.asleep \cup {r}]]
             /\ UNCHANGED <<breaker, request>>
    /\ UNCHANGED <<tokens, closed>>

\* Mutant: release wakes nobody.
ReleasedSilently(x) == {[x EXCEPT !.active = x.active - 1]}

\* release notifies one waiter, if one is asleep.
Released(x) ==
    LET y == [x EXCEPT !.active = x.active - 1] IN
    IF x.asleep = {} THEN {y}
    ELSE {[y EXCEPT !.asleep = x.asleep \ {w}, !.notified = x.notified \cup {w}] :
             w \in x.asleep}

----------------------------------------------------------------------------
(* The request loop *)

Begin(r) ==
    /\ At(r, "idle")
    /\ request' = [request EXCEPT ![r].step = "attempt"]
    /\ UNCHANGED <<breaker, budget, tokens, closed>>

Fate(outcome) ==
    IF ~closed /\ outcome = "answer" THEN "answered"
    ELSE IF (~closed /\ outcome = "retryable") \/ outcome = "broken" THEN "failed" ELSE "raised"

\* The transport returns or raises and the breaker learns of it.  A broken connection
\* is a failure during shutdown too; whatever else comes then cancels the probe.  An
\* exception of no known class passes all handlers.
Respond(r, outcome) ==
    /\ At(r, "sending")
    /\ breaker' = CASE outcome = "unknown" -> breaker
                    [] outcome = "policy" \/ (closed /\ outcome \notin {"unknown", "broken"}) ->
                         CancelProbe(request[r].probe)
                    [] ~closed /\ outcome \in {"answer", "rejected"} ->
                         Success(request[r].probe)
                    [] OTHER -> Failure(request[r].probe)
    /\ request' = [request EXCEPT ![r].step = "releasing", ![r].fate = Fate(outcome),
                                  ![r].probe = FALSE]
    /\ UNCHANGED <<budget, tokens, closed>>

MayRetry(r) == request[r].fate = "failed" /\ request[r].attempts <= RetryAttempts

\* The finally block gives the slots back; then a failed attempt is repeated as
\* long as there are attempts and tokens left.
Release(r) ==
    /\ At(r, "releasing")
    /\ \E g \in Released(budget["global"]) :
          IF "origin" \in Held(r)
            THEN \E o \in Released(budget["origin"]) :
                    budget' = [b \in Budgets |-> IF b = "global" THEN g ELSE o]
            ELSE budget' = [budget EXCEPT !["global"] = g]
    /\ \/ /\ MayRetry(r)
          /\ tokens' \in tokens - 1..RetryCapacity - 1 /\ tokens' >= 0
          /\ request' = [request EXCEPT ![r].step = "backoff", ![r].fate = "none"]
       \/ /\ MayRetry(r) => tokens = 0
          /\ request' = [request EXCEPT ![r] = Idle]
          /\ UNCHANGED tokens
    /\ UNCHANGED <<breaker, closed>>

Backoff(r) ==
    /\ At(r, "backoff")
    /\ request' = [request EXCEPT ![r] =
                      IF closed THEN Idle ELSE [request[r] EXCEPT !.step = "attempt"]]
    /\ UNCHANGED <<breaker, budget, tokens, closed>>

\* begin_shutdown sets the event, then closes the budgets.
Shutdown ==
    /\ ~closed /\ closed' = TRUE
    /\ UNCHANGED <<breaker, budget, tokens, request>>

CloseBudgets ==
    /\ closed /\ \E b \in Budgets : ~budget[b].closed
    /\ budget' = [b \in Budgets |-> [budget[b] EXCEPT !.closed = TRUE, !.asleep = {},
                                                      !.notified = Waiting(b)]]
    /\ UNCHANGED <<breaker, tokens, closed, request>>

Step(r) == \/ \E over \in BOOLEAN : Refused(r, over) \/ Allowed(r, over)
           \/ \E b \in Budgets : Acquire(r, b) \/ \E late \in BOOLEAN : Resume(r, b, late)
           \/ \E outcome \in Outcomes : Respond(r, outcome)
           \/ Release(r) \/ Backoff(r)

Next == \/ \E r \in Requests : Begin(r) \/ Step(r)
        \/ Shutdown \/ CloseBudgets

\* Threads are scheduled, transports have timeouts, the deadline of a wait comes
\* even if the slot is taken by others each time, and a shutdown goes on.
Fairness == /\ \A r \in Requests :
                  /\ WF_vars(Step(r))
                  /\ WF_vars(\E b \in Budgets : Resume(r, b, TRUE))
            /\ WF_vars(CloseBudgets)

Spec == Init /\ [][Next]_vars /\ Fairness

----------------------------------------------------------------------------
(* Properties *)

\* Every variable has its type.
TypeOK ==
    /\ breaker \in [state : {"closed", "open", "half_open"}, failures : 0..FailureThreshold,
                    active : 0..HalfOpenRequests]
    /\ budget \in [Budgets -> [active : Int, closed : BOOLEAN,
                               asleep : SUBSET Requests, notified : SUBSET Requests]]
    /\ tokens \in 0..RetryCapacity
    /\ closed \in BOOLEAN
    /\ request \in [Requests -> [
          step : Budgets \cup {"idle", "attempt", "sending", "releasing", "backoff"},
          probe : BOOLEAN, attempts : 0..RetryAttempts + 1,
          fate : {"none", "shed", "answered", "failed", "raised"}]]

\* A budget counts exactly the attempts that hold one of its slots, whichever
\* way they leave: answered, shed, timed out, cancelled by a shutdown.
BudgetExact ==
    /\ TypeOK
    /\ \A b \in Budgets :
          /\ budget[b].active = Cardinality({r \in Requests : b \in Held(r)})
          /\ budget[b].active <= Maximum[b]
          /\ Cardinality(Waiting(b)) <= MaximumQueue[b]

\* No wakeup is lost to a newcomer or to a waiter at its deadline: while a slot
\* is free, nobody sleeps unless a notified waiter is on its way to each slot.
NoLostWakeup ==
    \A b \in Budgets :
        budget[b].asleep # {} =>
            Maximum[b] - budget[b].active <= Cardinality(budget[b].notified)

\* A half-open breaker that rejects requests because its probes are busy has a
\* probe in flight whose end will free or decide it: it is never stuck.
BusyMeansProbing ==
    breaker.state = "half_open" =>
        breaker.active <= Cardinality({r \in Requests : request[r].probe})

\* Every request ends, whatever the origin answers and whenever the service
\* shuts down.
RequestsEnd == \A r \in Requests : At(r, "attempt") ~> At(r, "idle")
=============================================================================
