--------------------------- MODULE CircuitBreaker ---------------------------
(* The circuit breaker of backend/infrastructure/resilience.py, used by the   *)
(* threads of one process: background_job_service.py:135 runs the jobs of the *)
(* API in a thread pool, on the breakers of the one worker_runtime; a worker  *)
(* process has one thread.  CircuitBreaker.call takes no lock: a thread can   *)
(* be preempted at every function call inside it, so a step below is the code *)
(* between two such points, and everything a thread decided before one may be *)
(* stale after it.  call_async switches at fewer points (only at the await),  *)
(* so its behaviours are among these.  This is the class by itself; how the   *)
(* runtime uses it, which tests the state before it calls, is in JobPipeline. *)
(*                                                                            *)
(* Abstractions.  Time since last_state_change is one bit, the timer: the      *)
(* recovery timeout has passed.  The total_* counters are only reported and   *)
(* are left out, and excluded_exceptions is empty, as in every breaker the    *)
(* repository creates.  failure_count and success_count have no cap in the    *)
(* code and none here; MaxCount bounds the calls that are made.               *)
EXTENDS Naturals

CONSTANTS
    Callers,            \* threads that use the breaker
    FailureThreshold,   \* CircuitBreakerConfig.failure_threshold
    SuccessThreshold,   \* CircuitBreakerConfig.success_threshold
    MaxCount            \* bound: no call is made with a count this high

ASSUME ThresholdAssumption ==
    /\ FailureThreshold \in Nat \ {0}
    /\ SuccessThreshold \in Nat \ {0}
    /\ MaxCount \in Nat

VARIABLES
    state,      \* metrics.state
    failures,   \* metrics.failure_count
    successes,  \* metrics.success_count
    timer,      \* "elapsed": recovery_timeout_seconds passed since last_state_change
    pc,         \* where each thread is inside call()
    service     \* the protected dependency: calls succeed while it is "up"

vars == <<state, failures, successes, timer, pc, service>>

CircuitState == {"closed", "open", "half_open"}

(* admitting: _should_attempt_reset() said yes, HALF_OPEN is not yet set;     *)
(* failed:    _record_failure counted, its tests of the state come next;      *)
(* opening:   the tests passed, _open() begins;                               *)
(* closing:   the same of _close(); resetting: CLOSED is set, reset() is not  *)
(*            done; stamping: last_state_change is the last thing to set.     *)
Points == {"idle", "admitting", "running", "failed",
           "opening", "stamping", "closing", "resetting"}

TypeOK ==
    /\ state \in CircuitState
    /\ failures \in Nat
    /\ successes \in Nat
    /\ timer \in {"running", "elapsed"}
    /\ pc \in [Callers -> Points]
    /\ service \in {"up", "down"}

Init ==
    /\ state = "closed"
    /\ failures = 0
    /\ successes = 0
    /\ timer = "running"
    /\ pc = [c \in Callers |-> "idle"]
    /\ service = "up"

Goto(c, point) == pc' = [pc EXCEPT ![c] = point]

CountsBounded == failures < MaxCount /\ successes < MaxCount

-----------------------------------------------------------------------------
(* call() outside OPEN goes straight to the protected function.  In OPEN with *)
(* the timeout still running it raises CircuitBreakerOpenError and changes    *)
(* nothing, so there is no step for it.                                       *)
Call(c) ==
    /\ pc[c] = "idle"
    /\ state # "open"
    /\ CountsBounded
    /\ Goto(c, "running")
    /\ UNCHANGED <<state, failures, successes, timer, service>>

ShouldAttemptReset(c) ==
    /\ pc[c] = "idle"
    /\ state = "open"
    /\ timer = "elapsed"
    /\ CountsBounded
    /\ Goto(c, "admitting")
    /\ UNCHANGED <<state, failures, successes, timer, service>>

(* Mutant: success_count survives the transition, as it would without the     *)
(* reset of line 93.                                                          *)
EnterHalfOpenKeepingCount(c) ==
    /\ pc[c] = "admitting"
    /\ state' = "half_open"
    /\ Goto(c, "running")
    /\ UNCHANGED <<failures, successes, timer, service>>

EnterHalfOpen(c) ==
    /\ pc[c] = "admitting"
    /\ state' = "half_open"
    /\ successes' = 0
    /\ Goto(c, "running")
    /\ UNCHANGED <<failures, timer, service>>

-----------------------------------------------------------------------------
RecordSuccess(c) ==
    /\ pc[c] = "running"
    /\ service = "up"
    /\ successes' = successes + 1
    /\ failures' = IF state = "closed" THEN 0 ELSE failures
    /\ Goto(c, IF state = "half_open" /\ successes' >= SuccessThreshold
                 THEN "closing" ELSE "idle")
    /\ UNCHANGED <<state, timer, service>>

(* _close(): nothing to do when another thread has closed it already.         *)
CloseSetState(c) ==
    /\ pc[c] = "closing"
    /\ state' = "closed"
    /\ Goto(c, IF state = "closed" THEN "idle" ELSE "resetting")
    /\ UNCHANGED <<failures, successes, timer, service>>

CloseReset(c) ==
    /\ pc[c] = "resetting"
    /\ failures' = 0
    /\ successes' = 0
    /\ Goto(c, "stamping")
    /\ UNCHANGED <<state, timer, service>>

-----------------------------------------------------------------------------
CountFailure(c) ==
    /\ pc[c] = "running"
    /\ service = "down"
    /\ failures' = failures + 1
    /\ Goto(c, "failed")
    /\ UNCHANGED <<state, successes, timer, service>>

(* Mutant: opens only beyond the threshold (> for >=).                        *)
TestFailureBeyond(c) ==
    /\ pc[c] = "failed"
    /\ Goto(c, IF state = "half_open" \/ failures > FailureThreshold
                 THEN "opening" ELSE "idle")
    /\ UNCHANGED <<state, failures, successes, timer, service>>

TestFailure(c) ==
    /\ pc[c] = "failed"
    /\ Goto(c, IF state = "half_open" \/ failures >= FailureThreshold
                 THEN "opening" ELSE "idle")
    /\ UNCHANGED <<state, failures, successes, timer, service>>

(* _open(): nothing to do when another thread has opened it already.          *)
OpenSetState(c) ==
    /\ pc[c] = "opening"
    /\ state' = "open"
    /\ Goto(c, IF state = "open" THEN "idle" ELSE "stamping")
    /\ UNCHANGED <<failures, successes, timer, service>>

(* Both _open() and _close() end here, the breaker perhaps in another state.  *)
Stamp(c) ==
    /\ pc[c] = "stamping"
    /\ timer' = "running"
    /\ Goto(c, "idle")
    /\ UNCHANGED <<state, failures, successes, service>>

-----------------------------------------------------------------------------
(* The clock passes last_state_change + recovery_timeout_seconds.             *)
RecoveryTimeout ==
    /\ timer = "running"
    /\ timer' = "elapsed"
    /\ UNCHANGED <<state, failures, successes, pc, service>>

ServiceChanges ==
    /\ service' \in {"up", "down"} \ {service}
    /\ UNCHANGED <<state, failures, successes, timer, pc>>

CallStep(c) ==
    \/ Call(c) \/ ShouldAttemptReset(c) \/ EnterHalfOpen(c)
    \/ RecordSuccess(c) \/ CloseSetState(c) \/ CloseReset(c)
    \/ CountFailure(c) \/ TestFailure(c)
    \/ OpenSetState(c) \/ Stamp(c)

Next ==
    \/ \E c \in Callers : CallStep(c)
    \/ RecoveryTimeout
    \/ ServiceChanges

Spec == Init /\ [][Next]_vars

-----------------------------------------------------------------------------
(* A closed breaker at its failure threshold is one that a thread is about    *)
(* to open, or one whose counters a thread is about to reset: no interleaving *)
(* of _record_failure, _record_success and _close leaves it closed for good   *)
(* with the failures that must open it.                                       *)
ClosedBelowThreshold ==
    state = "closed" /\ failures >= FailureThreshold =>
        \E c \in Callers : pc[c] \in {"failed", "opening", "resetting"}

(* A half-open breaker with the successes that must close it is one that a    *)
(* thread is about to close: no interleaving of probes and of threads that    *)
(* enter HALF_OPEN again loses the closing.                                   *)
HalfOpenBelowThreshold ==
    state = "half_open" /\ successes >= SuccessThreshold =>
        \E c \in Callers : pc[c] = "closing"

(* resilience.py:38 calls recovery_timeout_seconds the "Time before trying to *)
(* recover": OPEN is left only for HALF_OPEN and only once that time has      *)
(* passed, so a failing service is left alone that long.  It holds of a       *)
(* breaker used by one thread, as each worker process uses its own.           *)
LeavesOpenByTimeout ==
    [][state = "open" /\ state' # "open" =>
           state' = "half_open" /\ timer = "elapsed"]_vars
=============================================================================
