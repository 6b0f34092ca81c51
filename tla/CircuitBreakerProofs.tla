------------------------- MODULE CircuitBreakerProofs -------------------------
(* The circuit breaker, for every number of threads and every threshold.      *)
EXTENDS CircuitBreaker, TLAPS

(* Every variable of the breaker stays in its type: the counts are numbers,   *)
(* and every thread is at one of its points.                                  *)
LEMMA TypeCorrect == Spec => []TypeOK
<1> USE ThresholdAssumption DEF ThresholdAssumption, TypeOK, CircuitState, Points
<1>1. Init => TypeOK
  BY DEF Init
<1>2. TypeOK /\ [Next]_vars => TypeOK'
  <2> SUFFICES ASSUME TypeOK, [Next]_vars PROVE TypeOK'
    OBVIOUS
  <2>1. ASSUME NEW c \in Callers, CallStep(c) PROVE TypeOK'
    <3>1. CASE Call(c) BY <3>1 DEF Call, Goto
    <3>2. CASE ShouldAttemptReset(c) BY <3>2 DEF ShouldAttemptReset, Goto
    <3>3. CASE EnterHalfOpen(c) BY <3>3 DEF EnterHalfOpen, Goto
    <3>4. CASE RecordSuccess(c) BY <3>4 DEF RecordSuccess, Goto
    <3>5. CASE CloseSetState(c) BY <3>5 DEF CloseSetState, Goto
    <3>6. CASE CloseReset(c) BY <3>6 DEF CloseReset, Goto
    <3>7. CASE CountFailure(c) BY <3>7 DEF CountFailure, Goto
    <3>8. CASE TestFailure(c) BY <3>8 DEF TestFailure, Goto
    <3>9. CASE OpenSetState(c) BY <3>9 DEF OpenSetState, Goto
    <3>10. CASE Stamp(c) BY <3>10 DEF Stamp, Goto
    <3>11. QED
      BY <2>1, <3>1, <3>2, <3>3, <3>4, <3>5, <3>6, <3>7, <3>8, <3>9, <3>10
      DEF CallStep
  <2>2. CASE RecoveryTimeout BY <2>2 DEF RecoveryTimeout
  <2>3. CASE ServiceChanges BY <2>3 DEF ServiceChanges
  <2>4. CASE UNCHANGED vars BY <2>4 DEF vars
  <2>5. QED BY <2>1, <2>2, <2>3, <2>4 DEF Next
<1>3. QED BY <1>1, <1>2, PTL DEF Spec

-----------------------------------------------------------------------------
(* A breaker is never left closed at its failure threshold, whatever the      *)
(* interleaving of the threads that count, reset and open: the invariant is   *)
(* inductive over the types, because the thread that makes its premise true   *)
(* is the witness, and stays it until it opens or resets.                     *)
THEOREM ClosedBelowThresholdHolds == Spec => []ClosedBelowThreshold
<1> USE ThresholdAssumption DEF ThresholdAssumption, TypeOK, CircuitState, Points, ClosedBelowThreshold
<1>1. Init => ClosedBelowThreshold
  BY DEF Init
<1>2. TypeOK /\ ClosedBelowThreshold /\ [Next]_vars => ClosedBelowThreshold'
  <2> SUFFICES ASSUME TypeOK, ClosedBelowThreshold, [Next]_vars,
                      state' = "closed", failures' >= FailureThreshold
               PROVE  \E c \in Callers :
                          pc'[c] \in {"failed", "opening", "resetting"}
    OBVIOUS
  <2>1. ASSUME NEW c \in Callers, CallStep(c)
        PROVE  \E d \in Callers : pc'[d] \in {"failed", "opening", "resetting"}
    <3>1. CASE Call(c) BY <3>1 DEF Call, Goto
    <3>2. CASE ShouldAttemptReset(c) BY <3>2 DEF ShouldAttemptReset, Goto
    <3>3. CASE EnterHalfOpen(c) BY <3>3 DEF EnterHalfOpen, Goto
    <3>4. CASE RecordSuccess(c) BY <3>4 DEF RecordSuccess, Goto
    <3>5. CASE CloseSetState(c)
      <4>1. CASE state = "closed" BY <3>5, <4>1 DEF CloseSetState, Goto
      <4>2. CASE state # "closed" BY <3>5, <4>2 DEF CloseSetState, Goto
      <4>3. QED BY <4>1, <4>2
    <3>6. CASE CloseReset(c) BY <3>6 DEF CloseReset, Goto
    <3>7. CASE CountFailure(c) BY <3>7 DEF CountFailure, Goto
    <3>8. CASE TestFailure(c) BY <3>8 DEF TestFailure, Goto
    <3>9. CASE OpenSetState(c) BY <3>9 DEF OpenSetState, Goto
    <3>10. CASE Stamp(c) BY <3>10 DEF Stamp, Goto
    <3>11. QED
      BY <2>1, <3>1, <3>2, <3>3, <3>4, <3>5, <3>6, <3>7, <3>8, <3>9, <3>10
      DEF CallStep
  <2>2. CASE RecoveryTimeout BY <2>2 DEF RecoveryTimeout
  <2>3. CASE ServiceChanges BY <2>3 DEF ServiceChanges
  <2>4. CASE UNCHANGED vars BY <2>4 DEF vars
  <2>5. QED BY <2>1, <2>2, <2>3, <2>4 DEF Next
<1>3. QED BY <1>1, <1>2, TypeCorrect, PTL DEF Spec

(* A half-open breaker with enough successes is always about to be closed:    *)
(* HALF_OPEN is only entered with success_count reset, so the thread that     *)
(* counts the last success is the one that closes it.                         *)
THEOREM HalfOpenBelowThresholdHolds == Spec => []HalfOpenBelowThreshold
<1> USE ThresholdAssumption DEF ThresholdAssumption, TypeOK, CircuitState, Points, HalfOpenBelowThreshold
<1>1. Init => HalfOpenBelowThreshold
  BY DEF Init
<1>2. TypeOK /\ HalfOpenBelowThreshold /\ [Next]_vars => HalfOpenBelowThreshold'
  <2> SUFFICES ASSUME TypeOK, HalfOpenBelowThreshold, [Next]_vars,
                      state' = "half_open", successes' >= SuccessThreshold
               PROVE  \E c \in Callers : pc'[c] = "closing"
    OBVIOUS
  <2>1. ASSUME NEW c \in Callers, CallStep(c)
        PROVE  \E d \in Callers : pc'[d] = "closing"
    <3>1. CASE Call(c) BY <3>1 DEF Call, Goto
    <3>2. CASE ShouldAttemptReset(c) BY <3>2 DEF ShouldAttemptReset, Goto
    <3>3. CASE EnterHalfOpen(c) BY <3>3 DEF EnterHalfOpen, Goto
    <3>4. CASE RecordSuccess(c) BY <3>4 DEF RecordSuccess, Goto
    <3>5. CASE CloseSetState(c) BY <3>5 DEF CloseSetState, Goto
    <3>6. CASE CloseReset(c) BY <3>6 DEF CloseReset, Goto
    <3>7. CASE CountFailure(c) BY <3>7 DEF CountFailure, Goto
    <3>8. CASE TestFailure(c) BY <3>8 DEF TestFailure, Goto
    <3>9. CASE OpenSetState(c) BY <3>9 DEF OpenSetState, Goto
    <3>10. CASE Stamp(c) BY <3>10 DEF Stamp, Goto
    <3>11. QED
      BY <2>1, <3>1, <3>2, <3>3, <3>4, <3>5, <3>6, <3>7, <3>8, <3>9, <3>10
      DEF CallStep
  <2>2. CASE RecoveryTimeout BY <2>2 DEF RecoveryTimeout
  <2>3. CASE ServiceChanges BY <2>3 DEF ServiceChanges
  <2>4. CASE UNCHANGED vars BY <2>4 DEF vars
  <2>5. QED BY <2>1, <2>2, <2>3, <2>4 DEF Next
<1>3. QED BY <1>1, <1>2, TypeCorrect, PTL DEF Spec

-----------------------------------------------------------------------------
(* With one thread, what it decided is still true when it acts on it.         *)
DecisionsFresh ==
    \A c \in Callers :
        /\ pc[c] = "admitting" => state = "open" /\ timer = "elapsed"
        /\ pc[c] = "closing" => state = "half_open"

(* A breaker that a single thread uses, as every worker process uses its own, *)
(* leaves OPEN only for HALF_OPEN and only after the recovery timeout.  With  *)
(* two threads this is false.                                                 *)
THEOREM SingleThreadLeavesOpenByTimeout ==
    ASSUME \A c, d \in Callers : c = d
    PROVE  Spec => LeavesOpenByTimeout
<1> USE DEF TypeOK, CircuitState, Points, DecisionsFresh
<1>1. Init => DecisionsFresh
  BY DEF Init
<1>2. TypeOK /\ DecisionsFresh /\ [Next]_vars => DecisionsFresh'
  <2> SUFFICES ASSUME TypeOK, DecisionsFresh, [Next]_vars PROVE DecisionsFresh'
    OBVIOUS
  <2>1. ASSUME NEW c \in Callers, CallStep(c) PROVE DecisionsFresh'
    <3>1. \A d \in Callers : d = c OBVIOUS
    <3>2. QED
      BY <2>1, <3>1
      DEF CallStep, Call, ShouldAttemptReset, EnterHalfOpen, RecordSuccess,
          CloseSetState, CloseReset, CountFailure, TestFailure, OpenSetState,
          Stamp, Goto
  <2>2. CASE RecoveryTimeout BY <2>2 DEF RecoveryTimeout
  <2>3. CASE ServiceChanges BY <2>3 DEF ServiceChanges
  <2>4. CASE UNCHANGED vars BY <2>4 DEF vars
  <2>5. QED BY <2>1, <2>2, <2>3, <2>4 DEF Next
<1>3. TypeOK /\ DecisionsFresh /\ [Next]_vars
        => [state = "open" /\ state' # "open" =>
                state' = "half_open" /\ timer = "elapsed"]_vars
  BY DEF Next, CallStep, Call, ShouldAttemptReset, EnterHalfOpen, RecordSuccess,
         CloseSetState, CloseReset, CountFailure, TestFailure, OpenSetState,
         Stamp, Goto, RecoveryTimeout, ServiceChanges, vars
<1>4. QED BY <1>1, <1>2, <1>3, TypeCorrect, PTL DEF Spec, LeavesOpenByTimeout
=============================================================================
