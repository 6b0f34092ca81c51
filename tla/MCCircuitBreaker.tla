--------------------------- MODULE MCCircuitBreaker ---------------------------
(* Three threads: the smallest number at which one can reopen the breaker     *)
(* while a second enters HALF_OPEN on an old decision and a third closes it.  *)
EXTENDS CircuitBreaker

CONSTANTS c1, c2, c3

ThreeThreads == {c1, c2, c3}
=============================================================================
