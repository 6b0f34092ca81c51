CONSTANTS
    c1 = c1
    c2 = c2
    c3 = c3
    Callers <- ThreeThreads
    FailureThreshold = 3
    SuccessThreshold = 2
    MaxCount = 5
SPECIFICATION Spec
INVARIANTS
    ClosedBelowThreshold
    HalfOpenBelowThreshold
