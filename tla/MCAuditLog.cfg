CONSTANTS
    c1 = c1
    c2 = c2
    c3 = c3
    c4 = c4
    s1 = s1
    s2 = s2
    Calls <- FourCalls
    Sessions <- TwoSessions
    SessionOf <- ThreeRacing
    MaxAttempts = 3
SPECIFICATION Spec
INVARIANTS
    TypeOK
    ChainIntact
    RecordedOnce
PROPERTIES
    ImplementsTrail
CHECK_DEADLOCK FALSE
