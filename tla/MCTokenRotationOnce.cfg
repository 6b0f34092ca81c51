CONSTANTS
    t1 = t1
    t2 = t2
    t3 = t3
    c1 = c1
    c2 = c2
    None = None
    MaxCreated = 2
    Tokens <- SomeTokens
    Calls <- TwoCalls
    ExpiryCompares = TRUE
    MaxSessions = 1
    MaxMishaps = 0
SPECIFICATION Spec
SYMMETRY Symmetric
INVARIANT
    OneTimeUse
CHECK_DEADLOCK FALSE
