CONSTANTS
    s1 = s1
    s2 = s2
    k1 = k1
    u1 = u1
    u2 = u2
    c1 = c1
    c2 = c2
    Sessions <- TwoSessions
    Keys <- OneKey
    StartKeys <- OneKey
    Users <- TwoUsers
    Calls <- TwoCalls
    None = None
    TimestampLoads = TRUE
    Faults <- AllFaults
    MaxFaults = 1
SPECIFICATION Spec
SYMMETRY Interchangeable
INVARIANTS
    TypeOK
    OneInvestigationPerKey
    
    ConclusionJustified
PROPERTIES
    EndedStands
