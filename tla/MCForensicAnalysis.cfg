CONSTANTS
    t1 = t1
    t2 = t2
    t3 = t3
    deed = deed
    map = map
    None = None
    Tasks <- ThreeTasks
    Files <- TwoFiles
    Rejected <- OnlyMap
    MaxConcurrent = 2
    MaxCalls = 2
    LimiterCalls = 3
    Period = 2
    CacheTTL = 1
    MaxFiles = 2
    MaxAnalyses = 5
    MaxTime = 2
SPECIFICATION Spec
SYMMETRY TaskSymmetry
INVARIANTS
    TypeOK
    CallsBounded
