CONSTANTS
    r1 = r1
    r2 = r2
    u1 = u1
    u2 = u2
    k1 = k1
    k2 = k2
    script = script
    repeater = repeater
    None = None
    Requests <- TwoRequests
    Users <- TwoUsers
    Secrets <- TwoSecrets
    Fingerprints <- TwoFingerprints
    Scripted <- OnlyScript
    Dense <- TwoFingerprints
    ClusterSize = 1
    SignalTTL = 1
    Stores <- BothStores
    Limit = 2
    Window = 2
    MaxRequests = 4
    MaxTime = 2
    MaxFaults = 1
SPECIFICATION Spec
INVARIANTS
    TypeOK
    DeadSecretsStayDead
    
PROPERTY
    BlocksEscalate
SYMMETRY GateSymmetry
CHECK_DEADLOCK FALSE
