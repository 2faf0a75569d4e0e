SPECIFICATION Spec
SYMMETRY Symmetry
CONSTANTS
    r1 = r1
    r2 = r2
    k1 = k1
    w1 = w1
    Fields <- FieldType
    Carriers <- CarrierType
    NObjects = 2
    Runs <- MCRuns
    Live = Live
    Keys <- MCKeys
    Workers <- MCWorkers
    Null = Null
    Error = Error
    Idle = Idle
    MaxInserts = 2
    MaxAsked = 1
    MaxJobs = 2
INVARIANTS
    AckedIsReadBack
    
    UnsetFindsTheUnset
CHECK_DEADLOCK FALSE
