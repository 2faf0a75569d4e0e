SPECIFICATION FairSpec
CONSTANTS
    Docs = {d1, bad}
    Valid = {d1}
    MaxVersions = 2
    Callers = {c1, c2, c3}
    Absent = Absent
INVARIANTS
    TypeOK
    OneActive
    NoGaps
PROPERTIES
    ActiveKept
    ImplementsRegistry
    EveryCallEnds
