SPECIFICATION FairPutSpec
CONSTANTS
    Publishers = {p1, p2}
    MaxPuts = 3
    Names <- MCNames
    Versions <- MCVersions
    Values <- MCValues
    Declares <- MCDeclares
    Shape <- MCShape
    Default <- MCDefault
    Document <- MCDocument
    Unreadable = Unreadable
    Nil = Nil
    Absent = Absent
INVARIANTS
    PutsAreWhole
    StoredFits
PROPERTIES
    EveryPutEnds
\* Publishers stop publishing after MaxPuts puts.
CHECK_DEADLOCK FALSE
