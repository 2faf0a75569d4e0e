SPECIFICATION Spec
SYMMETRY Symmetry
CONSTANTS
    p1 = p1
    p2 = p2
    Processes <- MCProcesses
    NObjects = 2
    NLegacy = 2
    Fields <- MCFields
    Columns <- MCColumns
    Start <- MCStart
    None = None
    Empty = Empty
    Ahead = Ahead
    MaxRuns = 4
    MaxRows = 1
INVARIANTS
    
    
    LegacyIndexesGo
CHECK_DEADLOCK FALSE
