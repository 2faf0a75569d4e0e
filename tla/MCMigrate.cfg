SPECIFICATION Spec
CONSTANTS
    Processes = {p1, p2}
    Versions <- MCVersions
    NStored = 1
    NObjects = 1
    Columns <- MCColumns
    RunID = "run_id"
    Fields <- MCFields
    Unique <- MCUnique
    IndexNames <- MCIndexNames
    Indexed <- MCIndexed
    MaxRows = 2
    MaxRuns = 3
INVARIANTS
    MigratedCanWrite
    MigratedIsComplete
    UniqueIsEnforced
PROPERTIES
    SecondRunIsANoOp
\* Processes stop starting after MaxRuns runs.
CHECK_DEADLOCK FALSE
