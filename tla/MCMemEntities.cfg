SPECIFICATION MemSpec
CONSTANTS
    c1 = c1
    c2 = c2
    d1 = d1
    d2 = d2
    id1 = id1
    id2 = id2
    e1 = e1
    t1 = t1
    Docs <- MCDocs
    Valid = {d1, d2}
    MaxVersions = 2
    Callers <- MCCallers
    Absent = Absent
    Ids <- MCIds
    EdgeIds = {e1}
    Types = {t1}
    Labels = {"holds"}
    Props <- MCProps
    Documents <- MCDocuments
    Unencodable = {2}
    Nil = Nil
    UniqueKey <- MCUniqueKey
SYMMETRY Symmetry
INVARIANTS
    UpsertsDoNotMultiply
PROPERTIES
    ImplementsRegistry
CHECK_DEADLOCK FALSE
