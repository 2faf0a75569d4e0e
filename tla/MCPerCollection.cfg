SPECIFICATION Spec
CONSTANTS
    Callers = {c1, c2}
    Ids = {i1, i2, i3}
    EdgeIds = {e1}
    Types <- MCTypes
    Labels = {"in", "of"}
    Props = {"code"}
    Values = {"x"}
    Null = Null
    Absent = Absent
    Tables <- MCTables
    TableFor <- MCTableFor
    Declared <- MCDeclared
    Schemas = {"s1", "s2"}
    UniqueKey <- MCUniqueKey
SYMMETRY Symmetry
INVARIANTS
    ListedIsReached
    OneLivePerKey
    EndpointsFit
PROPERTIES
    ImplementsStore
