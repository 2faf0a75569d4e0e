SPECIFICATION FairSpec
CONSTANTS
    Names = {n1}
    Callers = {c1, c2}
    MaxCalls = 3
    Versions <- MCVersions
    Values <- MCValues
    Declares <- MCDeclares
    Shape <- MCShape
    Default <- MCDefault
    Document <- MCDocument
    Unreadable = Unreadable
    Nil = Nil
    Absent = Absent
INVARIANTS
    LogAccountsForOverrides
    StoredIsServed
    StaleRowsAreExplained
PROPERTIES
    ChangesAreLogged
    EveryCallEnds
\* Callers stop calling after MaxCalls calls.
CHECK_DEADLOCK FALSE
