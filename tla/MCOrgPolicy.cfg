SPECIFICATION PolicySpec
CONSTANTS
    Handlers = {h1, h2}
    Members = {m1, m2}
    Exists = {m1}
    Numbers <- MCNumbers
    Defaults <- MCDefault
    Unset = Unset
    MaxWrites = 3
    MaxRaises = 1
SYMMETRY HandlerSymmetry
PROPERTIES
    LostOnlyInOverlap
\* Handlers stop after MaxWrites writes.
CHECK_DEADLOCK FALSE
