SPECIFICATION Spec
CONSTANTS
    Specs <- MCSpecs
    Methods <- MCMethods
    PathParams <- MCPathParams
    Anonymous <- MCAnonymous
    Requests <- MCRequests
    Sessions <- MCSessions
    Outcomes <- MCOutcomes
    Errors <- MCErrors
    Sentinels <- MCSentinels
    Alphabet <- MCAlphabet
    Literals <- MCLiterals
    ToolNames <- MCToolNames
    Ids = {"c1", "c2"}
    None = None
    Error = Error
INVARIANTS
    CalledIsAllowed
    DoorsBindAlike
    AddressOutranksTheBody
CHECK_DEADLOCK FALSE
