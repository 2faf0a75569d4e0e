SPECIFICATION RecurSpec
CONSTANTS
    Wires <- MCWires
    Moments <- MCMoments
    Horizon <- MCHorizon
    MaxEmpty = 40
    Nil = Nil
    Invalid = Invalid
INVARIANTS
    NextIsFirst
    BetweenIsExact
    PeriodIsExact
PROPERTIES
    WireKeepsOccurrences
