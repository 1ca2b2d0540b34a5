CONSTANTS
    Variables <- MCVariables
    Arrays <- MCArrays
    Limit <- SameLimit
    Static = {"a"}
    ElementSize = 4
    Statements <- MCStatements
    MaxStatements = 4
    MaxCalls = 1
    Values <- MCValues
SPECIFICATION Spec
CHECK_DEADLOCK FALSE
INVARIANTS
    NoMissedViolation
    NoSpuriousTrap
    ComparisonsHold
    DirectionsHold
