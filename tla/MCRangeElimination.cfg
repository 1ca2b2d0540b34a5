SPECIFICATION Spec
CONSTANTS
    Programs <- MCPrograms
    Variables <- MCVariables
    Values <- MCValues
INVARIANTS
    NoMissedViolation
    NoSpuriousTrap
PROPERTY
    Terminates
CHECK_DEADLOCK FALSE
