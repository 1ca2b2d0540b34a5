CONSTANTS
    Programs <- MCPrograms
    Variables <- MCVariables
    Values <- MCValues
SPECIFICATION Spec
CHECK_DEADLOCK FALSE
INVARIANTS
    TypeOK
    NoMissedViolation
    NoSpuriousTrap
    SelectedStores
