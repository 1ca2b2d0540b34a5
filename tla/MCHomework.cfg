SPECIFICATION Spec
CONSTANTS
    x = x
    y = y
    z = z
    Variables = {x, y, z}
    Programs <- MCPrograms
INVARIANTS
    Reported
    ConstantsHold
PROPERTY
    Terminates
CHECK_DEADLOCK FALSE
