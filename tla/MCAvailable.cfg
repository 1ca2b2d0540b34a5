SPECIFICATION AFairSpecFW
CONSTANTS
    vi = vi
    vj = vj
    vt = vt
    Vars <- MCVars
    Tmps <- MCTmps
    Values <- MCValues
    Programs <- MCProgs
INVARIANT TypeOK AvailableHolds OrderIndependent
PROPERTY ImplementsAvailability Grows SweepsEnd
CHECK_DEADLOCK FALSE
