SPECIFICATION FairSpec
CONSTANTS
    vi = vi
    vj = vj
    vt = vt
    Vars <- MCVars
    vu = vu
    Tmps <- MCGlobalTmps
    Values <- MCValues
    CounterWord = 1024
    Programs <- MCProgs
INVARIANT NoMissedViolation NoSpuriousTrap CounterExact
PROPERTY Termination
CHECK_DEADLOCK FALSE
