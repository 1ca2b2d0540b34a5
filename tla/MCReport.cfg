SPECIFICATION Spec
CONSTANTS
    vi = vi
    vj = vj
    vt = vt
    Vars <- MCVars
    vu = vu
    Tmps <- MCGlobalTmps
    Values <- ReportValues
    CounterWord = 1024
    Programs <- ReportProgs
INVARIANT TerminatesOnViolation
CHECK_DEADLOCK FALSE
