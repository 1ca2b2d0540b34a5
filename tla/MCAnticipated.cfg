SPECIFICATION AFairSpec
CONSTANTS
    vi = vi
    vj = vj
    vt = vt
    Vars <- MCVars
    Tmps <- MCTmps
    Values <- MCValues
    Programs <- MCProgs
INVARIANT AnticipatedFails
PROPERTY ImplementsAnticipation Strengthens LoopsEnd
CHECK_DEADLOCK FALSE
