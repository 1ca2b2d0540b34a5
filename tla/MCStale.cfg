CONSTANTS
    Programs <- Stale
    Variables <- MCVariables
    Arrays <- MCArrays
    Limit <- MCLimit
    Static <- MCArrays
    ElementSize = 1
    Values <- MCValues
SPECIFICATION FairSpec
CHECK_DEADLOCK FALSE
INVARIANTS
    Available
