SPECIFICATION Spec
CONSTANTS
    i = i
    j = j
    k = k
    Flows <- MCFlows
    Variables = {i, j, k}
    Inputs = {0, 2}
    Wrap = 1000
INVARIANTS
    LoopsHold
    NoMissedViolation
    NoSpuriousTrap
    IndicesKept
CHECK_DEADLOCK FALSE
