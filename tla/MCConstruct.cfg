SPECIFICATION FairSpec
CONSTANTS
    Functions <- MCFunctions
INVARIANT TypeOK FlowKept Consistent Survives
PROPERTY Termination
CHECK_DEADLOCK FALSE
