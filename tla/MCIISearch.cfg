SPECIFICATION FairSpec
CONSTANTS
    Calls <- MCCalls
    MAXT <- MCMAXT
INVARIANTS
    TypeOK
    FirstFound
    SolutionKept
    OneOverrun
PROPERTY SearchEnds
CHECK_DEADLOCK FALSE
