SPECIFICATION FairSpec
CONSTANTS
    Calls <- MCRandom
    MAXT <- MCMAXT
INVARIANT StopsWhenFound
CHECK_DEADLOCK FALSE
