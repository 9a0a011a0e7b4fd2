SPECIFICATION FairSpec
CONSTANTS
    Searches <- MCSearches
    EdgesOf <- MCEdgesOf
    MaxPath <- MCMaxPath
INVARIANTS
    TypeOK
    FindsAllWalks
    ReturnsOnlyWithinInterval
PROPERTY SearchEnds
CHECK_DEADLOCK FALSE
