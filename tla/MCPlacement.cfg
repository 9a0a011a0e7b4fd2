SPECIFICATION FairSpec
CONSTANTS
    Problems <- MCProblems
    Mappers <- MCMappers
INVARIANTS
    TypeOK
    LegalInsideInterval
    UnitsUsedOnce
    StopsOnlyIfUnmappable
PROPERTIES
    ImplementsSearch
    SearchReturns
CHECK_DEADLOCK FALSE
