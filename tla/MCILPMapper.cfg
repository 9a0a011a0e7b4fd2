SPECIFICATION FairSpec
CONSTANT Problems <- MCProblems
INVARIANTS
    TypeOK
    SpanWithinII
    DoublesGoOn
    OperandsTravelTogether
PROPERTIES
    ImplementsModuloMapping
    CoveredProblemsReturn
CHECK_DEADLOCK FALSE
