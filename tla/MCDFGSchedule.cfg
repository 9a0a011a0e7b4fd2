SPECIFICATION FairSpec
CONSTANTS
    N <- MCN
    Graphs <- MCGraphs
INVARIANTS
    TypeOK
    RecMIIIsLowerBound
PROPERTIES
    CyclesFrozen
    AnswerComes
