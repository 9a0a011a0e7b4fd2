SPECIFICATION FairSpec
CONSTANT Loops <- MCLoops
INVARIANTS
    TypeOK
    RecursionEnds
    OneNodePerInst
    OperandsBecomeEdges
    AntiEdgesEndInPhi
    RootFeedsTheRest
PROPERTY ConstructionEnds
CHECK_DEADLOCK FALSE
