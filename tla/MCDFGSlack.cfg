SPECIFICATION Spec
CONSTANTS
    N <- MCN
    Graphs <- MCGraphs
INVARIANTS
    ProducedBeforeUsed
    CycleInWindow
    NoSlack
