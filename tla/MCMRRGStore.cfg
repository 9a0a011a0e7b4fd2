SPECIFICATION Spec
CONSTANTS
    m1 = m1
    m2 = m2
    op = op
    edge = edge
    Objects <- MCObjects
    Ops <- MCOps
    Edges <- MCEdges
    Array <- MCArray
    IIs <- MCIIs
    MaxT <- MCMaxT
    MaxID <- MCMaxID
    MaxRoute <- MCMaxRoute
    UsedPEs <- MCUsedPEs
SYMMETRY MCSymmetry
INVARIANTS
    TypeOK
    GraphIsMRRG
    OwnPointers
    CopiesAgree
    RoutesCopySafely
CHECK_DEADLOCK FALSE
