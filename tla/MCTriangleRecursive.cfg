\* The triangle with e3 variable-length, so WCO finds no build plan for it, one visiting order, every subquery mode.
CONSTANTS
    a = a
    b = b
    c = c
    e1 = e1
    e2 = e2
    e3 = e3
    p1 = p1
    p2 = p2
    NoNode = NoNode
    Nodes <- TriangleNodes
    Rels <- TriangleRels
    Src <- TriangleSrc
    Dst <- TriangleDst
    RecRels <- RecursiveE3
    Preds <- TwoNodePreds
    PredVars <- TwoNodePredVars
    Card <- TriangleCard
    CorrExprsCard = 1
    MAX_LEVEL_TO_PLAN_EXACTLY = 7
    ExploreOrders = FALSE

SPECIFICATION Spec
CHECK_DEADLOCK FALSE

INVARIANTS
    PredicatesPlacedOnce
    Completeness
