\* The triangle with a predicate on e3 alone: planWCOJoin applies it again after the Intersect.
CONSTANTS
    a = a
    b = b
    c = c
    e1 = e1
    e2 = e2
    e3 = e3
    p1 = p1
    p2 = p2
    NoNode = NoNode
    Nodes <- TriangleNodes
    Rels <- TriangleRels
    Src <- TriangleSrc
    Dst <- TriangleDst
    RecRels <- NoRecRels
    Preds <- OneRelPreds
    PredVars <- OneRelPredVars
    Card <- TriangleCard
    CorrExprsCard = 1
    MAX_LEVEL_TO_PLAN_EXACTLY = 7
    ExploreOrders = FALSE

SPECIFICATION Spec
CHECK_DEADLOCK FALSE

INVARIANT
    PredicatesPlacedOnce
