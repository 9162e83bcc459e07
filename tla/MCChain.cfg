\* The chain a->b->c, exact up to level 3 and approximate above, in every visiting order and subquery mode.
CONSTANTS
    a = a
    b = b
    c = c
    e1 = e1
    e2 = e2
    e3 = e3
    p1 = p1
    p2 = p2
    NoNode = NoNode
    Nodes <- ChainNodes
    Rels <- ChainRels
    Src <- ChainSrc
    Dst <- ChainDst
    RecRels <- NoRecRels
    Preds <- TwoNodePreds
    PredVars <- TwoNodePredVars
    Card <- ChainCard
    CorrExprsCard = 1
    MAX_LEVEL_TO_PLAN_EXACTLY = 3
    ExploreOrders = TRUE

SPECIFICATION Spec
CHECK_DEADLOCK FALSE

INVARIANTS
    PlanCoverage
    Completeness

PROPERTIES
    Termination
