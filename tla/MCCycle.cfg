\* Scenario E, the 2-cycle a->b->a, planned exactly, in every visiting order and subquery mode.
CONSTANTS
    a = a
    b = b
    c = c
    e1 = e1
    e2 = e2
    e3 = e3
    p1 = p1
    p2 = p2
    NoNode = NoNode
    Nodes <- CycleNodes
    Rels <- CycleRels
    Src <- CycleSrc
    Dst <- CycleDst
    RecRels <- NoRecRels
    Preds <- TwoNodePreds
    PredVars <- CyclePredVars
    Card <- CycleCard
    CorrExprsCard = 1
    MAX_LEVEL_TO_PLAN_EXACTLY = 7
    ExploreOrders = TRUE

SPECIFICATION Spec
CHECK_DEADLOCK FALSE

INVARIANTS
    PlanCoverage
    PredicatesPlacedOnce
    Completeness
