\* MATCH (a)-[e1]->(b), (c) in CORRELATED mode with correlated nodes in both components: the second is planned uncorrelated and scans its correlated node.
CONSTANTS
    a = a
    b = b
    c = c
    d = d
    e1 = e1
    e2 = e2
    o = o
    p1 = p1
    p2 = p2
    p3 = p3
    lit = lit
    NoNode = NoNode
    AllNodes <- PairNodes
    AllRels <- PairRels
    Src <- PairSrc
    Dst <- PairDst
    RecRels <- NoRecRels
    Preds <- CollPreds
    PredVars <- MCPairPredVars
    Literals <- CollLiterals
    Card <- MCPairCard
    CorrExprsCard = 1
    MAX_LEVEL_TO_PLAN_EXACTLY = 5
    ExploreOrders = TRUE
    NumQueryGraphs = 2
    CompNodes <- PairCompNodes
    CompRels <- PairCompRels
    CorrCandidates <- BothCompCandidates

SPECIFICATION Spec
CHECK_DEADLOCK FALSE

INVARIANT
    CollectionCoverage
