\* Scenario D: MATCH (a)-[e1]->(b), (c)-[e2]->(d) with a cross-component, a local and a literal predicate, in every subquery mode.
CONSTANTS
    a = a
    b = b
    c = c
    d = d
    e1 = e1
    e2 = e2
    o = o
    p1 = p1
    p2 = p2
    p3 = p3
    lit = lit
    NoNode = NoNode
    AllNodes <- TwoEdgeNodes
    AllRels <- TwoEdgeRels
    Src <- TwoEdgeSrc
    Dst <- TwoEdgeDst
    RecRels <- NoRecRels
    Preds <- CollPreds
    PredVars <- MCPairPredVars
    Literals <- CollLiterals
    Card <- MCTwoEdgeCard
    CorrExprsCard = 1
    MAX_LEVEL_TO_PLAN_EXACTLY = 5
    ExploreOrders = TRUE
    NumQueryGraphs = 2
    CompNodes <- TwoEdgeCompNodes
    CompRels <- TwoEdgeCompRels
    CorrCandidates <- FirstCompCandidates

SPECIFICATION Spec
CHECK_DEADLOCK FALSE

INVARIANTS
    
    CollectionCoverage
    PredicatesAppliedOnce
    ExpressionsScanOnce
    CollectionCompleteness

PROPERTIES
    CollectionTermination
