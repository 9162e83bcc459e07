\* MATCH (a)-[e1]->(b), (c) WHERE a non-literal predicate without variables: it is marked evaluated by the first component and applied nowhere.
CONSTANTS
    a = a
    b = b
    c = c
    d = d
    e1 = e1
    e2 = e2
    o = o
    p1 = p1
    p2 = p2
    p3 = p3
    lit = lit
    NoNode = NoNode
    AllNodes <- PairNodes
    AllRels <- PairRels
    Src <- PairSrc
    Dst <- PairDst
    RecRels <- NoRecRels
    Preds <- VarlessPreds
    PredVars <- MCVarlessPredVars
    Literals <- CollLiterals
    Card <- MCPairCard
    CorrExprsCard = 1
    MAX_LEVEL_TO_PLAN_EXACTLY = 5
    ExploreOrders = TRUE
    NumQueryGraphs = 2
    CompNodes <- PairCompNodes
    CompRels <- PairCompRels
    CorrCandidates <- FirstCompCandidates

SPECIFICATION Spec
CHECK_DEADLOCK FALSE

INVARIANT
    PredicatesAppliedOnce
