------------------------- MODULE QueryGraphCollection -----------------------
(***************************************************************************)
(* Planner::enumerateQueryGraphCollection (plan_join_order.cpp): a query   *)
(* graph collection is planned one weakly connected component at a time.  *)
(* Each component gets the predicates it can project and no earlier       *)
(* component took, and is enumerated by enumerateQueryGraph, the          *)
(* JoinOrderEnumerator instanced on that component.  In CORRELATED mode   *)
(* only the first component holding a correlated node keeps the mode and  *)
(* plans the ExpressionsScan; the others are planned as isolated query    *)
(* graphs, and when no component holds one the ExpressionsScan is planned *)
(* on its own.  The components' plans are combined by cross products and *)
(* the predicates no component took are appended as filters.              *)
(***************************************************************************)
EXTENDS Integers, FiniteSets, Sequences

CONSTANTS
    AllNodes, AllRels, Src, Dst, RecRels,
    Preds,           \* info.predicates
    PredVars,        \* the variables of each predicate
    Literals,        \* the predicates whose expressionType is LITERAL
    NoNode, Card, CorrExprsCard, MAX_LEVEL_TO_PLAN_EXACTLY, ExploreOrders,
    NumQueryGraphs,  \* queryGraphCollection.getNumQueryGraphs()
    CompNodes,       \* CompNodes[i]: the query nodes of query graph i
    CompRels,        \* CompRels[i]: the query rels of query graph i
    CorrCandidates   \* what info.corrExprs may hold: query nodes and outer expressions

QueryGraphIdx == 1..NumQueryGraphs
AllElems == AllNodes \cup AllRels
CompElems(i) == CompNodes[i] \cup CompRels[i]

ASSUME CollectionAssumption ==
    /\ NumQueryGraphs \in Nat \ {0}
    /\ CompNodes \in [QueryGraphIdx -> SUBSET AllNodes]
    /\ CompRels \in [QueryGraphIdx -> SUBSET AllRels]
    /\ \A i, j \in QueryGraphIdx : i # j => CompElems(i) \cap CompElems(j) = {}
    /\ \A r \in AllRels : \E i \in QueryGraphIdx :
           r \in CompRels[i] /\ {Src[r], Dst[r]} \subseteq CompNodes[i]
    /\ PredVars \in [Preds -> SUBSET AllElems]
    /\ Literals \subseteq {q \in Preds : PredVars[q] = {}}
    /\ Card \in [SUBSET AllElems -> Nat]

SubqueryTypes == {"NONE", "INTERNAL_ID_CORRELATED", "CORRELATED"}

VARIABLES
    subqueryType, corrNodes, table, pc, level, leftLevel, stage, todo, result,
    infoType,            \* info.subqueryType
    corrExprs,           \* info.corrExprs
    cpc,                 \* "next": before query graph cur; "enum": enumerating it; "done"
    cur,                 \* the loop index i over the query graphs
    evaluated,           \* evaluatedPredicatesIndices
    toEvaluate,          \* predicateToEvaluateIndices of query graph cur
    plansPerQueryGraph,  \* the plans of the query graphs planned so far
    collResult           \* the plans enumerateQueryGraphCollection returns

enumVars == <<subqueryType, corrNodes, table, pc, level, leftLevel, stage, todo, result>>
collVars == <<infoType, corrExprs, cpc, cur, evaluated, toEvaluate, plansPerQueryGraph,
              collResult>>
vars == <<enumVars, collVars>>

(* enumerateQueryGraph on query graph i with the predicates P. *)
Comp(i, P) == INSTANCE JoinOrderEnumerator
    WITH Nodes <- CompNodes[i], Rels <- CompRels[i],
         Src <- [r \in CompRels[i] |-> Src[r]], Dst <- [r \in CompRels[i] |-> Dst[r]],
         RecRels <- RecRels \cap CompRels[i],
         Preds <- P, PredVars <- [q \in P |-> PredVars[q]],
         Card <- [S \in SUBSET CompElems(i) |-> Card[S]]

(* The plan operators over the whole collection. *)
G == INSTANCE LogicalPlan WITH Nodes <- AllNodes, Rels <- AllRels

(***************************************************************************)
(* A plan of query graph i seen in the whole collection: it has no         *)
(* operator on the elements and predicates of the other query graphs.      *)
(***************************************************************************)
ZeroExtend(f, D) == [x \in D |-> IF x \in DOMAIN f THEN f[x] ELSE 0]

Lift(p) ==
    [cost |-> p.cost, card |-> p.card, seq |-> p.seq, scope |-> p.scope,
     nodeScans |-> ZeroExtend(p.nodeScans, AllNodes),
     idScans |-> ZeroExtend(p.idScans, AllNodes),
     extends |-> ZeroExtend(p.extends, AllRels),
     filters |-> ZeroExtend(p.filters, Preds), exprScans |-> p.exprScans]

(* appendCrossProduct(left, right): cost and schema of both children. *)
AppendCrossProduct(l, r) ==
    [cost |-> l.cost + r.cost, card |-> l.card * r.card, seq |-> NoNode,
     scope |-> l.scope \cup r.scope,
     nodeScans |-> G!BagAdd(l.nodeScans, r.nodeScans),
     idScans |-> G!BagAdd(l.idScans, r.idScans),
     extends |-> G!BagAdd(l.extends, r.extends),
     filters |-> G!BagAdd(l.filters, r.filters),
     exprScans |-> G!SatAdd(l.exprScans, r.exprScans)]

(* planCrossProduct: every left plan with every right plan. *)
PlanCrossProduct(left, right) == {AppendCrossProduct(l, r) : l \in left, r \in right}

(* Mutant: the result of planCrossProduct is not assigned back to result. *)
CrossProductsUnassigned(s) == s[1]

(* "Take cross products": result = plansPerQueryGraph[0] x ... x [n - 1]. *)
CrossProducts(s) ==
    LET X[k \in 1..Len(s)] == IF k = 1 THEN s[1] ELSE PlanCrossProduct(X[k - 1], s[k])
    IN  X[Len(s)]

-----------------------------------------------------------------------------
(* getConnectedQueryGraphIdx: the first query graph with a correlated node, or -1. *)
ConnectedQueryGraphIdx ==
    LET hosts == {i \in QueryGraphIdx : CompNodes[i] \cap corrExprs # {}}
    IN  IF hosts = {} THEN -1 ELSE CHOOSE i \in hosts : \A j \in hosts : i <= j

(* queryGraphIdxToPlanExpressionsScan *)
ExpressionsScanIdx == IF infoType = "CORRELATED" THEN ConnectedQueryGraphIdx ELSE -1

(* Mutant: the LITERAL check is dropped. *)
PredicatesToEvaluateWithLiterals(i) ==
    {q \in Preds : q \notin evaluated /\ PredVars[q] \subseteq CompElems(i)}

(***************************************************************************)
(* The predicates query graph i evaluates: not a literal, not taken by an  *)
(* earlier query graph, and canProjectExpression, i.e. every variable of   *)
(* the predicate is an element of query graph i.                           *)
(***************************************************************************)
PredicatesToEvaluate(i) ==
    {q \in Preds \ Literals : q \notin evaluated /\ PredVars[q] \subseteq CompElems(i)}

(* newInfo.subqueryType: the switch over info.subqueryType. *)
QueryGraphMode(i) ==
    IF infoType = "CORRELATED" /\ i # ExpressionsScanIdx THEN "NONE" ELSE infoType

(***************************************************************************)
(* The ExpressionsScan planned on its own, followed by a Distinct.  The    *)
(* code sets no cardinality on it; the estimator's default is not under    *)
(* src/, and the model keeps CorrExprsCard, which nothing after the cross  *)
(* products reads.                                                         *)
(***************************************************************************)
IndependentExpressionsScan == G!AppendDistinct(G!ExpressionsScan(corrExprs \cap AllNodes))

-----------------------------------------------------------------------------

Init ==
    /\ infoType \in SubqueryTypes
    /\ corrExprs \in (CASE infoType = "NONE" -> {{}}
                        [] infoType = "INTERNAL_ID_CORRELATED" -> SUBSET (CorrCandidates \cap AllNodes)
                        [] infoType = "CORRELATED" -> (SUBSET CorrCandidates) \ {{}})
    /\ cpc = "next"
    /\ cur = 1
    /\ evaluated = {}
    /\ toEvaluate = {}
    /\ plansPerQueryGraph = <<>>
    /\ collResult = {}
    /\ subqueryType = "NONE" /\ corrNodes = {} /\ table = [S \in {} |-> {}]
    /\ pc = "done" /\ level = 0 /\ leftLevel = 0 /\ stage = "inner" /\ todo = {}
    /\ result = {}

(* The head of the loop body: extract the predicates, set up newInfo, call enumerateQueryGraph. *)
StartQueryGraph ==
    /\ cpc = "next"
    /\ cur \in QueryGraphIdx
    /\ LET P == PredicatesToEvaluate(cur)
           mode == QueryGraphMode(cur)
       IN  /\ evaluated' = evaluated \cup P
           /\ toEvaluate' = P
           /\ subqueryType' = mode
           /\ corrNodes' = IF mode = "NONE" THEN {} ELSE corrExprs \cap CompNodes[cur]
           /\ table' = [S \in SUBSET CompElems(cur) |-> {}]
           /\ pc' = "scan" /\ level' = 0 /\ leftLevel' = 0 /\ stage' = "inner"
           /\ todo' = {} /\ result' = {}
    /\ cpc' = "enum"
    /\ UNCHANGED <<infoType, corrExprs, cur, plansPerQueryGraph, collResult>>

(* One step of enumerateQueryGraph on the current query graph. *)
PlanQueryGraph ==
    /\ cpc = "enum"
    /\ \E i \in {cur}, P \in {toEvaluate} : Comp(i, P)!Next
    /\ UNCHANGED collVars

(* Mutant: the plans are taken before enumerateQueryGraph has returned. *)
CollectPlansEarly ==
    /\ cpc = "enum"
    /\ plansPerQueryGraph' = Append(plansPerQueryGraph, {Lift(p) : p \in result})
    /\ cur' = cur + 1
    /\ cpc' = "next"
    /\ UNCHANGED <<enumVars, infoType, corrExprs, evaluated, toEvaluate, collResult>>

(* plansPerQueryGraph.push_back(plans) *)
CollectPlans ==
    /\ cpc = "enum"
    /\ pc = "done"
    /\ plansPerQueryGraph' = Append(plansPerQueryGraph, {Lift(p) : p \in result})
    /\ cur' = cur + 1
    /\ cpc' = "next"
    /\ UNCHANGED <<enumVars, infoType, corrExprs, evaluated, toEvaluate, collResult>>

(* Mutant: the independent ExpressionsScan of the -1 case is never planned. *)
FinishCollectionNoExpressionsScan ==
    /\ cpc = "next"
    /\ cur = NumQueryGraphs + 1
    /\ collResult' = {G!AppendFilters(p, Preds \ evaluated) : p \in CrossProducts(plansPerQueryGraph)}
    /\ cpc' = "done"
    /\ UNCHANGED <<enumVars, infoType, corrExprs, cur, evaluated, toEvaluate,
                   plansPerQueryGraph>>

(* Mutant: the loop is taken to end one index past the last query graph. *)
FinishCollectionPastEnd ==
    /\ cpc = "next"
    /\ cur = NumQueryGraphs + 2
    /\ collResult' = {G!AppendFilters(p, Preds \ evaluated) : p \in CrossProducts(plansPerQueryGraph)}
    /\ cpc' = "done"
    /\ UNCHANGED <<enumVars, infoType, corrExprs, cur, evaluated, toEvaluate,
                   plansPerQueryGraph>>

(***************************************************************************)
(* After the loop: the independent ExpressionsScan when no query graph     *)
(* planned it, the cross products, and a Filter for every predicate no     *)
(* query graph evaluated.                                                  *)
(***************************************************************************)
FinishCollection ==
    /\ cpc = "next"
    /\ cur = NumQueryGraphs + 1
    /\ LET all == IF infoType = "CORRELATED" /\ ExpressionsScanIdx = -1
                  THEN Append(plansPerQueryGraph, {IndependentExpressionsScan})
                  ELSE plansPerQueryGraph
           remaining == Preds \ evaluated
       IN  collResult' = {G!AppendFilters(p, remaining) : p \in CrossProducts(all)}
    /\ cpc' = "done"
    /\ UNCHANGED <<enumVars, infoType, corrExprs, cur, evaluated, toEvaluate,
                   plansPerQueryGraph>>

Next ==
    \/ StartQueryGraph
    \/ PlanQueryGraph
    \/ CollectPlans
    \/ FinishCollection

(* The planner runs the call to its end on one worker. *)
Spec == Init /\ [][Next]_vars /\ WF_vars(Next)

-----------------------------------------------------------------------------
(* Type invariant of the collection's own variables. *)
TypeOK ==
    /\ infoType \in SubqueryTypes
    /\ corrExprs \subseteq CorrCandidates
    /\ cpc \in {"next", "enum", "done"}
    /\ cur \in 1..NumQueryGraphs + 1
    /\ evaluated \subseteq Preds \ Literals
    /\ toEvaluate \subseteq evaluated
    /\ plansPerQueryGraph \in Seq(SUBSET G!Plan)
    /\ Len(plansPerQueryGraph) = cur - 1
    /\ collResult \subseteq G!Plan

(***************************************************************************)
(* Coverage across the collection (spec 8.2 and 8.8): every plan the call  *)
(* returns extends every query rel of every component exactly once, has   *)
(* every query node in scope, and scans with properties exactly the nodes *)
(* that are not correlated: in CORRELATED mode a correlated node is bound *)
(* by the ExpressionsScan, never by a ScanNodeTable, whichever component   *)
(* it lies in.                                                             *)
(***************************************************************************)
CollectionCoverage ==
    cpc = "done" =>
        \A p \in collResult :
            /\ p.extends = G!Indicator(AllRels, AllRels)
            /\ AllNodes \subseteq p.scope
            /\ p.nodeScans = G!Indicator(AllNodes,
                                {n \in AllNodes : infoType = "NONE" \/ n \notin corrExprs})

(***************************************************************************)
(* Predicate placement across the collection (spec 8.3): every predicate   *)
(* of info.predicates, literal, local to one component or spanning         *)
(* several, is filtered exactly once in every plan returned.  It takes the *)
(* per-component predicate split, the evaluated set and the trailing       *)
(* appendFilter loop together to get this right.                           *)
(***************************************************************************)
PredicatesAppliedOnce ==
    cpc = "done" => \A p \in collResult : p.filters = G!Indicator(Preds, Preds)

(***************************************************************************)
(* Correlation (spec 8.8): a CORRELATED call returns plans with exactly    *)
(* one ExpressionsScan, planned by the first component holding a           *)
(* correlated node or, when there is none, on its own; other calls plan    *)
(* none.                                                                   *)
(***************************************************************************)
ExpressionsScanOnce ==
    cpc = "done" =>
        \A p \in collResult : p.exprScans = IF infoType = "CORRELATED" THEN 1 ELSE 0

(***************************************************************************)
(* Completeness (spec 7 and 8.1): the call returns at least one plan for   *)
(* the collection, so the cross product of the components is never empty. *)
(***************************************************************************)
CollectionCompleteness == cpc = "done" => collResult # {}

(* The call plans every component and returns. *)
CollectionTermination == <>(cpc = "done")

=============================================================================
