-------------------------- MODULE JoinOrderEnumerator -----------------------
(***************************************************************************)
(* Planner::enumerateQueryGraph (src/src/planner/plan/plan_join_order.cpp) *)
(* for one connected query graph without a join-order hint: the base table *)
(* scans fill level 1 of the SubPlansTable, then every level k from 2 to   *)
(* the number of nodes plus rels is planned from the levels below it, by   *)
(* WCO intersections, index-nested-loop extends and hash joins, and the    *)
(* plans of the fully matched SubqueryGraph are returned.                  *)
(*                                                                         *)
(* The enumerator is sequential.  Its nondeterminism is the order in which *)
(* it visits the SubqueryGraphs of a level and their neighbours: they come *)
(* out of unordered maps and sets, whose iteration order is left to the    *)
(* standard library.  Each (subgraph, neighbour) or (subgraph, intersect   *)
(* node) pair is one step, so every order is explored; because a hash join *)
(* is pruned against the cheapest plan found so far, the order decides     *)
(* which plans survive.                                                    *)
(***************************************************************************)
EXTENDS LogicalPlan

CONSTANTS
    MAX_LEVEL_TO_PLAN_EXACTLY,
    ExploreOrders  \* TRUE: every visiting order of a target's work items; FALSE: one

ASSUME LevelBoundAssumption ==
    /\ MAX_LEVEL_TO_PLAN_EXACTLY \in Nat
    /\ ExploreOrders \in BOOLEAN

SubqueryTypes == {"NONE", "INTERNAL_ID_CORRELATED", "CORRELATED"}

VARIABLES
    subqueryType,  \* info.subqueryType
    corrNodes,     \* the query nodes whose internal ID is in info.corrExprs
    table,         \* the SubPlansTable: table[S] is the set of plans of S
    pc,            \* "scan" before planBaseTableScans, "plan" while levels run, "done"
    level,         \* the level being planned (context.currentLevel)
    leftLevel,     \* the left level of the split being planned
    stage,         \* "wco" while planWCOJoin runs for the split, "inner" for planInnerJoin
    todo,          \* the (subgraph, neighbour / intersect node) pairs of the stage not yet visited
    result         \* the plans enumerateQueryGraph returns

vars == <<subqueryType, corrNodes, table, pc, level, leftLevel, stage, todo, result>>

(* context.maxLevel: levels run while currentLevel < maxLevel. *)
MaxLevel == Cardinality(Elems) + 1

WorkItem ==
    [right : SUBSET Elems, nbr : SUBSET Elems, node : Nodes \cup {NoNode}]

TypeOK ==
    /\ subqueryType \in SubqueryTypes
    /\ corrNodes \in SUBSET Nodes
    /\ table \in [SUBSET Elems -> SUBSET Plan]
    /\ pc \in {"scan", "plan", "done"}
    /\ level \in Nat
    /\ leftLevel \in Nat
    /\ stage \in {"wco", "inner"}
    /\ todo \in SUBSET WorkItem
    /\ result \in SUBSET Plan

-----------------------------------------------------------------------------
(* SubPlansTable *)

(* getSubqueryGraphs(level) *)
SubqueryGraphsAt(k) == {S \in SUBSET Elems : Level(S) = k /\ table[S] # {}}

(* Variant: a ceiling that starts at 0 instead of the largest cost. *)
CostBelowMaxFromZero(c, S) == table[S] # {} /\ \A p \in table[S] : c < p.cost

(***************************************************************************)
(* "cost < getMaxCost(S)": the table keeps the cheapest cost of S as its   *)
(* pruning ceiling, which is unbounded while S has no plan.                *)
(***************************************************************************)
CostBelowMax(c, S) == \A p \in table[S] : c < p.cost

(* Variant: addPlan overwrites the plan list of S. *)
AddPlansOverwrite(S, plans) == table' = [table EXCEPT ![S] = plans]

AddPlans(S, plans) == table' = [table EXCEPT ![S] = @ \cup plans]

-----------------------------------------------------------------------------
(* planBaseTableScans and the scans it calls *)

(* planNodeScan *)
PlanNodeScan(n) == AppendFilters(ScanNodeTable(n, TRUE), NewlyMatched({{}}, {n}))

(* planNodeIDScan: no properties, and no filters appended. *)
PlanNodeIDScan(n) == ScanNodeTable(n, FALSE)

(* Variant: both directions start from the source node. *)
PlanRelScanFromSrc(r) ==
    {AppendFilters(AppendExtend(ScanNodeTable(Src[r], FALSE), r, NbrNode(r, fwd), {r}),
                   NewlyMatched({{}}, {r})) : fwd \in BOOLEAN}

(* planRelScan: one plan extending from the source, one from the destination. *)
PlanRelScan(r) ==
    {AppendFilters(AppendExtend(ScanNodeTable(BoundNode(r, fwd), FALSE),
                                r, NbrNode(r, fwd), {r}),
                   NewlyMatched({{}}, {r})) : fwd \in BOOLEAN}

(* planCorrelatedExpressionsScan *)
PlanCorrelatedExpressionsScan ==
    AppendDistinct(AppendFilters(ExpressionsScan(corrNodes), NewlyMatched({{}}, corrNodes)))

(* The node-scan loop of planBaseTableScans, per subquery type. *)
NodeScanPlans(n) ==
    CASE subqueryType = "NONE" -> {PlanNodeScan(n)}
      [] subqueryType = "INTERNAL_ID_CORRELATED" ->
            IF n \in corrNodes THEN {PlanNodeIDScan(n)} ELSE {PlanNodeScan(n)}
      [] subqueryType = "CORRELATED" ->
            IF n \in corrNodes THEN {} ELSE {PlanNodeScan(n)}

(* Variant: the ExpressionsScan is planned in every correlated mode. *)
BaseTableExprScanAnyMode ==
    [S \in SUBSET Elems |->
        (UNION {NodeScanPlans(n) : n \in {m \in Nodes : S = {m}}})
        \cup (UNION {PlanRelScan(r) : r \in {x \in Rels : S = {x}}})
        \cup (IF subqueryType # "NONE" /\ S = corrNodes
              THEN {PlanCorrelatedExpressionsScan} ELSE {})]

BaseTable ==
    [S \in SUBSET Elems |->
        (UNION {NodeScanPlans(n) : n \in {m \in Nodes : S = {m}}})
        \cup (UNION {PlanRelScan(r) : r \in {x \in Rels : S = {x}}})
        \cup (IF subqueryType = "CORRELATED" /\ S = corrNodes
              THEN {PlanCorrelatedExpressionsScan} ELSE {})]

PlanBaseTableScans ==
    /\ pc = "scan"
    /\ table' = BaseTable
    /\ pc' = "plan"
    /\ level' = 1
    /\ leftLevel' = 1
    /\ stage' = "inner"
    /\ todo' = {}
    /\ UNCHANGED <<subqueryType, corrNodes, result>>

-----------------------------------------------------------------------------
(* planLevel, planLevelExactly, planLevelApproximately: the loop headers *)

(***************************************************************************)
(* The split after (level, leftLevel, stage).  Exactly planned levels run  *)
(* leftLevel from 1 to floor(level / 2), each with planWCOJoin first when  *)
(* leftLevel > 1; an approximately planned level only runs the (1,        *)
(* level - 1) inner join.                                                  *)
(***************************************************************************)
(* Variant: the loop of enumerateQueryGraph without currentLevel++. *)
NextSplitNoIncrement ==
    IF stage = "wco"
    THEN [level |-> level, left |-> leftLevel, stage |-> "inner"]
    ELSE IF level <= MAX_LEVEL_TO_PLAN_EXACTLY /\ leftLevel + 1 <= level \div 2
         THEN [level |-> level, left |-> leftLevel + 1, stage |-> "wco"]
         ELSE [level |-> level, left |-> 1, stage |-> "inner"]

NextSplit ==
    IF stage = "wco"
    THEN [level |-> level, left |-> leftLevel, stage |-> "inner"]
    ELSE IF level <= MAX_LEVEL_TO_PLAN_EXACTLY /\ leftLevel + 1 <= level \div 2
         THEN [level |-> level, left |-> leftLevel + 1, stage |-> "wco"]
         ELSE [level |-> level + 1, left |-> 1, stage |-> "inner"]

(* The loop of planWCOJoin(leftLevel, rightLevel) over subgraphs and candidates. *)
WCOWork(k, l) ==
    UNION {{[right |-> S, nbr |-> {}, node |-> n] :
               n \in {m \in Nodes : Cardinality(IntersectRels(S, m)) = l}} :
           S \in SubqueryGraphsAt(k - l)}

(* The loop of planInnerJoin(leftLevel, rightLevel) over subgraphs and neighbours. *)
InnerWork(k, l) ==
    UNION {{[right |-> S, nbr |-> T, node |-> NoNode] : T \in NbrSubgraphs(S, l)} :
           S \in SubqueryGraphsAt(k - l)}

(***************************************************************************)
(* The SubqueryGraph a work item adds its plans to.  A visit reads the     *)
(* plans of lower levels, which no visit of the stage changes, and the     *)
(* plans of its own target (the hash-join ceiling); it writes only its     *)
(* target.  Visits with different targets therefore commute, and the model *)
(* visits the targets in one fixed order (NextTarget) while it keeps every *)
(* order of the visits that share a target, which is where the iteration  *)
(* order of the unordered maps changes the outcome.                        *)
(***************************************************************************)
Target(w) ==
    IF w.node = NoNode THEN w.right \cup w.nbr
    ELSE w.right \cup IntersectRels(w.right, w.node)

NextTarget == CHOOSE T \in {Target(w) : w \in todo} : TRUE

(***************************************************************************)
(* The visits the enumerator may make next: any visit of the next target,  *)
(* or, when only one iteration order is explored, a fixed one of them.     *)
(***************************************************************************)
Visitable ==
    IF ExploreOrders THEN {w \in todo : Target(w) = NextTarget}
    ELSE {CHOOSE w \in todo : Target(w) = NextTarget}

PlanLevel ==
    /\ pc = "plan"
    /\ todo = {}
    /\ NextSplit.level < MaxLevel
    /\ level' = NextSplit.level
    /\ leftLevel' = NextSplit.left
    /\ stage' = NextSplit.stage
    /\ todo' = IF NextSplit.stage = "wco"
               THEN WCOWork(NextSplit.level, NextSplit.left)
               ELSE InnerWork(NextSplit.level, NextSplit.left)
    /\ UNCHANGED <<subqueryType, corrNodes, table, pc, result>>

(***************************************************************************)
(* The end of enumerateQueryGraph: the plans of the fully matched          *)
(* SubqueryGraph are moved out of the table.                               *)
(***************************************************************************)
FinishEnumeration ==
    /\ pc = "plan"
    /\ todo = {}
    /\ NextSplit.level >= MaxLevel
    /\ result' = table[FullyMatched]
    /\ table' = [table EXCEPT ![FullyMatched] = {}]
    /\ pc' = "done"
    /\ UNCHANGED <<subqueryType, corrNodes, level, leftLevel, stage, todo>>

-----------------------------------------------------------------------------
(* planWCOJoin(subgraph, rels, intersectNode) *)

(***************************************************************************)
(* The subgraphs whose predicates count as already evaluated.  The code    *)
(* builds the single-rel subgraph prevSubgraph of every rel but pushes     *)
(* subgraph again in its place.                                            *)
(***************************************************************************)
WCOPrevSubgraphs(S, rels) == {S}

(* getWCOJBuildPlanForRel: the rel plans starting with a scan of the bound node. *)
WCOBuildCandidates(r, intersectNode) ==
    {p \in table[{r}] : IsNodeSequentialOnPlan(p, OtherEnd(r, intersectNode))}

WCOPlans(S, rels, intersectNode) ==
    LET newSubgraph == S \cup rels
        predicates == NewlyMatched(WCOPrevSubgraphs(S, rels), newSubgraph)
        builds == [r \in rels |-> CHOOSE p \in WCOBuildCandidates(r, intersectNode) : TRUE]
    IN  {AppendFilters(AppendIntersect(leftPlan, rels, builds, intersectNode, newSubgraph),
                       predicates) :
            leftPlan \in {l \in table[S] : intersectNode \notin l.scope}}

(* One visit of the candidate loop of planWCOJoin(leftLevel, rightLevel). *)
WCOJoinStep(w) ==
    /\ pc = "plan"
    /\ stage = "wco"
    /\ w \in Visitable
    /\ todo' = todo \ {w}
    /\ UNCHANGED <<subqueryType, corrNodes, pc, level, leftLevel, stage, result>>

(* Every rel has a build plan: intersect every probe plan that allows it. *)
PlanWCOJoin(w) ==
    /\ WCOJoinStep(w)
    /\ \A r \in IntersectRels(w.right, w.node) : WCOBuildCandidates(r, w.node) # {}
    /\ AddPlans(Target(w), WCOPlans(w.right, IntersectRels(w.right, w.node), w.node))

(* "Cannot find a suitable rel plan": the visit returns without a plan. *)
AbortWCOJoin(w) ==
    /\ WCOJoinStep(w)
    /\ \E r \in IntersectRels(w.right, w.node) : WCOBuildCandidates(r, w.node) = {}
    /\ UNCHANGED table

-----------------------------------------------------------------------------
(* planInnerJoin, tryPlanINLJoin, planInnerHashJoin *)

(***************************************************************************)
(* tryPlanINLJoin(S, T, joinNodes): with one join node and a single-rel    *)
(* side, extend every plan of the other side whose sequential scan is the  *)
(* join node by the single rel.  The empty set means the INL join does not *)
(* apply ("return false").                                                 *)
(***************************************************************************)
INLPlans(S, T, joinNodes) ==
    IF Cardinality(joinNodes) > 1 \/ (~IsSingleRel(S) /\ ~IsSingleRel(T))
    THEN {}
    ELSE LET multi == IF IsSingleRel(S) THEN T ELSE S
             single == IF IsSingleRel(S) THEN S ELSE T
             rel == CHOOSE x \in single : TRUE
             boundNode == CHOOSE j \in joinNodes : TRUE
             newSubgraph == multi \cup {rel}
             predicates == NewlyMatched({multi}, newSubgraph)
         IN  {AppendFilters(AppendExtend(prevPlan, rel, OtherEnd(rel, boundNode), newSubgraph),
                            predicates) :
                 prevPlan \in {p \in table[multi] : IsNodeSequentialOnPlan(p, boundNode)}}

(* Variant: the predicates of the single-prev overload, getNewlyMatchedExprs(S, new). *)
HashJoinPlansOnePrev(S, T, flip) ==
    LET newSubgraph == S \cup T
        predicates == NewlyMatched({S}, newSubgraph)
    IN  {AppendFilters(AppendHashJoin(pr[1], pr[2], newSubgraph), predicates) :
            pr \in {pr \in table[S] \X table[T] :
                        CostBelowMax(HashJoinCost(pr[1], pr[2]), newSubgraph)}}
        \cup
        (IF flip
         THEN {AppendFilters(AppendHashJoin(pr[2], pr[1], newSubgraph), predicates) :
                  pr \in {pr \in table[S] \X table[T] :
                              CostBelowMax(HashJoinCost(pr[2], pr[1]), newSubgraph)}}
         ELSE {})

(* Variant: the flipped plan builds on its own probe side's copy. *)
HashJoinPlansSameSide(S, T, flip) ==
    LET newSubgraph == S \cup T
        predicates == NewlyMatched({S, T}, newSubgraph)
    IN  {AppendFilters(AppendHashJoin(pr[1], pr[2], newSubgraph), predicates) :
            pr \in {pr \in table[S] \X table[T] :
                        CostBelowMax(HashJoinCost(pr[1], pr[2]), newSubgraph)}}
        \cup
        (IF flip
         THEN {AppendFilters(AppendHashJoin(pr[2], pr[2], newSubgraph), predicates) :
                  pr \in {pr \in table[S] \X table[T] :
                              CostBelowMax(HashJoinCost(pr[2], pr[1]), newSubgraph)}}
         ELSE {})

(***************************************************************************)
(* planInnerHashJoin(S, T, joinNodes, flip): S probes and T builds; with   *)
(* flip, also T probes and S builds.  The ceiling is read once, before any *)
(* of the new plans is added.                                              *)
(***************************************************************************)
HashJoinPlans(S, T, flip) ==
    LET newSubgraph == S \cup T
        predicates == NewlyMatched({S, T}, newSubgraph)
    IN  {AppendFilters(AppendHashJoin(pr[1], pr[2], newSubgraph), predicates) :
            pr \in {pr \in table[S] \X table[T] :
                        CostBelowMax(HashJoinCost(pr[1], pr[2]), newSubgraph)}}
        \cup
        (IF flip
         THEN {AppendFilters(AppendHashJoin(pr[2], pr[1], newSubgraph), predicates) :
                  pr \in {pr \in table[S] \X table[T] :
                              CostBelowMax(HashJoinCost(pr[2], pr[1]), newSubgraph)}}
         ELSE {})

(* One visit of the inner loop of planInnerJoin. *)
InnerJoinStep(w) ==
    /\ pc = "plan"
    /\ stage = "inner"
    /\ w \in Visitable
    /\ todo' = todo \ {w}
    /\ UNCHANGED <<subqueryType, corrNodes, pc, level, leftLevel, stage, result>>

(* The neighbour has no plans: it belongs to an earlier query part. *)
SkipUnplannedNbr(w) ==
    /\ InnerJoinStep(w)
    /\ table[w.nbr] = {}
    /\ UNCHANGED table

SkipImplicitJoin(w) ==
    /\ InnerJoinStep(w)
    /\ table[w.nbr] # {}
    /\ NeedPruneImplicitJoins(w.nbr, w.right,
                              Cardinality(ConnectedNodePos(w.right, w.nbr)))
    /\ UNCHANGED table

PlanINLJoin(w) ==
    /\ InnerJoinStep(w)
    /\ table[w.nbr] # {}
    /\ LET joinNodes == ConnectedNodePos(w.right, w.nbr)
       IN  /\ ~NeedPruneImplicitJoins(w.nbr, w.right, Cardinality(joinNodes))
           /\ INLPlans(w.right, w.nbr, joinNodes) # {}
           /\ AddPlans(w.right \cup w.nbr, INLPlans(w.right, w.nbr, joinNodes))

PlanInnerHashJoin(w) ==
    /\ InnerJoinStep(w)
    /\ table[w.nbr] # {}
    /\ LET joinNodes == ConnectedNodePos(w.right, w.nbr)
       IN  /\ ~NeedPruneImplicitJoins(w.nbr, w.right, Cardinality(joinNodes))
           /\ INLPlans(w.right, w.nbr, joinNodes) = {}
           /\ AddPlans(w.right \cup w.nbr,
                       HashJoinPlans(w.right, w.nbr, leftLevel # level - leftLevel))

-----------------------------------------------------------------------------

Init ==
    /\ subqueryType \in SubqueryTypes
    /\ corrNodes \in (CASE subqueryType = "NONE" -> {{}}
                        [] subqueryType = "INTERNAL_ID_CORRELATED" -> SUBSET Nodes
                        [] subqueryType = "CORRELATED" -> (SUBSET Nodes) \ {{}})
    /\ table = [S \in SUBSET Elems |-> {}]
    /\ pc = "scan"
    /\ level = 0
    /\ leftLevel = 0
    /\ stage = "inner"
    /\ todo = {}
    /\ result = {}

Next ==
    \/ PlanBaseTableScans
    \/ PlanLevel
    \/ \E w \in todo : PlanWCOJoin(w)
    \/ \E w \in todo : AbortWCOJoin(w)
    \/ \E w \in todo : SkipUnplannedNbr(w)
    \/ \E w \in todo : SkipImplicitJoin(w)
    \/ \E w \in todo : PlanINLJoin(w)
    \/ \E w \in todo : PlanInnerHashJoin(w)
    \/ FinishEnumeration

(* The planner runs a planning call to its end on one worker. *)
Spec == Init /\ [][Next]_vars /\ WF_vars(Next)

-----------------------------------------------------------------------------
(* Properties *)

(* Whether planBaseTableScans reads node n's table with its properties. *)
ReadsNodeProperties(n) == subqueryType = "NONE" \/ n \notin corrNodes

(***************************************************************************)
(* What a plan filed under S must contain: every selected rel extended     *)
(* exactly once and no other, every selected node's ID in scope and no     *)
(* node outside S and its rels' endpoints, and the table of every          *)
(* selected node that is not supplied by the outer query scanned with its  *)
(* properties exactly once.                                                *)
(***************************************************************************)
MatchesSubgraph(p, S) ==
    /\ p.extends = Indicator(Rels, S \cap Rels)
    /\ S \cap Nodes \subseteq p.scope
    /\ p.scope \subseteq NodesIgnoringSelector(S)
    /\ p.nodeScans = Indicator(Nodes, {n \in S \cap Nodes : ReadsNodeProperties(n)})

(***************************************************************************)
(* Coverage (spec 8.2): every plan the DP files under a SubqueryGraph, and *)
(* every plan it returns, matches exactly that SubqueryGraph.  A join of   *)
(* overlapping sides, an INL extend or an intersection filed under the     *)
(* wrong key, or a node scanned on both sides of a join, breaks it.        *)
(***************************************************************************)
PlanCoverage ==
    /\ \A S \in SUBSET Elems : \A p \in table[S] : MatchesSubgraph(p, S)
    /\ \A p \in result : MatchesSubgraph(p, FullyMatched)

(***************************************************************************)
(* Predicate placement (spec 8.3): a plan of S filters every predicate     *)
(* whose variables S matches exactly once, and no other predicate.  The    *)
(* getNewlyMatchedExprs calls of the scans, the INL extend, the hash join  *)
(* and the intersection must together apply each predicate at exactly one *)
(* point of every plan.                                                    *)
(***************************************************************************)
Eligible(S) == {q \in Preds : ContainAllVariables(S, PredVars[q])}

PredicatesPlacedOnce ==
    /\ \A S \in SUBSET Elems : \A p \in table[S] : p.filters = Indicator(Preds, Eligible(S))
    /\ \A p \in result : p.filters = Indicator(Preds, Eligible(FullyMatched))

(***************************************************************************)
(* Correlation (spec 8.8): in CORRELATED mode no ScanNodeTable references  *)
(* a correlated node; the outer query supplies it through ExpressionsScan. *)
(***************************************************************************)
CorrelatedNodesNotScanned ==
    subqueryType = "CORRELATED" =>
        \A p \in result \cup UNION {table[S] : S \in SUBSET Elems} :
            \A n \in corrNodes : p.nodeScans[n] = 0 /\ p.idScans[n] = 0

(***************************************************************************)
(* Correlation (spec 8.8), the part the enumerator keeps: in CORRELATED    *)
(* mode a SubqueryGraph with plans holds all of the correlated nodes or    *)
(* none of them, and each of its plans has exactly one ExpressionsScan     *)
(* when it holds them and none otherwise; in the other modes no plan has   *)
(* one.  The seed plan of planCorrelatedExpressionsScan must reach every   *)
(* plan that binds a correlated node, once, through the INL extends, hash  *)
(* joins and intersections built on it.                                    *)
(***************************************************************************)
ExprScanCount(S) == IF subqueryType = "CORRELATED" /\ corrNodes \subseteq S THEN 1 ELSE 0

ExpressionsScanPlaced ==
    /\ \A S \in SUBSET Elems :
          table[S] # {} =>
              /\ (subqueryType = "CORRELATED" /\ S \cap corrNodes # {}) => corrNodes \subseteq S
              /\ \A p \in table[S] : p.exprScans = ExprScanCount(S)
    /\ \A p \in result : p.exprScans = ExprScanCount(FullyMatched)

(***************************************************************************)
(* Completeness (spec 8.1): a planning call of a connected query graph     *)
(* ends with at least one plan, whatever the subquery type, the order the  *)
(* levels are visited in and the pruning of implicit joins, INL joins and  *)
(* hash joins.                                                             *)
(***************************************************************************)
Completeness == pc = "done" => result # {}

(***************************************************************************)
(* The assertions and the undefined behaviour the inner loops rely on      *)
(* never occur: every neighbour pair has a join node (tryPlanINLJoin reads *)
(* joinNodes[0]), never pairs two single-rel subgraphs (tryPlanINLJoin     *)
(* would swap them forever), and getWCOJBuildPlanForRel finds at most one  *)
(* build plan per rel (KU_ASSERT(result == nullptr)).                      *)
(***************************************************************************)
NoAssertionFailure ==
    \A w \in todo :
        /\ stage = "inner" =>
              /\ ConnectedNodePos(w.right, w.nbr) # {}
              /\ ~(IsSingleRel(w.right) /\ IsSingleRel(w.nbr))
        /\ stage = "wco" =>
              \A r \in IntersectRels(w.right, w.node) :
                  Cardinality(WCOBuildCandidates(r, w.node)) <= 1

(***************************************************************************)
(* Level discipline: while levels are planned, a step never changes or     *)
(* drops a plan already in the table, and adds plans only to SubqueryGraphs*)
(* of the level being planned, so a level reads only finished levels.      *)
(***************************************************************************)
LevelStepsOnlyAddAtCurrentLevel ==
    [][(pc = "plan" /\ pc' = "plan") =>
          \A S \in SUBSET Elems :
              /\ table[S] \subseteq table'[S]
              /\ table'[S] # table[S] => Level(S) = level']_vars

(* Every planning call terminates. *)
Termination == <>(pc = "done")

=============================================================================
