--------------------- MODULE JoinOrderEnumeratorProofs ----------------------
(***************************************************************************)
(* Proofs about the join-order enumerator for every query graph, every     *)
(* predicate set, every estimator and every exact-planning bound that the  *)
(* assumptions of QueryGraph, LogicalPlan and JoinOrderEnumerator admit.   *)
(*                                                                         *)
(* The first part shows that each appender of LogicalPlan turns plans into *)
(* a plan; the second that every step of the enumerator keeps TypeOK.      *)
(***************************************************************************)
EXTENDS JoinOrderEnumerator, FiniteSetTheorems, TLAPS

-----------------------------------------------------------------------------
(* The saturating bags *)

LEMMA SatAddType ==
    ASSUME NEW x \in Mult, NEW y \in Mult
    PROVE  SatAdd(x, y) \in Mult
BY DEF SatAdd, Mult

LEMMA BagAddType ==
    ASSUME NEW D, NEW f \in [D -> Mult], NEW g \in [D -> Mult]
    PROVE  BagAdd(f, g) \in [D -> Mult]
BY SatAddType DEF BagAdd

LEMMA IndicatorType ==
    ASSUME NEW D, NEW Y
    PROVE  /\ Indicator(D, Y) \in [D -> Mult]
           /\ Zero(D) \in [D -> Mult]
           /\ \A y : Unit(D, y) \in [D -> Mult]
BY DEF Indicator, Zero, Unit, Mult

LEMMA SatCountType ==
    ASSUME NEW I, NEW f
    PROVE  SatCount(I, f) \in Mult
BY DEF SatCount, Mult

LEMMA BagSumType ==
    ASSUME NEW D, NEW I, NEW base \in [D -> Mult], NEW F \in [I -> [D -> Mult]]
    PROVE  BagSum(base, I, F) \in [D -> Mult]
<1>1. \A x \in D : SatTotal(I, F, x) \in Mult
    BY SatCountType DEF SatTotal
<1>2. QED
    BY <1>1, SatAddType DEF BagSum

-----------------------------------------------------------------------------
(* Each appender yields a plan *)

LEMMA CardType ==
    ASSUME NEW S \in SUBSET Elems
    PROVE  Card[S] \in Nat
BY EstimatorAssumption

LEMMA ScanNodeTableType ==
    ASSUME NEW n \in Nodes, NEW withProperties \in BOOLEAN
    PROVE  ScanNodeTable(n, withProperties) \in Plan
<1>1. Card[{n}] \in Nat
    BY CardType DEF Elems
<1>2. 0 \in Mult
    BY DEF Mult
<1>3. QED
    BY <1>1, <1>2, IndicatorType DEF ScanNodeTable, Plan

LEMMA AppendExtendType ==
    ASSUME NEW p \in Plan, NEW r \in Rels, NEW nbr \in Nodes,
           NEW newSubgraph \in SUBSET Elems
    PROVE  AppendExtend(p, r, nbr, newSubgraph) \in Plan
<1>1. Card[newSubgraph] \in Nat
    BY CardType
<1>2. BagAdd(p.extends, Unit(Rels, r)) \in [Rels -> Mult]
    BY IndicatorType, BagAddType DEF Plan
<1>3. QED
    BY <1>1, <1>2 DEF AppendExtend, Plan

LEMMA AppendFiltersType ==
    ASSUME NEW p \in Plan, NEW preds
    PROVE  AppendFilters(p, preds) \in Plan
<1>1. BagAdd(p.filters, Indicator(Preds, preds)) \in [Preds -> Mult]
    BY IndicatorType, BagAddType DEF Plan
<1>2. QED
    BY <1>1 DEF AppendFilters, Plan

LEMMA AppendHashJoinType ==
    ASSUME NEW probe \in Plan, NEW build \in Plan, NEW newSubgraph \in SUBSET Elems
    PROVE  AppendHashJoin(probe, build, newSubgraph) \in Plan
<1>1. Card[newSubgraph] \in Nat
    BY CardType
<1>2. HashJoinCost(probe, build) \in Nat
    BY DEF HashJoinCost, Plan
<1>3. /\ BagAdd(probe.nodeScans, build.nodeScans) \in [Nodes -> Mult]
      /\ BagAdd(probe.idScans, build.idScans) \in [Nodes -> Mult]
      /\ BagAdd(probe.extends, build.extends) \in [Rels -> Mult]
      /\ BagAdd(probe.filters, build.filters) \in [Preds -> Mult]
      /\ SatAdd(probe.exprScans, build.exprScans) \in Mult
    BY BagAddType, SatAddType DEF Plan
<1>4. QED
    BY <1>1, <1>2, <1>3 DEF AppendHashJoin, Plan

LEMMA AppendIntersectType ==
    ASSUME NEW probe \in Plan, NEW rels, NEW builds \in [rels -> Plan],
           NEW intersectNode \in Nodes, NEW newSubgraph \in SUBSET Elems
    PROVE  AppendIntersect(probe, rels, builds, intersectNode, newSubgraph) \in Plan
<1>1. Card[newSubgraph] \in Nat
    BY CardType
<1>2. /\ [r \in rels |-> builds[r].nodeScans] \in [rels -> [Nodes -> Mult]]
      /\ [r \in rels |-> builds[r].idScans] \in [rels -> [Nodes -> Mult]]
      /\ [r \in rels |-> builds[r].extends] \in [rels -> [Rels -> Mult]]
      /\ [r \in rels |-> builds[r].filters] \in [rels -> [Preds -> Mult]]
    BY DEF Plan
<1>3. /\ BagSum(probe.nodeScans, rels, [r \in rels |-> builds[r].nodeScans]) \in [Nodes -> Mult]
      /\ BagSum(probe.idScans, rels, [r \in rels |-> builds[r].idScans]) \in [Nodes -> Mult]
      /\ BagSum(probe.extends, rels, [r \in rels |-> builds[r].extends]) \in [Rels -> Mult]
      /\ BagSum(probe.filters, rels, [r \in rels |-> builds[r].filters]) \in [Preds -> Mult]
    BY <1>2, BagSumType DEF Plan
<1>4. SatAdd(probe.exprScans, SatCount(rels, [r \in rels |-> builds[r].exprScans])) \in Mult
    BY SatCountType, SatAddType DEF Plan
<1>5. QED
    BY <1>1, <1>3, <1>4 DEF AppendIntersect, Plan

LEMMA ExpressionsScanType ==
    ASSUME NEW nodes \in SUBSET Nodes
    PROVE  ExpressionsScan(nodes) \in Plan
<1>1. 1 \in Mult
    BY DEF Mult
<1>2. QED
    BY <1>1, EstimatorAssumption, IndicatorType DEF ExpressionsScan, Plan

LEMMA AppendDistinctType ==
    ASSUME NEW p \in Plan
    PROVE  AppendDistinct(p) \in Plan
BY DEF AppendDistinct, Plan

-----------------------------------------------------------------------------
(* The plan sets the enumerator builds *)

LEMMA EndpointType ==
    ASSUME NEW r \in Rels, NEW fwd \in BOOLEAN, NEW n, NEW S
    PROVE  /\ BoundNode(r, fwd) \in Nodes
           /\ NbrNode(r, fwd) \in Nodes
           /\ OtherEnd(r, n) \in Nodes
           /\ IntersectNodeOf(S, r) \in Nodes
BY GraphAssumption DEF BoundNode, NbrNode, OtherEnd, IntersectNodeOf

LEMMA PlanRelScanType ==
    ASSUME NEW r \in Rels
    PROVE  PlanRelScan(r) \subseteq Plan
<1> SUFFICES ASSUME NEW fwd \in BOOLEAN
             PROVE  AppendFilters(AppendExtend(ScanNodeTable(BoundNode(r, fwd), FALSE),
                                               r, NbrNode(r, fwd), {r}),
                                  NewlyMatched({{}}, {r})) \in Plan
    BY DEF PlanRelScan
<1>1. ScanNodeTable(BoundNode(r, fwd), FALSE) \in Plan
    BY EndpointType, ScanNodeTableType
<1>2. {r} \in SUBSET Elems
    BY DEF Elems
<1>3. QED
    BY <1>1, <1>2, EndpointType, AppendExtendType, AppendFiltersType

LEMMA NodeScanPlansType ==
    ASSUME NEW n \in Nodes, subqueryType \in SubqueryTypes
    PROVE  NodeScanPlans(n) \subseteq Plan
<1>1. PlanNodeScan(n) \in Plan /\ PlanNodeIDScan(n) \in Plan
    BY ScanNodeTableType, AppendFiltersType DEF PlanNodeScan, PlanNodeIDScan
<1>2. QED
    BY <1>1 DEF NodeScanPlans, SubqueryTypes

LEMMA BaseTableType ==
    ASSUME subqueryType \in SubqueryTypes, corrNodes \in SUBSET Nodes
    PROVE  BaseTable \in [SUBSET Elems -> SUBSET Plan]
<1>1. PlanCorrelatedExpressionsScan \in Plan
    BY ExpressionsScanType, AppendFiltersType, AppendDistinctType
    DEF PlanCorrelatedExpressionsScan
<1>2. \A n \in Nodes : NodeScanPlans(n) \subseteq Plan
    BY NodeScanPlansType
<1>3. \A r \in Rels : PlanRelScan(r) \subseteq Plan
    BY PlanRelScanType
<1>4. ASSUME NEW S \in SUBSET Elems
      PROVE  BaseTable[S] \subseteq Plan
    <2>1. UNION {NodeScanPlans(n) : n \in {m \in Nodes : S = {m}}} \subseteq Plan
        BY <1>2
    <2>2. UNION {PlanRelScan(r) : r \in {x \in Rels : S = {x}}} \subseteq Plan
        BY <1>3
    <2>3. (IF subqueryType = "CORRELATED" /\ S = corrNodes
           THEN {PlanCorrelatedExpressionsScan} ELSE {}) \subseteq Plan
        BY <1>1
    <2>4. QED
        BY <2>1, <2>2, <2>3 DEF BaseTable
<1>5. QED
    BY <1>4 DEF BaseTable

LEMMA HashJoinPlansType ==
    ASSUME table \in [SUBSET Elems -> SUBSET Plan],
           NEW S \in SUBSET Elems, NEW T \in SUBSET Elems, NEW flip \in BOOLEAN
    PROVE  HashJoinPlans(S, T, flip) \subseteq Plan
<1>1. S \cup T \in SUBSET Elems
    OBVIOUS
<1>2. \A pr \in table[S] \X table[T] :
         /\ AppendFilters(AppendHashJoin(pr[1], pr[2], S \cup T), NewlyMatched({S, T}, S \cup T)) \in Plan
         /\ AppendFilters(AppendHashJoin(pr[2], pr[1], S \cup T), NewlyMatched({S, T}, S \cup T)) \in Plan
    BY <1>1, AppendHashJoinType, AppendFiltersType
<1>3. QED
    BY <1>2 DEF HashJoinPlans

LEMMA SingleRelNonEmpty ==
    ASSUME NEW X, IsSingleRel(X)
    PROVE  X # {} /\ X \subseteq Rels
BY FS_EmptySet DEF IsSingleRel

LEMMA INLPlansType ==
    ASSUME table \in [SUBSET Elems -> SUBSET Plan],
           NEW S \in SUBSET Elems, NEW T \in SUBSET Elems, NEW joinNodes
    PROVE  INLPlans(S, T, joinNodes) \subseteq Plan
<1> DEFINE multi == IF IsSingleRel(S) THEN T ELSE S
           single == IF IsSingleRel(S) THEN S ELSE T
           rel == CHOOSE x \in single : TRUE
           boundNode == CHOOSE j \in joinNodes : TRUE
<1>1. CASE Cardinality(joinNodes) > 1 \/ (~IsSingleRel(S) /\ ~IsSingleRel(T))
    BY <1>1 DEF INLPlans
<1>2. CASE ~(Cardinality(joinNodes) > 1 \/ (~IsSingleRel(S) /\ ~IsSingleRel(T)))
    <2>1. IsSingleRel(single)
        BY <1>2
    <2>2. rel \in Rels
        BY <2>1, SingleRelNonEmpty
    <2>3. multi \cup {rel} \in SUBSET Elems /\ multi \in SUBSET Elems
        BY <2>2 DEF Elems
    <2>4. OtherEnd(rel, boundNode) \in Nodes
        BY <2>2, EndpointType
    <2>5. \A prevPlan \in table[multi] :
             AppendFilters(AppendExtend(prevPlan, rel, OtherEnd(rel, boundNode), multi \cup {rel}),
                           NewlyMatched({multi}, multi \cup {rel})) \in Plan
        BY <2>2, <2>3, <2>4, AppendExtendType, AppendFiltersType
    <2>6. QED
        BY <1>2, <2>5 DEF INLPlans
<1>3. QED
    BY <1>1, <1>2

LEMMA WCOPlansType ==
    ASSUME table \in [SUBSET Elems -> SUBSET Plan],
           NEW S \in SUBSET Elems, NEW n \in Nodes,
           \A r \in IntersectRels(S, n) : WCOBuildCandidates(r, n) # {}
    PROVE  WCOPlans(S, IntersectRels(S, n), n) \subseteq Plan
<1> DEFINE rels == IntersectRels(S, n)
           builds == [r \in rels |-> CHOOSE p \in WCOBuildCandidates(r, n) : TRUE]
<1>1. rels \subseteq Rels
    BY DEF IntersectRels, RelNbrs
<1>2. builds \in [rels -> Plan]
    <2>1. \A r \in rels : {r} \in SUBSET Elems
        BY <1>1 DEF Elems
    <2>2. \A r \in rels : WCOBuildCandidates(r, n) \subseteq Plan
        BY <2>1 DEF WCOBuildCandidates
    <2>3. QED
        BY <2>2
<1>3. S \cup rels \in SUBSET Elems
    BY <1>1 DEF Elems
<1>4. \A leftPlan \in table[S] :
         AppendFilters(AppendIntersect(leftPlan, rels, builds, n, S \cup rels),
                       NewlyMatched(WCOPrevSubgraphs(S, rels), S \cup rels)) \in Plan
    BY <1>2, <1>3, AppendIntersectType, AppendFiltersType
<1>5. QED
    BY <1>4 DEF WCOPlans

-----------------------------------------------------------------------------
(* Work items and loop counters *)

(* The node of a work item is a query node while planWCOJoin runs. *)
WCONodesInv == stage = "wco" => \A w \in todo : w.node \in Nodes

TypeInv == TypeOK /\ WCONodesInv

LEMMA SubqueryGraphsAtType ==
    ASSUME NEW k
    PROVE  SubqueryGraphsAt(k) \subseteq SUBSET Elems
BY DEF SubqueryGraphsAt

LEMMA WCOWorkType ==
    ASSUME NEW k, NEW l
    PROVE  /\ WCOWork(k, l) \subseteq WorkItem
           /\ \A w \in WCOWork(k, l) : w.node \in Nodes
BY SubqueryGraphsAtType DEF WCOWork, WorkItem

LEMMA InnerWorkType ==
    ASSUME NEW k, NEW l
    PROVE  InnerWork(k, l) \subseteq WorkItem
<1>1. \A S \in SubqueryGraphsAt(k - l) : NbrSubgraphs(S, l) \subseteq SUBSET Elems
    BY DEF NbrSubgraphs
<1>2. QED
    BY <1>1, SubqueryGraphsAtType, GraphAssumption DEF InnerWork, WorkItem

LEMMA NextSplitType ==
    ASSUME level \in Nat, leftLevel \in Nat
    PROVE  /\ NextSplit.level \in Nat
           /\ NextSplit.left \in Nat
           /\ NextSplit.stage \in {"wco", "inner"}
BY DEF NextSplit

-----------------------------------------------------------------------------
(* Type correctness *)

LEMMA InitTypeInv == Init => TypeInv
<1> SUFFICES ASSUME Init PROVE TypeInv
    OBVIOUS
<1>1. corrNodes \in SUBSET Nodes
    BY DEF Init, SubqueryTypes
<1>2. QED
    BY <1>1 DEF Init, TypeInv, TypeOK, WCONodesInv, SubqueryTypes

(* Adding a set of plans to one SubqueryGraph keeps the table typed. *)
LEMMA AddPlansType ==
    ASSUME table \in [SUBSET Elems -> SUBSET Plan], NEW S \in SUBSET Elems,
           NEW plans \in SUBSET Plan, AddPlans(S, plans)
    PROVE  table' \in [SUBSET Elems -> SUBSET Plan]
BY DEF AddPlans

LEMMA PlanBaseTableScansTypeInv ==
    ASSUME TypeInv, PlanBaseTableScans PROVE TypeInv'
BY BaseTableType DEF TypeInv, TypeOK, WCONodesInv, PlanBaseTableScans

LEMMA PlanLevelTypeInv ==
    ASSUME TypeInv, PlanLevel PROVE TypeInv'
<1>1. /\ level' \in Nat /\ leftLevel' \in Nat /\ stage' \in {"wco", "inner"}
    BY NextSplitType DEF TypeInv, TypeOK, PlanLevel
<1>2. todo' \in SUBSET WorkItem /\ WCONodesInv'
    BY WCOWorkType, InnerWorkType DEF PlanLevel, WCONodesInv
<1>3. QED
    BY <1>1, <1>2 DEF TypeInv, TypeOK, PlanLevel

LEMMA FinishEnumerationTypeInv ==
    ASSUME TypeInv, FinishEnumeration PROVE TypeInv'
<1>1. FullyMatched \in SUBSET Elems
    BY DEF FullyMatched
<1>2. QED
    BY <1>1 DEF TypeInv, TypeOK, WCONodesInv, FinishEnumeration

LEMMA WCOJoinTypeInv ==
    ASSUME TypeInv, NEW w \in todo, PlanWCOJoin(w) \/ AbortWCOJoin(w)
    PROVE  TypeInv'
<1>1. /\ w.right \in SUBSET Elems /\ w.node \in Nodes
    BY DEF TypeInv, TypeOK, WorkItem, WCONodesInv, PlanWCOJoin, AbortWCOJoin, WCOJoinStep
<1>2. table' \in [SUBSET Elems -> SUBSET Plan]
    <2>1. CASE PlanWCOJoin(w)
        <3>1. Target(w) \in SUBSET Elems
            BY <1>1, GraphAssumption DEF Target, IntersectRels, RelNbrs, Elems
        <3>2. WCOPlans(w.right, IntersectRels(w.right, w.node), w.node) \subseteq Plan
            BY <1>1, <2>1, WCOPlansType DEF TypeInv, TypeOK, PlanWCOJoin
        <3>3. QED
            BY <2>1, <3>1, <3>2, AddPlansType DEF TypeInv, TypeOK, PlanWCOJoin
    <2>2. CASE AbortWCOJoin(w)
        BY <2>2 DEF TypeInv, TypeOK, AbortWCOJoin
    <2>3. QED
        BY <2>1, <2>2
<1>3. QED
    BY <1>2 DEF TypeInv, TypeOK, WCONodesInv, PlanWCOJoin, AbortWCOJoin, WCOJoinStep

LEMMA InnerJoinTypeInv ==
    ASSUME TypeInv, NEW w \in todo,
           \/ SkipUnplannedNbr(w) \/ SkipImplicitJoin(w)
           \/ PlanINLJoin(w) \/ PlanInnerHashJoin(w)
    PROVE  TypeInv'
<1>1. w.right \in SUBSET Elems /\ w.nbr \in SUBSET Elems
    BY DEF TypeInv, TypeOK, WorkItem
<1>2. table' \in [SUBSET Elems -> SUBSET Plan]
    <2>1. CASE SkipUnplannedNbr(w) \/ SkipImplicitJoin(w)
        BY <2>1 DEF TypeInv, TypeOK, SkipUnplannedNbr, SkipImplicitJoin
    <2>2. CASE PlanINLJoin(w)
        <3>1. INLPlans(w.right, w.nbr, ConnectedNodePos(w.right, w.nbr)) \subseteq Plan
            BY <1>1, INLPlansType DEF TypeInv, TypeOK
        <3>2. QED
            BY <1>1, <2>2, <3>1, AddPlansType DEF TypeInv, TypeOK, PlanINLJoin
    <2>3. CASE PlanInnerHashJoin(w)
        <3>1. HashJoinPlans(w.right, w.nbr, leftLevel # level - leftLevel) \subseteq Plan
            BY <1>1, HashJoinPlansType DEF TypeInv, TypeOK
        <3>2. QED
            BY <1>1, <2>3, <3>1, AddPlansType DEF TypeInv, TypeOK, PlanInnerHashJoin
    <2>4. QED
        BY <2>1, <2>2, <2>3
<1>3. UNCHANGED <<subqueryType, corrNodes, pc, level, leftLevel, stage, result>>
      /\ todo' = todo \ {w}
    BY DEF SkipUnplannedNbr, SkipImplicitJoin, PlanINLJoin, PlanInnerHashJoin, InnerJoinStep
<1>4. QED
    BY <1>2, <1>3 DEF TypeInv, TypeOK, WCONodesInv

LEMMA NextTypeInv == TypeInv /\ [Next]_vars => TypeInv'
<1> SUFFICES ASSUME TypeInv, [Next]_vars PROVE TypeInv'
    OBVIOUS
<1>1. CASE PlanBaseTableScans
    BY <1>1, PlanBaseTableScansTypeInv
<1>2. CASE PlanLevel
    BY <1>2, PlanLevelTypeInv
<1>3. CASE \E w \in todo : PlanWCOJoin(w) \/ AbortWCOJoin(w)
    BY <1>3, WCOJoinTypeInv
<1>4. CASE \E w \in todo : \/ SkipUnplannedNbr(w) \/ SkipImplicitJoin(w)
                           \/ PlanINLJoin(w) \/ PlanInnerHashJoin(w)
    BY <1>4, InnerJoinTypeInv
<1>5. CASE FinishEnumeration
    BY <1>5, FinishEnumerationTypeInv
<1>6. CASE UNCHANGED vars
    BY <1>6 DEF vars, TypeInv, TypeOK, WCONodesInv
<1>7. QED
    BY <1>1, <1>2, <1>3, <1>4, <1>5, <1>6 DEF Next

(***************************************************************************)
(* TypeOK: every planning call keeps the SubPlansTable a map from          *)
(* SubqueryGraphs to sets of well-formed plans, the loop counters natural  *)
(* numbers and the pending work items well-formed, for every query graph,  *)
(* estimator and exact-planning bound the assumptions admit.               *)
(***************************************************************************)
THEOREM TypeCorrect == Spec => []TypeOK
<1>1. TypeInv => TypeOK
    BY DEF TypeInv
<1>2. QED
    BY <1>1, InitTypeInv, NextTypeInv, PTL DEF Spec


-----------------------------------------------------------------------------
(* Level discipline *)

(***************************************************************************)
(* The strengthening: the pending work items of a stage all target a      *)
(* SubqueryGraph of the level being planned, and an inner-join item has no *)
(* intersect node, so its target is the union of its two sides.            *)
(***************************************************************************)
TodoTargetsInv ==
    /\ stage = "inner" => \A w \in todo : w.node = NoNode
    /\ \A w \in todo : Level(Target(w)) = level

LevelInv == TypeInv /\ TodoTargetsInv

(* The step the action property constrains. *)
LevelStep ==
    (pc = "plan" /\ pc' = "plan") =>
        \A S \in SUBSET Elems :
            /\ table[S] \subseteq table'[S]
            /\ table'[S] # table[S] => Level(S) = level'

LEMMA ElemsFinite == IsFiniteSet(Elems)
BY GraphAssumption, FS_Union DEF Elems

(* The level of a union of disjoint SubqueryGraphs adds up. *)
LEMMA DisjointUnionLevel ==
    ASSUME NEW S \in SUBSET Elems, NEW T \in SUBSET Elems, S \cap T = {}
    PROVE  Level(S \cup T) = Level(S) + Level(T)
<1>1. IsFiniteSet(S) /\ IsFiniteSet(T)
    BY ElemsFinite, FS_Subset
<1>2. Cardinality(S \cap T) = 0
    BY FS_EmptySet
<1>3. Cardinality(S) \in Nat /\ Cardinality(T) \in Nat
    BY <1>1, FS_CardinalityType
<1>4. Cardinality(S \cup T) = Cardinality(S) + Cardinality(T) - Cardinality(S \cap T)
    BY <1>1, FS_Union
<1>5. QED
    BY <1>2, <1>3, <1>4 DEF Level

LEMMA WCOWorkLevel ==
    ASSUME NEW k \in Nat, NEW l \in Nat, NEW w \in WCOWork(k, l)
    PROVE  Level(Target(w)) = k
<1>1. PICK S \in SubqueryGraphsAt(k - l) :
             \E n \in {m \in Nodes : Cardinality(IntersectRels(S, m)) = l} :
                 w = [right |-> S, nbr |-> {}, node |-> n]
    BY DEF WCOWork
<1>2. PICK n \in Nodes : Cardinality(IntersectRels(S, n)) = l
                         /\ w = [right |-> S, nbr |-> {}, node |-> n]
    BY <1>1
<1>3. S \in SUBSET Elems /\ Level(S) = k - l
    BY DEF SubqueryGraphsAt
<1>4. IntersectRels(S, n) \in SUBSET Elems /\ S \cap IntersectRels(S, n) = {}
    BY DEF IntersectRels, RelNbrs, Elems
<1>5. Target(w) = S \cup IntersectRels(S, n)
    BY <1>2, GraphAssumption DEF Target
<1>6. Level(Target(w)) = Level(S) + Level(IntersectRels(S, n))
    BY <1>3, <1>4, <1>5, DisjointUnionLevel
<1>7. QED
    BY <1>2, <1>3, <1>6 DEF Level

LEMMA InnerWorkLevel ==
    ASSUME NEW k \in Nat, NEW l \in Nat, NEW w \in InnerWork(k, l)
    PROVE  Level(Target(w)) = k /\ w.node = NoNode
<1>1. PICK S \in SubqueryGraphsAt(k - l) :
             \E T \in NbrSubgraphs(S, l) : w = [right |-> S, nbr |-> T, node |-> NoNode]
    BY DEF InnerWork
<1>2. PICK T \in NbrSubgraphs(S, l) : w = [right |-> S, nbr |-> T, node |-> NoNode]
    BY <1>1
<1>3. S \in SUBSET Elems /\ Level(S) = k - l
    BY DEF SubqueryGraphsAt
<1>4. T \in SUBSET Elems /\ S \cap T = {} /\ Level(T) = l
    BY DEF NbrSubgraphs, Level
<1>5. Target(w) = S \cup T
    BY <1>2 DEF Target
<1>6. QED
    BY <1>2, <1>3, <1>4, <1>5, DisjointUnionLevel

LEMMA InitLevelInv == Init => LevelInv
BY InitTypeInv DEF Init, LevelInv, TodoTargetsInv

(* A visit removes its item and leaves the level and the stage alone. *)
LEMMA VisitShrinksTodo ==
    ASSUME NEW w,
           \/ PlanWCOJoin(w) \/ AbortWCOJoin(w)
           \/ SkipUnplannedNbr(w) \/ SkipImplicitJoin(w)
           \/ PlanINLJoin(w) \/ PlanInnerHashJoin(w)
    PROVE  /\ todo' \subseteq todo
           /\ UNCHANGED <<pc, level, stage>>
BY DEF PlanWCOJoin, AbortWCOJoin, WCOJoinStep, SkipUnplannedNbr, SkipImplicitJoin,
       PlanINLJoin, PlanInnerHashJoin, InnerJoinStep

LEMMA PlanLevelTodoTargets ==
    ASSUME TypeInv, PlanLevel PROVE TodoTargetsInv'
<1>1. NextSplit.level \in Nat /\ NextSplit.left \in Nat
      /\ NextSplit.stage \in {"wco", "inner"}
    BY NextSplitType DEF TypeInv, TypeOK
<1>2. CASE NextSplit.stage = "wco"
    BY <1>1, <1>2, WCOWorkLevel DEF PlanLevel, TodoTargetsInv
<1>3. CASE NextSplit.stage = "inner"
    BY <1>1, <1>3, InnerWorkLevel DEF PlanLevel, TodoTargetsInv
<1>4. QED
    BY <1>1, <1>2, <1>3

LEMMA NextLevelInv == LevelInv /\ [Next]_vars => LevelInv'
<1> SUFFICES ASSUME LevelInv, [Next]_vars PROVE LevelInv'
    OBVIOUS
<1>1. TypeInv'
    BY NextTypeInv DEF LevelInv
<1> SUFFICES TodoTargetsInv'
    BY <1>1 DEF LevelInv
<1>2. CASE PlanBaseTableScans
    BY <1>2 DEF PlanBaseTableScans, TodoTargetsInv
<1>3. CASE PlanLevel
    BY <1>3, PlanLevelTodoTargets DEF LevelInv
<1>4. CASE \E w \in todo : \/ PlanWCOJoin(w) \/ AbortWCOJoin(w)
                           \/ SkipUnplannedNbr(w) \/ SkipImplicitJoin(w)
                           \/ PlanINLJoin(w) \/ PlanInnerHashJoin(w)
    BY <1>4, VisitShrinksTodo DEF LevelInv, TodoTargetsInv
<1>5. CASE FinishEnumeration \/ UNCHANGED vars
    BY <1>5 DEF FinishEnumeration, vars, LevelInv, TodoTargetsInv
<1>6. QED
    BY <1>2, <1>3, <1>4, <1>5 DEF Next

(* Adding plans to a SubqueryGraph of the next level is a step LevelStep allows. *)
LEMMA AddPlansLevelStep ==
    ASSUME table \in [SUBSET Elems -> SUBSET Plan], NEW T, NEW plans,
           AddPlans(T, plans), Level(T) = level'
    PROVE  \A S \in SUBSET Elems :
               /\ table[S] \subseteq table'[S]
               /\ table'[S] # table[S] => Level(S) = level'
BY DEF AddPlans

LEMMA NextLevelStep == LevelInv /\ [Next]_vars => [LevelStep]_vars
<1> DEFINE Goal == \A S \in SUBSET Elems :
                       /\ table[S] \subseteq table'[S]
                       /\ table'[S] # table[S] => Level(S) = level'
<1> SUFFICES ASSUME LevelInv, [Next]_vars, pc = "plan", pc' = "plan" PROVE Goal
    BY DEF LevelStep
<1>1. table \in [SUBSET Elems -> SUBSET Plan]
    BY DEF LevelInv, TypeInv, TypeOK
<1>2. CASE PlanBaseTableScans
    BY <1>2 DEF PlanBaseTableScans
<1>3. CASE PlanLevel \/ UNCHANGED vars
    BY <1>3 DEF PlanLevel, vars
<1>4. CASE FinishEnumeration
    BY <1>4 DEF FinishEnumeration
<1>5. ASSUME NEW w \in todo, PlanWCOJoin(w) PROVE Goal
    <2>1. Level(Target(w)) = level' /\ UNCHANGED level
        BY <1>5 DEF LevelInv, TodoTargetsInv, PlanWCOJoin, WCOJoinStep
    <2>2. QED
        BY <1>1, <1>5, <2>1, AddPlansLevelStep DEF PlanWCOJoin
<1>6. ASSUME NEW w \in todo, PlanINLJoin(w) \/ PlanInnerHashJoin(w) PROVE Goal
    <2>1. stage = "inner" /\ UNCHANGED level
        BY <1>6 DEF PlanINLJoin, PlanInnerHashJoin, InnerJoinStep
    <2>2. Target(w) = w.right \cup w.nbr /\ Level(Target(w)) = level'
        BY <2>1 DEF LevelInv, TodoTargetsInv, Target
    <2>3. CASE PlanINLJoin(w)
        BY <1>1, <2>2, <2>3, AddPlansLevelStep DEF PlanINLJoin
    <2>4. CASE PlanInnerHashJoin(w)
        BY <1>1, <2>2, <2>4, AddPlansLevelStep DEF PlanInnerHashJoin
    <2>5. QED
        BY <1>6, <2>3, <2>4
<1>7. ASSUME NEW w \in todo,
             AbortWCOJoin(w) \/ SkipUnplannedNbr(w) \/ SkipImplicitJoin(w)
      PROVE  Goal
    BY <1>7 DEF AbortWCOJoin, SkipUnplannedNbr, SkipImplicitJoin
<1>8. QED
    BY <1>2, <1>3, <1>4, <1>5, <1>6, <1>7 DEF Next

(***************************************************************************)
(* LevelStepsOnlyAddAtCurrentLevel: for every query graph and bound, while *)
(* enumerateQueryGraph plans levels no step drops a plan from the          *)
(* SubPlansTable and the plans added by planWCOJoin, tryPlanINLJoin and    *)
(* planInnerHashJoin go only to SubqueryGraphs of the current level.       *)
(***************************************************************************)
THEOREM LevelDiscipline == Spec => LevelStepsOnlyAddAtCurrentLevel
<1>1. SUFFICES Spec => [][LevelStep]_vars
    BY DEF LevelStepsOnlyAddAtCurrentLevel, LevelStep
<1>2. Spec => []LevelInv
    BY InitLevelInv, NextLevelInv, PTL DEF Spec
<1>3. []LevelInv /\ [][Next]_vars => [][LevelStep]_vars
    BY NextLevelStep, PTL
<1>4. QED
    BY <1>2, <1>3, PTL DEF Spec

-----------------------------------------------------------------------------
(* The assertions of the inner loops *)

(***************************************************************************)
(* The strengthening for NoAssertionFailure.  The single-rel SubqueryGraphs*)
(* keep the two rel scans of planBaseTableScans for the whole call, since *)
(* every later plan goes to a target of level two or more; and an inner-   *)
(* join item pairs a subgraph with a disjoint neighbour that touches it.   *)
(***************************************************************************)
BaseRelPlans == pc # "scan" => \A r \in Rels : table[{r}] = PlanRelScan(r)

LevelBounds ==
    /\ pc = "scan" => todo = {}
    /\ pc = "plan" => level >= 1
    /\ (todo # {} \/ stage = "wco") => level >= 2

InnerShape ==
    stage = "inner" =>
        \A w \in todo : /\ w.nbr \subseteq Elems \ w.right
                        /\ \E x \in w.nbr, y \in w.right : Adjacent(x, y)

AssertInv == LevelInv /\ BaseRelPlans /\ LevelBounds /\ InnerShape

(* The plan planRelScan builds for one direction of r. *)
RelScanPlan(r, fwd) ==
    AppendFilters(AppendExtend(ScanNodeTable(BoundNode(r, fwd), FALSE), r, NbrNode(r, fwd), {r}),
                  NewlyMatched({{}}, {r}))

(***************************************************************************)
(* The two rel scans of r start from different nodes, or are the same plan *)
(* when r is a self-loop: at most one of them starts from a given node,    *)
(* and a recursive rel's scans start from none.                            *)
(***************************************************************************)
LEMMA RelScanCandidates ==
    ASSUME NEW r \in Rels, NEW m \in Nodes
    PROVE  Cardinality({p \in PlanRelScan(r) : p.seq = m}) <= 1
<1> DEFINE C == {p \in PlanRelScan(r) : p.seq = m}
<1>1. PlanRelScan(r) = {RelScanPlan(r, TRUE), RelScanPlan(r, FALSE)}
    BY DEF PlanRelScan, RelScanPlan
<1>2. \A fwd \in BOOLEAN :
        RelScanPlan(r, fwd).seq = IF r \in RecRels THEN NoNode ELSE BoundNode(r, fwd)
    BY DEF RelScanPlan, AppendFilters, AppendExtend, ScanNodeTable
<1>3. Src[r] = Dst[r] => RelScanPlan(r, TRUE) = RelScanPlan(r, FALSE)
    BY DEF RelScanPlan, BoundNode, NbrNode
<1>4. m # NoNode
    BY GraphAssumption
<1>5. PICK q : C \subseteq {q}
    <2>1. CASE m = Src[r] /\ r \notin RecRels
        <3>1. C \subseteq {RelScanPlan(r, TRUE)}
            BY <2>1, <1>1, <1>2, <1>3 DEF BoundNode
        <3>2. QED
            BY <3>1
    <2>2. CASE ~(m = Src[r] /\ r \notin RecRels)
        <3>1. RelScanPlan(r, TRUE) \notin C
            BY <2>2, <1>2, <1>4 DEF BoundNode
        <3>2. C \subseteq {RelScanPlan(r, FALSE)}
            BY <1>1, <3>1
        <3>3. QED
            BY <3>2
    <2>3. QED
        BY <2>1, <2>2
<1>6. IsFiniteSet({q}) /\ Cardinality({q}) = 1
    BY FS_Singleton
<1>7. IsFiniteSet(C) /\ Cardinality(C) <= Cardinality({q})
    BY <1>5, <1>6, FS_Subset
<1>8. QED
    BY <1>6, <1>7

(***************************************************************************)
(* A subgraph and a disjoint neighbour that touches it share a join node,  *)
(* and are not both single rels: two rels only touch through a node.       *)
(***************************************************************************)
LEMMA InnerPairAssert ==
    ASSUME NEW S \in SUBSET Elems, NEW T \in SUBSET (Elems \ S),
           \E x \in T, y \in S : Adjacent(x, y)
    PROVE  /\ ConnectedNodePos(S, T) # {}
           /\ ~(IsSingleRel(S) /\ IsSingleRel(T))
<1>1. PICK x \in T, y \in S : Adjacent(x, y)
    OBVIOUS
<1>2. CASE x \in Rels /\ y \in Endpoints(x)
    <2>1. y \in Nodes /\ y \notin T
        BY <1>2, GraphAssumption DEF Endpoints
    <2>2. y \in NodeNbrs(T) \cap S
        BY <1>2, <2>1 DEF NodeNbrs
    <2>3. ~(S \subseteq Rels)
        BY <2>1, GraphAssumption
    <2>4. QED
        BY <2>2, <2>3 DEF ConnectedNodePos, IsSingleRel
<1>3. CASE y \in Rels /\ x \in Endpoints(y)
    <2>1. x \in Nodes /\ x \notin S
        BY <1>3, GraphAssumption DEF Endpoints
    <2>2. x \in NodeNbrs(S) \cap T
        BY <1>3, <2>1 DEF NodeNbrs
    <2>3. ~(T \subseteq Rels)
        BY <2>1, GraphAssumption
    <2>4. QED
        BY <2>2, <2>3 DEF ConnectedNodePos, IsSingleRel
<1>4. QED
    BY <1>1, <1>2, <1>3 DEF Adjacent


(* A single rel is a SubqueryGraph of level 1, which no other SubqueryGraph of level 1 equals. *)
LEMMA SingleRelLevel ==
    ASSUME NEW r \in Rels
    PROVE  Level({r}) = 1 /\ {r} # Elems
<1>1. Level({r}) = 1
    BY FS_Singleton DEF Level
<1>2. PICK n \in Nodes : TRUE
    BY GraphAssumption
<1>3. n \in Elems /\ n # r
    BY <1>2, GraphAssumption DEF Elems
<1>4. QED
    BY <1>1, <1>3

(* planBaseTableScans files the two rel scans of r, and nothing else, under {r}. *)
LEMMA BaseTableRel ==
    ASSUME corrNodes \in SUBSET Nodes, NEW r \in Rels
    PROVE  BaseTable[{r}] = PlanRelScan(r)
<1>1. r \notin Nodes
    BY GraphAssumption
<1>2. {m \in Nodes : {r} = {m}} = {} /\ {x \in Rels : {r} = {x}} = {r}
    BY <1>1
<1>3. {r} # corrNodes
    BY <1>1
<1>4. {r} \in SUBSET Elems
    BY DEF Elems
<1>5. QED
    BY <1>2, <1>3, <1>4 DEF BaseTable

(* The inner-join work of a split pairs disjoint SubqueryGraphs that touch. *)
LEMMA InnerWorkShape ==
    ASSUME NEW k, NEW l, NEW w \in InnerWork(k, l)
    PROVE  /\ w.nbr \subseteq Elems \ w.right
           /\ \E x \in w.nbr, y \in w.right : Adjacent(x, y)
<1>1. PICK S \in SubqueryGraphsAt(k - l) :
             \E T \in NbrSubgraphs(S, l) : w = [right |-> S, nbr |-> T, node |-> NoNode]
    BY DEF InnerWork
<1>2. PICK T \in NbrSubgraphs(S, l) : w = [right |-> S, nbr |-> T, node |-> NoNode]
    BY <1>1
<1>3. QED
    BY <1>2 DEF NbrSubgraphs

(* planLevel's next split is at level two or more. *)
LEMMA NextSplitLevel ==
    ASSUME level \in Nat, leftLevel \in Nat, level >= 1, stage = "wco" => level >= 2
    PROVE  NextSplit.level >= 2
BY DEF NextSplit

LEMMA InitAssertInv == Init => AssertInv
BY InitLevelInv DEF Init, AssertInv, BaseRelPlans, LevelBounds, InnerShape

LEMMA PlanBaseTableScansAssertInv ==
    ASSUME AssertInv, PlanBaseTableScans
    PROVE  BaseRelPlans' /\ LevelBounds' /\ InnerShape'
<1>1. corrNodes \in SUBSET Nodes
    BY DEF AssertInv, LevelInv, TypeInv, TypeOK
<1>2. BaseRelPlans'
    BY <1>1, BaseTableRel DEF PlanBaseTableScans, BaseRelPlans
<1>3. QED
    BY <1>2 DEF PlanBaseTableScans, LevelBounds, InnerShape

LEMMA PlanLevelAssertInv ==
    ASSUME AssertInv, PlanLevel
    PROVE  BaseRelPlans' /\ LevelBounds' /\ InnerShape'
<1>1. level \in Nat /\ leftLevel \in Nat
    BY DEF AssertInv, LevelInv, TypeInv, TypeOK
<1>2. level >= 1 /\ (stage = "wco" => level >= 2)
    BY DEF PlanLevel, AssertInv, LevelBounds
<1>3. level' \in Nat /\ level' >= 2
    BY <1>1, <1>2, NextSplitLevel, NextSplitType DEF PlanLevel
<1>4. InnerShape'
    BY InnerWorkShape DEF PlanLevel, InnerShape
<1>5. pc = "plan" /\ pc' = "plan" /\ UNCHANGED table
    BY DEF PlanLevel
<1>6. BaseRelPlans'
    BY <1>5 DEF AssertInv, BaseRelPlans
<1>7. LevelBounds'
    BY <1>3, <1>5 DEF LevelBounds
<1>8. QED
    BY <1>4, <1>6, <1>7

LEMMA FinishEnumerationAssertInv ==
    ASSUME AssertInv, FinishEnumeration
    PROVE  BaseRelPlans' /\ LevelBounds' /\ InnerShape'
<1>1. BaseRelPlans'
    <2> SUFFICES ASSUME NEW r \in Rels PROVE table'[{r}] = PlanRelScan(r)
        BY DEF BaseRelPlans
    <2>1. {r} # FullyMatched /\ {r} \in SUBSET Elems
        BY SingleRelLevel DEF FullyMatched, Elems
    <2>2. table \in [SUBSET Elems -> SUBSET Plan]
        BY DEF AssertInv, LevelInv, TypeInv, TypeOK
    <2>3. table'[{r}] = table[{r}]
        BY <2>1, <2>2 DEF FinishEnumeration
    <2>4. QED
        BY <2>3 DEF FinishEnumeration, AssertInv, BaseRelPlans
<1>2. QED
    BY <1>1 DEF FinishEnumeration, AssertInv, LevelBounds, InnerShape

(***************************************************************************)
(* A visit removes its item, and a plan it adds goes to its target, whose *)
(* level is the current one, two or more: never to a single rel.           *)
(***************************************************************************)
LEMMA VisitAssertInv ==
    ASSUME AssertInv, NEW w \in todo,
           \/ PlanWCOJoin(w) \/ AbortWCOJoin(w)
           \/ SkipUnplannedNbr(w) \/ SkipImplicitJoin(w)
           \/ PlanINLJoin(w) \/ PlanInnerHashJoin(w)
    PROVE  BaseRelPlans' /\ LevelBounds' /\ InnerShape'
<1>1. todo' \subseteq todo /\ UNCHANGED <<pc, level, stage>>
    BY VisitShrinksTodo
<1>2. pc = "plan"
    BY DEF PlanWCOJoin, AbortWCOJoin, WCOJoinStep, SkipUnplannedNbr, SkipImplicitJoin,
           PlanINLJoin, PlanInnerHashJoin, InnerJoinStep
<1>3. level >= 2 /\ Level(Target(w)) = level
    BY DEF AssertInv, LevelBounds, LevelInv, TodoTargetsInv
<1>4. table \in [SUBSET Elems -> SUBSET Plan]
    BY DEF AssertInv, LevelInv, TypeInv, TypeOK
<1>5. \/ table' = table
      \/ \E plans : AddPlans(Target(w), plans)
    <2>1. CASE PlanWCOJoin(w)
        BY <2>1 DEF PlanWCOJoin
    <2>2. CASE PlanINLJoin(w) \/ PlanInnerHashJoin(w)
        <3>1. stage = "inner"
            BY <2>2 DEF PlanINLJoin, PlanInnerHashJoin, InnerJoinStep
        <3>2. Target(w) = w.right \cup w.nbr
            BY <3>1 DEF AssertInv, LevelInv, TodoTargetsInv, Target
        <3>3. QED
            BY <2>2, <3>2 DEF PlanINLJoin, PlanInnerHashJoin
    <2>3. CASE AbortWCOJoin(w) \/ SkipUnplannedNbr(w) \/ SkipImplicitJoin(w)
        BY <2>3 DEF AbortWCOJoin, SkipUnplannedNbr, SkipImplicitJoin
    <2>4. QED
        BY <2>1, <2>2, <2>3
<1>6. BaseRelPlans'
    <2> SUFFICES ASSUME NEW r \in Rels PROVE table'[{r}] = PlanRelScan(r)
        BY <1>1, <1>2 DEF BaseRelPlans
    <2>1. Target(w) # {r} /\ {r} \in SUBSET Elems
        BY <1>3, SingleRelLevel DEF Elems
    <2>2. table'[{r}] = table[{r}]
        BY <1>4, <1>5, <2>1 DEF AddPlans
    <2>3. QED
        BY <1>2, <2>2 DEF AssertInv, BaseRelPlans
<1>7. QED
    BY <1>1, <1>2, <1>3, <1>6 DEF AssertInv, LevelBounds, InnerShape

LEMMA NextAssertInv == AssertInv /\ [Next]_vars => AssertInv'
<1> SUFFICES ASSUME AssertInv, [Next]_vars PROVE AssertInv'
    OBVIOUS
<1>1. LevelInv'
    BY NextLevelInv DEF AssertInv
<1> SUFFICES BaseRelPlans' /\ LevelBounds' /\ InnerShape'
    BY <1>1 DEF AssertInv
<1>2. CASE PlanBaseTableScans
    BY <1>2, PlanBaseTableScansAssertInv
<1>3. CASE PlanLevel
    BY <1>3, PlanLevelAssertInv
<1>4. CASE \E w \in todo : \/ PlanWCOJoin(w) \/ AbortWCOJoin(w)
                           \/ SkipUnplannedNbr(w) \/ SkipImplicitJoin(w)
                           \/ PlanINLJoin(w) \/ PlanInnerHashJoin(w)
    BY <1>4, VisitAssertInv
<1>5. CASE FinishEnumeration
    BY <1>5, FinishEnumerationAssertInv
<1>6. CASE UNCHANGED vars
    BY <1>6 DEF vars, AssertInv, BaseRelPlans, LevelBounds, InnerShape
<1>7. QED
    BY <1>2, <1>3, <1>4, <1>5, <1>6 DEF Next


(* The invariant gives the three assertions of the inner loops. *)
LEMMA AssertInvProperty == AssertInv => NoAssertionFailure
<1> SUFFICES ASSUME AssertInv, NEW w \in todo
             PROVE  /\ stage = "inner" =>
                          /\ ConnectedNodePos(w.right, w.nbr) # {}
                          /\ ~(IsSingleRel(w.right) /\ IsSingleRel(w.nbr))
                    /\ stage = "wco" =>
                          \A r \in IntersectRels(w.right, w.node) :
                              Cardinality(WCOBuildCandidates(r, w.node)) <= 1
    BY DEF NoAssertionFailure
<1>1. w \in WorkItem
    BY DEF AssertInv, LevelInv, TypeInv, TypeOK
<1>2. ASSUME stage = "inner"
      PROVE  /\ ConnectedNodePos(w.right, w.nbr) # {}
             /\ ~(IsSingleRel(w.right) /\ IsSingleRel(w.nbr))
    <2>1. w.right \in SUBSET Elems /\ w.nbr \in SUBSET (Elems \ w.right)
          /\ \E x \in w.nbr, y \in w.right : Adjacent(x, y)
        BY <1>1, <1>2 DEF AssertInv, InnerShape, WorkItem
    <2>2. QED
        BY <2>1, InnerPairAssert
<1>3. ASSUME stage = "wco", NEW r \in IntersectRels(w.right, w.node)
      PROVE  Cardinality(WCOBuildCandidates(r, w.node)) <= 1
    <2>1. r \in Rels
        BY DEF IntersectRels, RelNbrs
    <2>2. pc # "scan"
        BY DEF AssertInv, LevelBounds
    <2>3. table[{r}] = PlanRelScan(r)
        BY <2>1, <2>2 DEF AssertInv, BaseRelPlans
    <2>4. WCOBuildCandidates(r, w.node) = {p \in PlanRelScan(r) : p.seq = OtherEnd(r, w.node)}
        BY <2>3 DEF WCOBuildCandidates, IsNodeSequentialOnPlan
    <2>5. OtherEnd(r, w.node) \in Nodes
        BY <2>1, EndpointType
    <2>6. QED
        BY <2>1, <2>4, <2>5, RelScanCandidates
<1>4. QED
    BY <1>2, <1>3

(***************************************************************************)
(* NoAssertionFailure: for every query graph, estimator and bound, every  *)
(* neighbour pair planInnerJoin visits has a join node, so tryPlanINLJoin  *)
(* never reads joinNodes[0] of an empty vector; no pair is two single rels,*)
(* so its argument swap never recurses forever; and getWCOJBuildPlanForRel *)
(* finds at most one build plan per rel, so its KU_ASSERT holds.           *)
(***************************************************************************)
THEOREM NoAssertions == Spec => []NoAssertionFailure
<1>1. Spec => []AssertInv
    BY InitAssertInv, NextAssertInv, PTL DEF Spec
<1>2. QED
    BY <1>1, AssertInvProperty, PTL

=============================================================================
