---------------------- MODULE JoinOrderCoverageProofs -----------------------
(***************************************************************************)
(* Coverage of the join-order enumerator (spec 8.2) for every query graph, *)
(* subquery type, estimator and exact-planning bound the assumptions       *)
(* admit: every plan filed under a SubqueryGraph, and every plan returned, *)
(* extends exactly the selected rels, scans exactly the selected nodes     *)
(* that the outer query does not supply, and has in scope the selected     *)
(* nodes and nothing outside the nodes the SubqueryGraph touches.          *)
(*                                                                         *)
(* The first part gives the saturating bags of LogicalPlan their sums on   *)
(* indicator bags; the second shows that each appender the enumerator      *)
(* calls turns matching plans into a plan matching the joined subgraph;    *)
(* the third that every step keeps the table and the result matching.      *)
(* The last part proves the placement of the correlated ExpressionsScan    *)
(* (spec 8.8): exactly once in the plans of SubqueryGraphs holding every   *)
(* correlated node, and nowhere else.                                      *)
(***************************************************************************)
EXTENDS JoinOrderEnumeratorProofs

-----------------------------------------------------------------------------
(* Sums of indicator bags *)

LEMMA ZeroIndicator ==
    ASSUME NEW D
    PROVE  Zero(D) = Indicator(D, {})
BY DEF Zero, Indicator

LEMMA UnitIndicator ==
    ASSUME NEW D, NEW y
    PROVE  Unit(D, y) = Indicator(D, {y})
BY DEF Unit, Indicator

(* Adding the indicators of two disjoint sets gives the indicator of their union. *)
LEMMA IndicatorUnion ==
    ASSUME NEW D, NEW A, NEW B, A \cap B = {}
    PROVE  BagAdd(Indicator(D, A), Indicator(D, B)) = Indicator(D, A \cup B)
BY DEF BagAdd, Indicator, SatAdd

(***************************************************************************)
(* An intersection of probe A with one build per member of I, each build   *)
(* counting its own member once, counts A \cup I once when they are        *)
(* disjoint.                                                               *)
(***************************************************************************)
LEMMA BagSumIndicator ==
    ASSUME NEW D, NEW A, NEW I, A \cap I = {}, NEW F,
           \A i \in I, x \in D : F[i][x] = IF x = i THEN 1 ELSE 0
    PROVE  BagSum(Indicator(D, A), I, F) = Indicator(D, A \cup I)
<1>1. ASSUME NEW x \in D PROVE SatTotal(I, F, x) = IF x \in I THEN 1 ELSE 0
    <2> DEFINE g == [i \in I |-> F[i][x]]
    <2>1. \A i \in I : g[i] = IF i = x THEN 1 ELSE 0
        OBVIOUS
    <2>2. ~\E i \in I : g[i] = 2
        BY <2>1
    <2>3. ~\E i, j \in I : i # j /\ g[i] >= 1 /\ g[j] >= 1
        BY <2>1
    <2>4. (\E i \in I : g[i] >= 1) <=> x \in I
        BY <2>1
    <2>5. QED
        BY <2>2, <2>3, <2>4 DEF SatTotal, SatCount
<1>2. QED
    BY <1>1 DEF BagSum, Indicator, SatAdd

(* Builds that count nothing leave the probe's bag as it is. *)
LEMMA BagSumZero ==
    ASSUME NEW D, NEW base \in [D -> Mult], NEW I, NEW F,
           \A i \in I, x \in D : F[i][x] = 0
    PROVE  BagSum(base, I, F) = base
<1>1. \A x \in D : SatTotal(I, F, x) = 0
    BY DEF SatTotal, SatCount
<1>2. QED
    BY <1>1 DEF BagSum, SatAdd, Mult

-----------------------------------------------------------------------------
(* The nodes a SubqueryGraph touches *)

LEMMA NodesIgnoringSelectorMono ==
    ASSUME NEW S, NEW T, S \subseteq T
    PROVE  NodesIgnoringSelector(S) \subseteq NodesIgnoringSelector(T)
BY DEF NodesIgnoringSelector

LEMMA EndpointTouched ==
    ASSUME NEW S, NEW r \in S \cap Rels
    PROVE  Endpoints(r) \subseteq NodesIgnoringSelector(S)
BY DEF NodesIgnoringSelector

(* The selected nodes whose table planBaseTableScans reads with properties. *)
ScannedNodes(S) == {n \in S \cap Nodes : ReadsNodeProperties(n)}


(* MatchesSubgraph, with the scanned nodes named. *)
LEMMA MatchesDef ==
    ASSUME NEW p, NEW S
    PROVE  MatchesSubgraph(p, S) <=>
              /\ p.extends = Indicator(Rels, S \cap Rels)
              /\ S \cap Nodes \subseteq p.scope
              /\ p.scope \subseteq NodesIgnoringSelector(S)
              /\ p.nodeScans = Indicator(Nodes, ScannedNodes(S))
BY DEF MatchesSubgraph, ScannedNodes

-----------------------------------------------------------------------------
(* The appenders keep plans matching *)

(* appendFilters changes only the filters. *)
LEMMA MatchFilters ==
    ASSUME NEW p, NEW S, NEW preds, MatchesSubgraph(p, S)
    PROVE  MatchesSubgraph(AppendFilters(p, preds), S)
BY DEF MatchesSubgraph, AppendFilters

(***************************************************************************)
(* appendHashJoin of a plan of S and a plan of a disjoint T matches        *)
(* S \cup T: the extends, the node scans and the scopes of the two sides   *)
(* add up without overlap.                                                 *)
(***************************************************************************)
LEMMA MatchHashJoin ==
    ASSUME NEW p, NEW q, NEW S, NEW T, S \cap T = {},
           MatchesSubgraph(p, S), MatchesSubgraph(q, T), NEW newSubgraph,
           newSubgraph = S \cup T
    PROVE  MatchesSubgraph(AppendHashJoin(p, q, newSubgraph), newSubgraph)
<1> DEFINE h == AppendHashJoin(p, q, newSubgraph)
<1>1. h.extends = Indicator(Rels, newSubgraph \cap Rels)
    <2>1. h.extends = BagAdd(Indicator(Rels, S \cap Rels), Indicator(Rels, T \cap Rels))
        BY MatchesDef DEF AppendHashJoin
    <2>2. (S \cap Rels) \cap (T \cap Rels) = {}
          /\ (S \cap Rels) \cup (T \cap Rels) = newSubgraph \cap Rels
        OBVIOUS
    <2>3. QED
        BY <2>1, <2>2, IndicatorUnion
<1>2. h.nodeScans = Indicator(Nodes, ScannedNodes(newSubgraph))
    <2>1. h.nodeScans = BagAdd(Indicator(Nodes, ScannedNodes(S)), Indicator(Nodes, ScannedNodes(T)))
        BY MatchesDef DEF AppendHashJoin
    <2>2. ScannedNodes(S) \cap ScannedNodes(T) = {}
          /\ ScannedNodes(S) \cup ScannedNodes(T) = ScannedNodes(newSubgraph)
        BY DEF ScannedNodes
    <2>3. QED
        BY <2>1, <2>2, IndicatorUnion
<1>3. newSubgraph \cap Nodes \subseteq h.scope
    BY MatchesDef DEF AppendHashJoin
<1>4. h.scope \subseteq NodesIgnoringSelector(newSubgraph)
    <2>1. NodesIgnoringSelector(S) \subseteq NodesIgnoringSelector(newSubgraph)
          /\ NodesIgnoringSelector(T) \subseteq NodesIgnoringSelector(newSubgraph)
        BY NodesIgnoringSelectorMono
    <2>2. QED
        BY <2>1, MatchesDef DEF AppendHashJoin
<1>5. QED
    BY <1>1, <1>2, <1>3, <1>4, MatchesDef

(***************************************************************************)
(* appendExtend of a plan of M by a rel r outside M to one of its          *)
(* endpoints matches M \cup {r}: r is extended once more, and the node     *)
(* reached is an endpoint of a selected rel.                               *)
(***************************************************************************)
LEMMA MatchExtend ==
    ASSUME NEW p, NEW M, NEW r \in Rels \ M, NEW nbr \in Endpoints(r),
           MatchesSubgraph(p, M)
    PROVE  MatchesSubgraph(AppendExtend(p, r, nbr, M \cup {r}), M \cup {r})
<1> DEFINE e == AppendExtend(p, r, nbr, M \cup {r})
<1>1. r \notin Nodes
    BY GraphAssumption
<1>2. e.extends = Indicator(Rels, (M \cup {r}) \cap Rels)
    <2>1. e.extends = BagAdd(Indicator(Rels, M \cap Rels), Indicator(Rels, {r}))
        BY MatchesDef, UnitIndicator DEF AppendExtend
    <2>2. (M \cap Rels) \cap {r} = {} /\ (M \cap Rels) \cup {r} = (M \cup {r}) \cap Rels
        OBVIOUS
    <2>3. QED
        BY <2>1, <2>2, IndicatorUnion
<1>3. (M \cup {r}) \cap Nodes = M \cap Nodes /\ ScannedNodes(M \cup {r}) = ScannedNodes(M)
    BY <1>1 DEF ScannedNodes
<1>4. e.scope \subseteq NodesIgnoringSelector(M \cup {r})
    <2>1. NodesIgnoringSelector(M) \subseteq NodesIgnoringSelector(M \cup {r})
        BY NodesIgnoringSelectorMono
    <2>2. nbr \in NodesIgnoringSelector(M \cup {r})
        BY EndpointTouched
    <2>3. QED
        BY <2>1, <2>2, MatchesDef DEF AppendExtend
<1>5. QED
    BY <1>2, <1>3, <1>4, MatchesDef DEF AppendExtend

(***************************************************************************)
(* appendIntersect of a plan of S with one build plan per dangling rel,    *)
(* each build matching its rel alone, matches S \cup rels: every rel is    *)
(* extended once, by its build; the builds scan no node with properties;   *)
(* and the intersect node is an endpoint of the rels.                      *)
(***************************************************************************)
LEMMA MatchIntersect ==
    ASSUME NEW p, NEW S, NEW rels \in SUBSET (Rels \ S), NEW builds, NEW n,
           \E r \in rels : n \in Endpoints(r),
           MatchesSubgraph(p, S), \A r \in rels : MatchesSubgraph(builds[r], {r})
    PROVE  MatchesSubgraph(AppendIntersect(p, rels, builds, n, S \cup rels), S \cup rels)
<1> DEFINE x == AppendIntersect(p, rels, builds, n, S \cup rels)
<1>1. rels \cap Nodes = {}
    BY GraphAssumption
<1>2. x.extends = Indicator(Rels, (S \cup rels) \cap Rels)
    <2>1. \A r \in rels : builds[r].extends = Indicator(Rels, {r})
        BY MatchesDef
    <2>2. (S \cap Rels) \cap rels = {} /\ (S \cap Rels) \cup rels = (S \cup rels) \cap Rels
        OBVIOUS
    <2> DEFINE F == [r \in rels |-> builds[r].extends]
    <2>3. \A i \in rels, y \in Rels : F[i][y] = IF y = i THEN 1 ELSE 0
        BY <2>1 DEF Indicator
    <2>4. BagSum(Indicator(Rels, S \cap Rels), rels, F) = Indicator(Rels, (S \cap Rels) \cup rels)
        BY <2>2, <2>3, BagSumIndicator
    <2>5. QED
        BY <2>2, <2>4, MatchesDef DEF AppendIntersect
<1>3. (S \cup rels) \cap Nodes = S \cap Nodes /\ ScannedNodes(S \cup rels) = ScannedNodes(S)
    BY <1>1 DEF ScannedNodes
<1>4. x.nodeScans = Indicator(Nodes, ScannedNodes(S))
    <2>1. \A r \in rels : builds[r].nodeScans = Zero(Nodes)
        <3> SUFFICES ASSUME NEW r \in rels PROVE builds[r].nodeScans = Zero(Nodes)
            OBVIOUS
        <3>1. ScannedNodes({r}) = {}
            BY <1>1 DEF ScannedNodes
        <3>2. QED
            BY <3>1, MatchesDef, ZeroIndicator
    <2>2. Indicator(Nodes, ScannedNodes(S)) \in [Nodes -> Mult]
        BY IndicatorType
    <2> DEFINE F == [r \in rels |-> builds[r].nodeScans]
    <2>3. \A i \in rels, y \in Nodes : F[i][y] = 0
        BY <2>1 DEF Zero
    <2>4. BagSum(Indicator(Nodes, ScannedNodes(S)), rels, F) = Indicator(Nodes, ScannedNodes(S))
        BY <2>2, <2>3, BagSumZero
    <2>5. QED
        BY <2>4, MatchesDef DEF AppendIntersect
<1>5. x.scope \subseteq NodesIgnoringSelector(S \cup rels)
    <2>1. NodesIgnoringSelector(S) \subseteq NodesIgnoringSelector(S \cup rels)
        BY NodesIgnoringSelectorMono
    <2>2. PICK r \in rels : n \in Endpoints(r)
        OBVIOUS
    <2>3. n \in NodesIgnoringSelector(S \cup rels)
        BY <2>2, EndpointTouched
    <2>4. QED
        BY <2>1, <2>3, MatchesDef DEF AppendIntersect
<1>6. QED
    BY <1>2, <1>3, <1>4, <1>5, MatchesDef DEF AppendIntersect


-----------------------------------------------------------------------------
(* The plans of planBaseTableScans match their SubqueryGraph *)

(* planNodeScan of a node whose table is read with its properties. *)
LEMMA NodeScanMatch ==
    ASSUME NEW m \in Nodes, ReadsNodeProperties(m)
    PROVE  MatchesSubgraph(PlanNodeScan(m), {m})
<1>1. m \notin Rels /\ {m} \cap Rels = {} /\ {m} \cap Nodes = {m}
    BY GraphAssumption
<1>2. ScannedNodes({m}) = {m}
    BY <1>1 DEF ScannedNodes
<1>3. {m} \subseteq NodesIgnoringSelector({m})
    BY <1>1 DEF NodesIgnoringSelector
<1>4. ScanNodeTable(m, TRUE).extends = Indicator(Rels, {m} \cap Rels)
    BY <1>1 DEF ScanNodeTable, Zero, Indicator
<1>5. ScanNodeTable(m, TRUE).nodeScans = Indicator(Nodes, ScannedNodes({m}))
    BY <1>2 DEF ScanNodeTable, Unit, Indicator
<1>6. MatchesSubgraph(ScanNodeTable(m, TRUE), {m})
    BY <1>1, <1>3, <1>4, <1>5, MatchesDef DEF ScanNodeTable
<1>7. QED
    BY <1>6, MatchFilters DEF PlanNodeScan

(* planNodeIDScan of a node the outer query supplies by its internal ID. *)
LEMMA NodeIDScanMatch ==
    ASSUME NEW m \in Nodes, ~ReadsNodeProperties(m)
    PROVE  MatchesSubgraph(PlanNodeIDScan(m), {m})
<1>1. m \notin Rels /\ {m} \cap Rels = {} /\ {m} \cap Nodes = {m}
    BY GraphAssumption
<1>2. ScannedNodes({m}) = {}
    BY <1>1 DEF ScannedNodes
<1>3. {m} \subseteq NodesIgnoringSelector({m})
    BY <1>1 DEF NodesIgnoringSelector
<1>4. QED
    BY <1>1, <1>2, <1>3, ZeroIndicator, MatchesDef DEF PlanNodeIDScan, ScanNodeTable

(* Each direction of planRelScan: an ID scan of one endpoint extended by r to the other. *)
LEMMA RelScanMatch ==
    ASSUME NEW r \in Rels, NEW fwd \in BOOLEAN
    PROVE  MatchesSubgraph(RelScanPlan(r, fwd), {r})
<1> DEFINE e == AppendExtend(ScanNodeTable(BoundNode(r, fwd), FALSE), r, NbrNode(r, fwd), {r})
<1>1. r \notin Nodes /\ {r} \cap Nodes = {} /\ {r} \cap Rels = {r}
    BY GraphAssumption
<1>2. e.extends = Indicator(Rels, {r})
    BY DEF AppendExtend, ScanNodeTable, BagAdd, Zero, Unit, Indicator, SatAdd
<1>3. e.scope \subseteq NodesIgnoringSelector({r})
    <2>1. e.scope = {BoundNode(r, fwd), NbrNode(r, fwd)}
        BY DEF AppendExtend, ScanNodeTable
    <2>2. {BoundNode(r, fwd), NbrNode(r, fwd)} \subseteq Endpoints(r)
        BY DEF BoundNode, NbrNode, Endpoints
    <2>3. QED
        BY <1>1, <2>1, <2>2, EndpointTouched
<1>4. e.nodeScans = Indicator(Nodes, ScannedNodes({r}))
    BY <1>1, ZeroIndicator DEF AppendExtend, ScanNodeTable, ScannedNodes
<1>5. MatchesSubgraph(e, {r})
    BY <1>1, <1>2, <1>3, <1>4, MatchesDef
<1>6. QED
    BY <1>5, MatchFilters DEF RelScanPlan

(* planCorrelatedExpressionsScan: the outer query supplies the correlated nodes. *)
LEMMA ExpressionsScanMatch ==
    ASSUME subqueryType = "CORRELATED", corrNodes \in SUBSET Nodes
    PROVE  MatchesSubgraph(PlanCorrelatedExpressionsScan, corrNodes)
<1>1. corrNodes \cap Rels = {} /\ corrNodes \cap Nodes = corrNodes
    BY GraphAssumption
<1>2. ScannedNodes(corrNodes) = {}
    BY DEF ScannedNodes, ReadsNodeProperties
<1>3. corrNodes \subseteq NodesIgnoringSelector(corrNodes)
    BY <1>1 DEF NodesIgnoringSelector
<1>4. MatchesSubgraph(ExpressionsScan(corrNodes), corrNodes)
    BY <1>1, <1>2, <1>3, ZeroIndicator, MatchesDef DEF ExpressionsScan
<1>5. QED
    BY <1>4, MatchFilters DEF PlanCorrelatedExpressionsScan, AppendDistinct, MatchesSubgraph

LEMMA BaseTableMatch ==
    ASSUME subqueryType \in SubqueryTypes, corrNodes \in SUBSET Nodes,
           NEW S \in SUBSET Elems, NEW p \in BaseTable[S]
    PROVE  MatchesSubgraph(p, S)
<1>1. CASE \E m \in Nodes : S = {m} /\ p \in NodeScanPlans(m)
    <2>1. PICK m \in Nodes : S = {m} /\ p \in NodeScanPlans(m)
        BY <1>1
    <2>2. CASE p = PlanNodeScan(m) /\ ReadsNodeProperties(m)
        BY <2>1, <2>2, NodeScanMatch
    <2>3. CASE p = PlanNodeIDScan(m) /\ ~ReadsNodeProperties(m)
        BY <2>1, <2>3, NodeIDScanMatch
    <2>4. QED
        BY <2>1, <2>2, <2>3 DEF NodeScanPlans, ReadsNodeProperties, SubqueryTypes
<1>2. CASE \E r \in Rels : S = {r} /\ p \in PlanRelScan(r)
    <2>1. PICK r \in Rels : S = {r} /\ p \in PlanRelScan(r)
        BY <1>2
    <2>2. PICK fwd \in BOOLEAN : p = RelScanPlan(r, fwd)
        BY <2>1 DEF PlanRelScan, RelScanPlan
    <2>3. QED
        BY <2>1, <2>2, RelScanMatch
<1>3. CASE subqueryType = "CORRELATED" /\ S = corrNodes /\ p = PlanCorrelatedExpressionsScan
    BY <1>3, ExpressionsScanMatch
<1>4. QED
    BY <1>1, <1>2, <1>3 DEF BaseTable


-----------------------------------------------------------------------------
(* The plans of the three join methods match their target *)

(* Every plan in the SubPlansTable matches the SubqueryGraph it is filed under. *)
TableCover == \A S \in SUBSET Elems : \A p \in table[S] : MatchesSubgraph(p, S)

(* planInnerHashJoin of two disjoint SubqueryGraphs, in both directions. *)
LEMMA HashJoinMatch ==
    ASSUME TableCover, NEW S \in SUBSET Elems, NEW T \in SUBSET Elems, S \cap T = {},
           NEW flip, NEW p \in HashJoinPlans(S, T, flip)
    PROVE  MatchesSubgraph(p, S \cup T)
<1> DEFINE preds == NewlyMatched({S, T}, S \cup T)
<1>1. PICK pr \in table[S] \X table[T] :
             \/ p = AppendFilters(AppendHashJoin(pr[1], pr[2], S \cup T), preds)
             \/ p = AppendFilters(AppendHashJoin(pr[2], pr[1], S \cup T), preds)
    BY DEF HashJoinPlans
<1>2. MatchesSubgraph(pr[1], S) /\ MatchesSubgraph(pr[2], T)
    BY DEF TableCover
<1>3. MatchesSubgraph(AppendHashJoin(pr[1], pr[2], S \cup T), S \cup T)
    BY <1>2, MatchHashJoin
<1>4. MatchesSubgraph(AppendHashJoin(pr[2], pr[1], S \cup T), S \cup T)
    <2>1. T \cap S = {} /\ S \cup T = T \cup S
        OBVIOUS
    <2>2. QED
        BY <1>2, <2>1, MatchHashJoin
<1>5. QED
    BY <1>1, <1>3, <1>4, MatchFilters

(* A single-rel SubqueryGraph is the singleton of its rel. *)
LEMMA SingleRelIsSingleton ==
    ASSUME NEW X \in SUBSET Elems, IsSingleRel(X)
    PROVE  X = {CHOOSE x \in X : TRUE}
<1>1. IsFiniteSet(X)
    BY ElemsFinite, FS_Subset
<1>2. PICK y : X = {y}
    BY <1>1, FS_Singleton DEF IsSingleRel
<1>3. QED
    BY <1>2

(***************************************************************************)
(* tryPlanINLJoin of two disjoint SubqueryGraphs: the other side extended  *)
(* by the single rel, to its end away from the join node, covers both.     *)
(***************************************************************************)
LEMMA INLMatch ==
    ASSUME TableCover, NEW S \in SUBSET Elems, NEW T \in SUBSET Elems, S \cap T = {},
           NEW joinNodes, NEW p \in INLPlans(S, T, joinNodes)
    PROVE  MatchesSubgraph(p, S \cup T)
<1> DEFINE multi == IF IsSingleRel(S) THEN T ELSE S
           single == IF IsSingleRel(S) THEN S ELSE T
           rel == CHOOSE x \in single : TRUE
           boundNode == CHOOSE j \in joinNodes : TRUE
<1>1. ~(Cardinality(joinNodes) > 1 \/ (~IsSingleRel(S) /\ ~IsSingleRel(T)))
    BY DEF INLPlans
<1>2. IsSingleRel(single) /\ single \in SUBSET Elems /\ multi \in SUBSET Elems
    BY <1>1
<1>3. single = {rel} /\ rel \in Rels
    BY <1>2, SingleRelIsSingleton, SingleRelNonEmpty
<1>4. multi \cup {rel} = S \cup T /\ rel \notin multi
    BY <1>3
<1>5. PICK prevPlan \in table[multi] :
             p = AppendFilters(AppendExtend(prevPlan, rel, OtherEnd(rel, boundNode),
                                            multi \cup {rel}),
                               NewlyMatched({multi}, multi \cup {rel}))
    BY <1>1 DEF INLPlans
<1>6. MatchesSubgraph(prevPlan, multi)
    BY <1>2 DEF TableCover
<1>7. OtherEnd(rel, boundNode) \in Endpoints(rel)
    BY DEF OtherEnd, Endpoints
<1>8. MatchesSubgraph(AppendExtend(prevPlan, rel, OtherEnd(rel, boundNode), multi \cup {rel}),
                      multi \cup {rel})
    BY <1>3, <1>4, <1>6, <1>7, MatchExtend
<1>9. QED
    BY <1>4, <1>5, <1>8, MatchFilters

(***************************************************************************)
(* planWCOJoin: each build plan is a plan of its rel, and the rels dangle  *)
(* from S into the intersect node.                                         *)
(***************************************************************************)
LEMMA WCOMatch ==
    ASSUME TableCover, NEW S \in SUBSET Elems, NEW n \in Nodes,
           IntersectRels(S, n) # {},
           \A r \in IntersectRels(S, n) : WCOBuildCandidates(r, n) # {},
           NEW p \in WCOPlans(S, IntersectRels(S, n), n)
    PROVE  MatchesSubgraph(p, S \cup IntersectRels(S, n))
<1> DEFINE rels == IntersectRels(S, n)
           builds == [r \in rels |-> CHOOSE b \in WCOBuildCandidates(r, n) : TRUE]
<1>1. rels \in SUBSET (Rels \ S)
    BY DEF IntersectRels, RelNbrs
<1>2. \E r \in rels : n \in Endpoints(r)
    BY DEF IntersectRels, IntersectNodeOf, Endpoints
<1>3. \A r \in rels : MatchesSubgraph(builds[r], {r})
    <2> SUFFICES ASSUME NEW r \in rels PROVE MatchesSubgraph(builds[r], {r})
        OBVIOUS
    <2>1. builds[r] \in table[{r}]
        BY DEF WCOBuildCandidates
    <2>2. {r} \in SUBSET Elems
        BY <1>1 DEF Elems
    <2>3. QED
        BY <2>1, <2>2 DEF TableCover
<1>4. PICK leftPlan \in table[S] :
             p = AppendFilters(AppendIntersect(leftPlan, rels, builds, n, S \cup rels),
                               NewlyMatched(WCOPrevSubgraphs(S, rels), S \cup rels))
    BY DEF WCOPlans
<1>5. MatchesSubgraph(leftPlan, S)
    BY DEF TableCover
<1>6. QED
    BY <1>1, <1>2, <1>3, <1>4, <1>5, MatchIntersect, MatchFilters


-----------------------------------------------------------------------------
(* Coverage *)

(***************************************************************************)
(* The strengthening for PlanCoverage.  Besides the invariant of the       *)
(* assertions (whose InnerShape gives the disjoint sides an inner join     *)
(* needs), a planWCOJoin item has at least one dangling rel: its right     *)
(* level leftLevel + 1 counts them.  Without it the intersect node would   *)
(* enter the scope of a plan filed under the probe's own SubqueryGraph.    *)
(***************************************************************************)
WCOShape == stage = "wco" => \A w \in todo : IntersectRels(w.right, w.node) # {}

CoverInv == AssertInv /\ WCOShape /\ PlanCoverage


(* A WCO item of right level l >= 1 has l dangling rels, so at least one. *)
LEMMA WCOWorkShape ==
    ASSUME NEW k, NEW l \in Nat, l >= 1, NEW w \in WCOWork(k, l)
    PROVE  IntersectRels(w.right, w.node) # {}
<1>1. Cardinality(IntersectRels(w.right, w.node)) = l
    BY DEF WCOWork
<1>2. QED
    BY <1>1, FS_EmptySet

(* Coverage in the next state needs no more than the plans' match, since a *)
(* step never changes the subquery type or the correlated nodes.            *)
LEMMA CoverPrime ==
    ASSUME UNCHANGED <<subqueryType, corrNodes>>,
           \A S \in SUBSET Elems : \A p \in table'[S] : MatchesSubgraph(p, S),
           \A p \in result' : MatchesSubgraph(p, FullyMatched)
    PROVE  PlanCoverage'
BY DEF PlanCoverage, MatchesSubgraph, ReadsNodeProperties

(* addPlan of plans matching the target keeps the whole table matching. *)
LEMMA AddPlansMatch ==
    ASSUME table \in [SUBSET Elems -> SUBSET Plan], TableCover,
           NEW T \in SUBSET Elems, NEW plans,
           \A p \in plans : MatchesSubgraph(p, T), AddPlans(T, plans)
    PROVE  \A S \in SUBSET Elems : \A p \in table'[S] : MatchesSubgraph(p, S)
BY DEF AddPlans, TableCover

LEMMA InitCoverInv == Init => CoverInv
BY InitAssertInv DEF Init, CoverInv, WCOShape, PlanCoverage

LEMMA PlanBaseTableScansCoverInv ==
    ASSUME CoverInv, PlanBaseTableScans
    PROVE  WCOShape' /\ PlanCoverage'
<1>1. subqueryType \in SubqueryTypes /\ corrNodes \in SUBSET Nodes
    BY DEF CoverInv, AssertInv, LevelInv, TypeInv, TypeOK
<1>2. \A S \in SUBSET Elems : \A p \in table'[S] : MatchesSubgraph(p, S)
    BY <1>1, BaseTableMatch DEF PlanBaseTableScans
<1>3. \A p \in result' : MatchesSubgraph(p, FullyMatched)
    BY DEF PlanBaseTableScans, CoverInv, PlanCoverage
<1>4. QED
    BY <1>2, <1>3, CoverPrime DEF PlanBaseTableScans, WCOShape

LEMMA PlanLevelCoverInv ==
    ASSUME CoverInv, PlanLevel
    PROVE  WCOShape' /\ PlanCoverage'
<1>1. level \in Nat /\ leftLevel \in Nat
    BY DEF CoverInv, AssertInv, LevelInv, TypeInv, TypeOK
<1>2. WCOShape'
    <2> SUFFICES ASSUME NextSplit.stage = "wco", NEW w \in todo'
                 PROVE  IntersectRels(w.right, w.node) # {}
        BY DEF PlanLevel, WCOShape
    <2>1. NextSplit.left = leftLevel + 1 /\ leftLevel + 1 >= 1 /\ leftLevel + 1 \in Nat
        BY <1>1 DEF NextSplit
    <2>2. w \in WCOWork(NextSplit.level, leftLevel + 1)
        BY <2>1 DEF PlanLevel
    <2>3. QED
        BY <2>1, <2>2, WCOWorkShape
<1>3. PlanCoverage'
    BY CoverPrime DEF PlanLevel, CoverInv, PlanCoverage
<1>4. QED
    BY <1>2, <1>3

LEMMA FinishEnumerationCoverInv ==
    ASSUME CoverInv, FinishEnumeration
    PROVE  WCOShape' /\ PlanCoverage'
<1>1. table \in [SUBSET Elems -> SUBSET Plan] /\ FullyMatched \in SUBSET Elems
    BY DEF CoverInv, AssertInv, LevelInv, TypeInv, TypeOK, FullyMatched
<1>2. \A S \in SUBSET Elems : \A p \in table'[S] : MatchesSubgraph(p, S)
    BY <1>1 DEF FinishEnumeration, CoverInv, PlanCoverage
<1>3. \A p \in result' : MatchesSubgraph(p, FullyMatched)
    BY <1>1 DEF FinishEnumeration, CoverInv, PlanCoverage
<1>4. QED
    BY <1>2, <1>3, CoverPrime DEF FinishEnumeration, CoverInv, WCOShape


(***************************************************************************)
(* A visit adds to its target only plans of one of the three join methods, *)
(* each of which matches the target.                                       *)
(***************************************************************************)
LEMMA VisitCoverInv ==
    ASSUME CoverInv, NEW w \in todo,
           \/ PlanWCOJoin(w) \/ AbortWCOJoin(w)
           \/ SkipUnplannedNbr(w) \/ SkipImplicitJoin(w)
           \/ PlanINLJoin(w) \/ PlanInnerHashJoin(w)
    PROVE  WCOShape' /\ PlanCoverage'
<1>1. todo' \subseteq todo /\ UNCHANGED <<pc, level, stage>>
    BY VisitShrinksTodo
<1>2. UNCHANGED <<subqueryType, corrNodes, result>>
    BY DEF PlanWCOJoin, AbortWCOJoin, WCOJoinStep, SkipUnplannedNbr, SkipImplicitJoin,
           PlanINLJoin, PlanInnerHashJoin, InnerJoinStep
<1>3. table \in [SUBSET Elems -> SUBSET Plan] /\ w \in WorkItem /\ TableCover
    BY DEF CoverInv, AssertInv, LevelInv, TypeInv, TypeOK, PlanCoverage, TableCover
<1>4. \A S \in SUBSET Elems : \A p \in table'[S] : MatchesSubgraph(p, S)
    <2>1. CASE PlanWCOJoin(w)
        <3>1. stage = "wco"
            BY <2>1 DEF PlanWCOJoin, WCOJoinStep
        <3>2. w.node \in Nodes /\ w.right \in SUBSET Elems
            BY <1>3, <3>1 DEF CoverInv, AssertInv, LevelInv, TypeInv, WCONodesInv, WorkItem
        <3>3. IntersectRels(w.right, w.node) # {}
            BY <3>1 DEF CoverInv, WCOShape
        <3>4. Target(w) = w.right \cup IntersectRels(w.right, w.node)
            BY <3>2, GraphAssumption DEF Target
        <3>5. Target(w) \in SUBSET Elems
            BY <3>2, <3>4 DEF IntersectRels, RelNbrs, Elems
        <3>6. \A p \in WCOPlans(w.right, IntersectRels(w.right, w.node), w.node) :
                 MatchesSubgraph(p, Target(w))
            BY <1>3, <2>1, <3>2, <3>3, <3>4, WCOMatch DEF PlanWCOJoin
        <3>7. QED
            BY <1>3, <2>1, <3>5, <3>6, AddPlansMatch DEF PlanWCOJoin
    <2>2. CASE PlanINLJoin(w) \/ PlanInnerHashJoin(w)
        <3>1. stage = "inner"
            BY <2>2 DEF PlanINLJoin, PlanInnerHashJoin, InnerJoinStep
        <3>2. w.right \in SUBSET Elems /\ w.nbr \in SUBSET Elems /\ w.right \cap w.nbr = {}
            BY <1>3, <3>1 DEF CoverInv, AssertInv, InnerShape, WorkItem
        <3>3. CASE PlanINLJoin(w)
            <4>1. \A p \in INLPlans(w.right, w.nbr, ConnectedNodePos(w.right, w.nbr)) :
                     MatchesSubgraph(p, w.right \cup w.nbr)
                BY <1>3, <3>2, INLMatch
            <4>2. QED
                BY <1>3, <3>2, <3>3, <4>1, AddPlansMatch DEF PlanINLJoin
        <3>4. CASE PlanInnerHashJoin(w)
            <4>1. \A p \in HashJoinPlans(w.right, w.nbr, leftLevel # level - leftLevel) :
                     MatchesSubgraph(p, w.right \cup w.nbr)
                BY <1>3, <3>2, HashJoinMatch
            <4>2. QED
                BY <1>3, <3>2, <3>4, <4>1, AddPlansMatch DEF PlanInnerHashJoin
        <3>5. QED
            BY <2>2, <3>3, <3>4
    <2>3. CASE AbortWCOJoin(w) \/ SkipUnplannedNbr(w) \/ SkipImplicitJoin(w)
        BY <1>3, <2>3 DEF AbortWCOJoin, SkipUnplannedNbr, SkipImplicitJoin, TableCover
    <2>4. QED
        BY <2>1, <2>2, <2>3
<1>5. \A p \in result' : MatchesSubgraph(p, FullyMatched)
    BY <1>2 DEF CoverInv, PlanCoverage
<1>6. WCOShape'
    BY <1>1 DEF CoverInv, WCOShape
<1>7. QED
    BY <1>2, <1>4, <1>5, <1>6, CoverPrime

LEMMA NextCoverInv == CoverInv /\ [Next]_vars => CoverInv'
<1> SUFFICES ASSUME CoverInv, [Next]_vars PROVE CoverInv'
    OBVIOUS
<1>1. AssertInv'
    BY NextAssertInv DEF CoverInv
<1> SUFFICES WCOShape' /\ PlanCoverage'
    BY <1>1 DEF CoverInv
<1>2. CASE PlanBaseTableScans
    BY <1>2, PlanBaseTableScansCoverInv
<1>3. CASE PlanLevel
    BY <1>3, PlanLevelCoverInv
<1>4. CASE \E w \in todo : \/ PlanWCOJoin(w) \/ AbortWCOJoin(w)
                           \/ SkipUnplannedNbr(w) \/ SkipImplicitJoin(w)
                           \/ PlanINLJoin(w) \/ PlanInnerHashJoin(w)
    BY <1>4, VisitCoverInv
<1>5. CASE FinishEnumeration
    BY <1>5, FinishEnumerationCoverInv
<1>6. CASE UNCHANGED vars
    BY <1>6 DEF vars, CoverInv, WCOShape, PlanCoverage, MatchesSubgraph, ReadsNodeProperties
<1>7. QED
    BY <1>2, <1>3, <1>4, <1>5, <1>6 DEF Next

(***************************************************************************)
(* PlanCoverage (spec 8.2): for every query graph, subquery type,          *)
(* estimator and exact-planning bound, every plan that planBaseTableScans, *)
(* planWCOJoin, tryPlanINLJoin and planInnerHashJoin file under a          *)
(* SubqueryGraph, and every plan enumerateQueryGraph returns, extends      *)
(* exactly its rels once, scans exactly its nodes not supplied by the      *)
(* outer query once with properties, and has its selected nodes, and no   *)
(* node outside the nodes it touches, in scope.                            *)
(***************************************************************************)
THEOREM Coverage == Spec => []PlanCoverage
<1>1. Spec => []CoverInv
    BY InitCoverInv, NextCoverInv, PTL DEF Spec
<1>2. CoverInv => PlanCoverage
    BY DEF CoverInv
<1>3. QED
    BY <1>1, <1>2, PTL


-----------------------------------------------------------------------------
(* Placement of the ExpressionsScan *)

(* A SubqueryGraph that holds one correlated node holds them all. *)
CorrClosed(S) == (subqueryType = "CORRELATED" /\ S \cap corrNodes # {}) => corrNodes \subseteq S

(* A plan of S has the ExpressionsScans that S calls for. *)
PlacedIn(p, S) == p.exprScans = ExprScanCount(S)

(* CORRELATED mode comes with at least one correlated node. *)
CorrNonEmpty == subqueryType = "CORRELATED" => corrNodes # {}

(* The context the lemmas below share: the mode is fixed and the correlated nodes are query nodes. *)
CorrContext == corrNodes \in SUBSET Nodes /\ CorrNonEmpty

(* A single rel or a single node outside the correlated nodes holds none of them. *)
LEMMA SingletonNoCorr ==
    ASSUME CorrContext, NEW x \in Elems, x \notin corrNodes
    PROVE  CorrClosed({x}) /\ ExprScanCount({x}) = 0
BY DEF CorrContext, CorrNonEmpty, CorrClosed, ExprScanCount

(***************************************************************************)
(* A hash join of disjoint closed SubqueryGraphs: at most one side holds   *)
(* the correlated nodes, so the saturated sum of their ExpressionsScans is *)
(* the count of the union.                                                 *)
(***************************************************************************)
LEMMA PlacedHashJoin ==
    ASSUME CorrContext, NEW S, NEW T, S \cap T = {}, CorrClosed(S), CorrClosed(T),
           NEW p, NEW q, PlacedIn(p, S), PlacedIn(q, T), NEW newSubgraph,
           newSubgraph = S \cup T
    PROVE  /\ CorrClosed(newSubgraph)
           /\ PlacedIn(AppendHashJoin(p, q, newSubgraph), newSubgraph)
<1>1. CASE subqueryType = "CORRELATED"
    <2>1. corrNodes # {}
        BY <1>1 DEF CorrContext, CorrNonEmpty
    <2>2. CASE corrNodes \subseteq S
        <3>1. ~(corrNodes \subseteq T) /\ corrNodes \subseteq newSubgraph
            BY <2>1, <2>2
        <3>2. QED
            BY <1>1, <2>2, <3>1 DEF CorrClosed, PlacedIn, ExprScanCount, AppendHashJoin, SatAdd
    <2>3. CASE corrNodes \subseteq T
        <3>1. ~(corrNodes \subseteq S) /\ corrNodes \subseteq newSubgraph
            BY <2>1, <2>3
        <3>2. QED
            BY <1>1, <2>3, <3>1 DEF CorrClosed, PlacedIn, ExprScanCount, AppendHashJoin, SatAdd
    <2>4. CASE ~(corrNodes \subseteq S) /\ ~(corrNodes \subseteq T)
        <3>1. S \cap corrNodes = {} /\ T \cap corrNodes = {}
            BY <1>1, <2>4 DEF CorrClosed
        <3>2. newSubgraph \cap corrNodes = {} /\ ~(corrNodes \subseteq newSubgraph)
            BY <2>1, <3>1
        <3>3. QED
            BY <1>1, <2>4, <3>2 DEF CorrClosed, PlacedIn, ExprScanCount, AppendHashJoin, SatAdd
    <2>5. QED
        BY <2>2, <2>3, <2>4
<1>2. CASE subqueryType # "CORRELATED"
    BY <1>2 DEF CorrClosed, PlacedIn, ExprScanCount, AppendHashJoin, SatAdd
<1>3. QED
    BY <1>1, <1>2

(* An INL extend by a rel neither adds an ExpressionsScan nor selects a node. *)
LEMMA PlacedExtend ==
    ASSUME CorrContext, NEW M, NEW r \in Rels, NEW nbr, NEW p,
           CorrClosed(M), PlacedIn(p, M)
    PROVE  /\ CorrClosed(M \cup {r})
           /\ PlacedIn(AppendExtend(p, r, nbr, M \cup {r}), M \cup {r})
<1>1. r \notin corrNodes
    BY GraphAssumption DEF CorrContext
<1>2. (M \cup {r}) \cap corrNodes = M \cap corrNodes
      /\ (corrNodes \subseteq M \cup {r} <=> corrNodes \subseteq M)
    BY <1>1
<1>3. QED
    BY <1>2 DEF CorrClosed, PlacedIn, ExprScanCount, AppendExtend

(***************************************************************************)
(* An intersection adds the rel plans' ExpressionsScans, of which there    *)
(* are none, and selects no node.                                          *)
(***************************************************************************)
LEMMA PlacedIntersect ==
    ASSUME CorrContext, NEW S, NEW rels \in SUBSET Rels, NEW builds, NEW n, NEW p,
           CorrClosed(S), PlacedIn(p, S), \A r \in rels : PlacedIn(builds[r], {r})
    PROVE  /\ CorrClosed(S \cup rels)
           /\ PlacedIn(AppendIntersect(p, rels, builds, n, S \cup rels), S \cup rels)
<1>1. rels \cap corrNodes = {}
    BY GraphAssumption DEF CorrContext
<1>2. \A r \in rels : builds[r].exprScans = 0
    BY <1>1, SingletonNoCorr DEF PlacedIn, Elems
<1>3. SatCount(rels, [r \in rels |-> builds[r].exprScans]) = 0
    BY <1>2 DEF SatCount
<1>4. (S \cup rels) \cap corrNodes = S \cap corrNodes
      /\ (corrNodes \subseteq S \cup rels <=> corrNodes \subseteq S)
    BY <1>1
<1>5. p.exprScans \in Mult
    BY DEF PlacedIn, ExprScanCount, Mult
<1>6. QED
    BY <1>3, <1>4, <1>5 DEF CorrClosed, PlacedIn, ExprScanCount, AppendIntersect, SatAdd, Mult


LEMMA PlacedFilters ==
    ASSUME NEW p, NEW S, NEW preds
    PROVE  PlacedIn(AppendFilters(p, preds), S) <=> PlacedIn(p, S)
BY DEF PlacedIn, AppendFilters

(* Every plan in the SubPlansTable sits under a closed SubqueryGraph and has its ExpressionsScans. *)
TablePlaced == \A S \in SUBSET Elems : \A p \in table[S] : CorrClosed(S) /\ PlacedIn(p, S)

(***************************************************************************)
(* planBaseTableScans: a correlated node has no scan in CORRELATED mode,   *)
(* so only the ExpressionsScan plan, filed under the correlated nodes,     *)
(* holds them.                                                             *)
(***************************************************************************)
LEMMA BaseTablePlaced ==
    ASSUME CorrContext, subqueryType \in SubqueryTypes,
           NEW S \in SUBSET Elems, NEW p \in BaseTable[S]
    PROVE  CorrClosed(S) /\ PlacedIn(p, S)
<1>1. CASE \E m \in Nodes : S = {m} /\ p \in NodeScanPlans(m)
    <2>1. PICK m \in Nodes : S = {m} /\ p \in NodeScanPlans(m)
        BY <1>1
    <2>2. p \in {PlanNodeScan(m), PlanNodeIDScan(m)}
          /\ (subqueryType = "CORRELATED" => m \notin corrNodes)
        BY <2>1 DEF NodeScanPlans, SubqueryTypes
    <2>3. p.exprScans = 0
        BY <2>2 DEF PlanNodeScan, PlanNodeIDScan, AppendFilters, ScanNodeTable
    <2>4. CASE subqueryType = "CORRELATED"
        BY <2>1, <2>2, <2>3, <2>4, SingletonNoCorr DEF PlacedIn, Elems
    <2>5. CASE subqueryType # "CORRELATED"
        BY <2>3, <2>5 DEF CorrClosed, PlacedIn, ExprScanCount
    <2>6. QED
        BY <2>4, <2>5
<1>2. CASE \E r \in Rels : S = {r} /\ p \in PlanRelScan(r)
    <2>1. PICK r \in Rels : S = {r} /\ p \in PlanRelScan(r)
        BY <1>2
    <2>2. PICK fwd \in BOOLEAN : p = RelScanPlan(r, fwd)
        BY <2>1 DEF PlanRelScan, RelScanPlan
    <2>5. p.exprScans = 0
        BY <2>2 DEF RelScanPlan, AppendFilters, AppendExtend, ScanNodeTable
    <2>3. r \notin corrNodes /\ r \in Elems
        BY GraphAssumption DEF CorrContext, Elems
    <2>4. QED
        BY <2>1, <2>5, <2>3, SingletonNoCorr DEF PlacedIn
<1>3. CASE subqueryType = "CORRELATED" /\ S = corrNodes /\ p = PlanCorrelatedExpressionsScan
    <2>1. p.exprScans = 1
        BY <1>3 DEF PlanCorrelatedExpressionsScan, AppendDistinct, AppendFilters, ExpressionsScan
    <2>2. QED
        BY <1>3, <2>1 DEF CorrClosed, PlacedIn, ExprScanCount
<1>4. QED
    BY <1>1, <1>2, <1>3 DEF BaseTable

LEMMA HashJoinPlaced ==
    ASSUME CorrContext, TablePlaced, NEW S \in SUBSET Elems, NEW T \in SUBSET Elems,
           S \cap T = {}, NEW flip, NEW p \in HashJoinPlans(S, T, flip)
    PROVE  CorrClosed(S \cup T) /\ PlacedIn(p, S \cup T)
<1> DEFINE preds == NewlyMatched({S, T}, S \cup T)
<1>1. PICK pr \in table[S] \X table[T] :
             \/ p = AppendFilters(AppendHashJoin(pr[1], pr[2], S \cup T), preds)
             \/ p = AppendFilters(AppendHashJoin(pr[2], pr[1], S \cup T), preds)
    BY DEF HashJoinPlans
<1>2. CorrClosed(S) /\ PlacedIn(pr[1], S) /\ CorrClosed(T) /\ PlacedIn(pr[2], T)
    BY DEF TablePlaced
<1>3. CorrClosed(S \cup T) /\ PlacedIn(AppendHashJoin(pr[1], pr[2], S \cup T), S \cup T)
    BY <1>2, PlacedHashJoin
<1>4. PlacedIn(AppendHashJoin(pr[2], pr[1], S \cup T), S \cup T)
    <2>1. T \cap S = {} /\ S \cup T = T \cup S
        OBVIOUS
    <2>2. QED
        BY <1>2, <2>1, PlacedHashJoin
<1>5. QED
    BY <1>1, <1>3, <1>4, PlacedFilters

LEMMA INLPlaced ==
    ASSUME CorrContext, TablePlaced, NEW S \in SUBSET Elems, NEW T \in SUBSET Elems,
           NEW joinNodes, NEW p \in INLPlans(S, T, joinNodes)
    PROVE  CorrClosed(S \cup T) /\ PlacedIn(p, S \cup T)
<1> DEFINE multi == IF IsSingleRel(S) THEN T ELSE S
           single == IF IsSingleRel(S) THEN S ELSE T
           rel == CHOOSE x \in single : TRUE
           boundNode == CHOOSE j \in joinNodes : TRUE
<1>1. ~(Cardinality(joinNodes) > 1 \/ (~IsSingleRel(S) /\ ~IsSingleRel(T)))
    BY DEF INLPlans
<1>2. IsSingleRel(single) /\ single \in SUBSET Elems /\ multi \in SUBSET Elems
    BY <1>1
<1>3. single = {rel} /\ rel \in Rels
    BY <1>2, SingleRelIsSingleton, SingleRelNonEmpty
<1>4. multi \cup {rel} = S \cup T
    BY <1>3
<1>5. PICK prevPlan \in table[multi] :
             p = AppendFilters(AppendExtend(prevPlan, rel, OtherEnd(rel, boundNode),
                                            multi \cup {rel}),
                               NewlyMatched({multi}, multi \cup {rel}))
    BY <1>1 DEF INLPlans
<1>6. CorrClosed(multi) /\ PlacedIn(prevPlan, multi)
    BY <1>2 DEF TablePlaced
<1>7. CorrClosed(multi \cup {rel})
      /\ PlacedIn(AppendExtend(prevPlan, rel, OtherEnd(rel, boundNode), multi \cup {rel}),
                  multi \cup {rel})
    BY <1>3, <1>6, PlacedExtend
<1>8. QED
    BY <1>4, <1>5, <1>7, PlacedFilters

LEMMA WCOPlaced ==
    ASSUME CorrContext, TablePlaced, NEW S \in SUBSET Elems, NEW n \in Nodes,
           \A r \in IntersectRels(S, n) : WCOBuildCandidates(r, n) # {},
           NEW p \in WCOPlans(S, IntersectRels(S, n), n)
    PROVE  CorrClosed(S \cup IntersectRels(S, n)) /\ PlacedIn(p, S \cup IntersectRels(S, n))
<1> DEFINE rels == IntersectRels(S, n)
           builds == [r \in rels |-> CHOOSE b \in WCOBuildCandidates(r, n) : TRUE]
<1>1. rels \in SUBSET Rels
    BY DEF IntersectRels, RelNbrs
<1>2. \A r \in rels : PlacedIn(builds[r], {r})
    <2> SUFFICES ASSUME NEW r \in rels PROVE PlacedIn(builds[r], {r})
        OBVIOUS
    <2>1. {r} \in SUBSET Elems
        BY <1>1 DEF Elems
    <2>2. builds[r] \in table[{r}]
        BY DEF WCOBuildCandidates
    <2>3. QED
        BY <2>1, <2>2 DEF TablePlaced
<1>3. PICK leftPlan \in table[S] :
             p = AppendFilters(AppendIntersect(leftPlan, rels, builds, n, S \cup rels),
                               NewlyMatched(WCOPrevSubgraphs(S, rels), S \cup rels))
    BY DEF WCOPlans
<1>4. CorrClosed(S) /\ PlacedIn(leftPlan, S)
    BY DEF TablePlaced
<1>5. QED
    BY <1>1, <1>2, <1>3, <1>4, PlacedIntersect, PlacedFilters


(***************************************************************************)
(* The strengthening for ExpressionsScanPlaced: the invariant of the       *)
(* assertions, for the disjoint sides of an inner join, and a correlated   *)
(* node in CORRELATED mode, without which two disjoint sides would both    *)
(* hold the (empty) set of correlated nodes and a hash join of their plans *)
(* would count two ExpressionsScans.                                       *)
(***************************************************************************)
PlaceInv == AssertInv /\ CorrNonEmpty /\ ExpressionsScanPlaced

LEMMA PlacedEquiv ==
    ExpressionsScanPlaced <=>
        TablePlaced /\ \A p \in result : PlacedIn(p, FullyMatched)
BY DEF ExpressionsScanPlaced, TablePlaced, CorrClosed, PlacedIn

(* The mode and the correlated nodes never change, so neither does what a plan must hold. *)
LEMMA PlacedPrime ==
    ASSUME UNCHANGED <<subqueryType, corrNodes>>,
           \A S \in SUBSET Elems : \A p \in table'[S] : CorrClosed(S) /\ PlacedIn(p, S),
           \A p \in result' : PlacedIn(p, FullyMatched)
    PROVE  ExpressionsScanPlaced'
BY DEF ExpressionsScanPlaced, CorrClosed, PlacedIn, ExprScanCount

LEMMA AddPlansPlaced ==
    ASSUME table \in [SUBSET Elems -> SUBSET Plan], TablePlaced,
           NEW T \in SUBSET Elems, NEW plans,
           \A p \in plans : CorrClosed(T) /\ PlacedIn(p, T), AddPlans(T, plans)
    PROVE  \A S \in SUBSET Elems : \A p \in table'[S] : CorrClosed(S) /\ PlacedIn(p, S)
BY DEF AddPlans, TablePlaced

LEMMA PlaceContext ==
    ASSUME PlaceInv
    PROVE  /\ CorrContext /\ subqueryType \in SubqueryTypes
           /\ table \in [SUBSET Elems -> SUBSET Plan]
           /\ TablePlaced /\ \A p \in result : PlacedIn(p, FullyMatched)
BY PlacedEquiv DEF PlaceInv, AssertInv, LevelInv, TypeInv, TypeOK, CorrContext

LEMMA InitPlaceInv == Init => PlaceInv
<1> SUFFICES ASSUME Init PROVE PlaceInv
    OBVIOUS
<1>1. AssertInv
    BY InitAssertInv
<1>2. CorrNonEmpty
    <2>1. CASE subqueryType = "CORRELATED"
        <3>1. corrNodes \in (SUBSET Nodes) \ {{}}
            BY <2>1 DEF Init
        <3>2. QED
            BY <3>1, <2>1, Zenon DEF CorrNonEmpty
    <2>2. QED
        BY <2>1 DEF CorrNonEmpty
<1>3. ExpressionsScanPlaced
    BY DEF Init, ExpressionsScanPlaced
<1>4. QED
    BY <1>1, <1>2, <1>3 DEF PlaceInv

LEMMA PlacedSteps ==
    ASSUME PlaceInv,
           \/ PlanBaseTableScans \/ PlanLevel \/ FinishEnumeration
           \/ \E w \in todo : \/ PlanWCOJoin(w) \/ AbortWCOJoin(w)
                              \/ SkipUnplannedNbr(w) \/ SkipImplicitJoin(w)
                              \/ PlanINLJoin(w) \/ PlanInnerHashJoin(w)
    PROVE  ExpressionsScanPlaced'
<1>1. CorrContext /\ subqueryType \in SubqueryTypes /\ table \in [SUBSET Elems -> SUBSET Plan]
      /\ TablePlaced /\ \A p \in result : PlacedIn(p, FullyMatched)
    BY PlaceContext
<1>2. CASE PlanBaseTableScans
    BY <1>1, <1>2, BaseTablePlaced, PlacedPrime DEF PlanBaseTableScans
<1>3. CASE PlanLevel
    BY <1>1, <1>3, PlacedPrime DEF PlanLevel, TablePlaced
<1>4. CASE FinishEnumeration
    <2>1. FullyMatched \in SUBSET Elems
        BY DEF FullyMatched
    <2>2. QED
        BY <1>1, <1>4, <2>1, PlacedPrime DEF FinishEnumeration, TablePlaced
<1>5. ASSUME NEW w \in todo,
             \/ PlanWCOJoin(w) \/ AbortWCOJoin(w)
             \/ SkipUnplannedNbr(w) \/ SkipImplicitJoin(w)
             \/ PlanINLJoin(w) \/ PlanInnerHashJoin(w)
      PROVE  ExpressionsScanPlaced'
    <2>1. UNCHANGED <<subqueryType, corrNodes, result>>
        BY <1>5 DEF PlanWCOJoin, AbortWCOJoin, WCOJoinStep, SkipUnplannedNbr, SkipImplicitJoin,
                    PlanINLJoin, PlanInnerHashJoin, InnerJoinStep
    <2>2. w \in WorkItem
        BY DEF PlaceInv, AssertInv, LevelInv, TypeInv, TypeOK
    <2> SUFFICES \A S \in SUBSET Elems : \A p \in table'[S] : CorrClosed(S) /\ PlacedIn(p, S)
        BY <1>1, <2>1, PlacedPrime
    <2>3. CASE PlanWCOJoin(w)
        <3>1. stage = "wco"
            BY <2>3 DEF PlanWCOJoin, WCOJoinStep
        <3>2. w.node \in Nodes /\ w.right \in SUBSET Elems
            BY <2>2, <3>1 DEF PlaceInv, AssertInv, LevelInv, TypeInv, WCONodesInv, WorkItem
        <3>3. Target(w) = w.right \cup IntersectRels(w.right, w.node)
            BY <3>2, GraphAssumption DEF Target
        <3>4. Target(w) \in SUBSET Elems
            BY <3>2, <3>3 DEF IntersectRels, RelNbrs, Elems
        <3>5. \A p \in WCOPlans(w.right, IntersectRels(w.right, w.node), w.node) :
                 CorrClosed(Target(w)) /\ PlacedIn(p, Target(w))
            BY <1>1, <2>3, <3>2, <3>3, WCOPlaced DEF PlanWCOJoin
        <3>6. QED
            BY <1>1, <2>3, <3>4, <3>5, AddPlansPlaced DEF PlanWCOJoin
    <2>4. CASE PlanINLJoin(w) \/ PlanInnerHashJoin(w)
        <3>1. stage = "inner"
            BY <2>4 DEF PlanINLJoin, PlanInnerHashJoin, InnerJoinStep
        <3>2. w.right \in SUBSET Elems /\ w.nbr \in SUBSET Elems /\ w.right \cap w.nbr = {}
            BY <2>2, <3>1 DEF PlaceInv, AssertInv, InnerShape, WorkItem
        <3>3. CASE PlanINLJoin(w)
            <4>1. \A p \in INLPlans(w.right, w.nbr, ConnectedNodePos(w.right, w.nbr)) :
                     CorrClosed(w.right \cup w.nbr) /\ PlacedIn(p, w.right \cup w.nbr)
                BY <1>1, <3>2, INLPlaced
            <4>2. QED
                BY <1>1, <3>2, <3>3, <4>1, AddPlansPlaced DEF PlanINLJoin
        <3>4. CASE PlanInnerHashJoin(w)
            <4>1. \A p \in HashJoinPlans(w.right, w.nbr, leftLevel # level - leftLevel) :
                     CorrClosed(w.right \cup w.nbr) /\ PlacedIn(p, w.right \cup w.nbr)
                BY <1>1, <3>2, HashJoinPlaced
            <4>2. QED
                BY <1>1, <3>2, <3>4, <4>1, AddPlansPlaced DEF PlanInnerHashJoin
        <3>5. QED
            BY <2>4, <3>3, <3>4
    <2>5. CASE AbortWCOJoin(w) \/ SkipUnplannedNbr(w) \/ SkipImplicitJoin(w)
        BY <1>1, <2>5 DEF AbortWCOJoin, SkipUnplannedNbr, SkipImplicitJoin, TablePlaced
    <2>6. QED
        BY <1>5, <2>3, <2>4, <2>5
<1>6. QED
    BY <1>2, <1>3, <1>4, <1>5

LEMMA NextPlaceInv == PlaceInv /\ [Next]_vars => PlaceInv'
<1> SUFFICES ASSUME PlaceInv, [Next]_vars PROVE PlaceInv'
    OBVIOUS
<1>1. AssertInv'
    BY NextAssertInv DEF PlaceInv
<1>2. UNCHANGED <<subqueryType, corrNodes>>
    <2>1. CASE PlanBaseTableScans \/ PlanLevel \/ FinishEnumeration \/ UNCHANGED vars
        BY <2>1 DEF vars, PlanBaseTableScans, PlanLevel, FinishEnumeration
    <2>2. CASE \E w \in todo : \/ PlanWCOJoin(w) \/ AbortWCOJoin(w)
                               \/ SkipUnplannedNbr(w) \/ SkipImplicitJoin(w)
                               \/ PlanINLJoin(w) \/ PlanInnerHashJoin(w)
        BY <2>2 DEF PlanWCOJoin, AbortWCOJoin, WCOJoinStep, SkipUnplannedNbr,
                    SkipImplicitJoin, PlanINLJoin, PlanInnerHashJoin, InnerJoinStep
    <2>3. QED
        BY <2>1, <2>2 DEF Next
<1>3. CorrNonEmpty'
    BY <1>2 DEF PlaceInv, CorrNonEmpty
<1>4. ExpressionsScanPlaced'
    <2>1. CASE UNCHANGED vars
        BY <2>1 DEF vars, PlaceInv, ExpressionsScanPlaced, ExprScanCount
    <2>2. QED
        BY <2>1, PlacedSteps DEF Next
<1>5. QED
    BY <1>1, <1>3, <1>4 DEF PlaceInv

(***************************************************************************)
(* ExpressionsScanPlaced (spec 8.8): for every query graph, estimator and  *)
(* bound, in CORRELATED mode no SubqueryGraph holding only some of the     *)
(* correlated nodes gets a plan, and every plan that planBaseTableScans,   *)
(* planWCOJoin, tryPlanINLJoin and planInnerHashJoin build for one holding *)
(* them all, and every plan returned, contains exactly one ExpressionsScan;*)
(* in the other modes no plan contains one.                                *)
(***************************************************************************)
THEOREM ExpressionsScanPlacement == Spec => []ExpressionsScanPlaced
<1>1. Spec => []PlaceInv
    BY InitPlaceInv, NextPlaceInv, PTL DEF Spec
<1>2. PlaceInv => ExpressionsScanPlaced
    BY DEF PlaceInv
<1>3. QED
    BY <1>1, <1>2, PTL

=============================================================================
