--------------------- MODULE JoinOrderPredicateProofs -----------------------
(***************************************************************************)
(* Predicate placement of the join-order enumerator (spec 8.3): every plan *)
(* filed under a SubqueryGraph S, and every plan returned, filters each    *)
(* predicate whose variables S holds exactly once and no other predicate. *)
(*                                                                         *)
(* The property is false in general, and the runs MCWCODoubleFilter and    *)
(* MCNodeIDScanFilter show two of the three ways it fails.  The theorem    *)
(* proves that these ways are the only ones:                               *)
(*   - a predicate without variables is eligible everywhere and newly      *)
(*     matched nowhere, so it is never filtered;                           *)
(*   - a predicate over one rel alone is filtered by that rel's scan, and  *)
(*     again after an Intersect that uses the scan as a build side        *)
(*     (planWCOJoin pushes the probe subgraph as prevSubgraph);            *)
(*   - in INTERNAL_ID_CORRELATED mode a predicate over one correlated node *)
(*     alone is never filtered, since planNodeIDScan appends no filter.    *)
(* The first two are hypotheses on the query's predicates; the third, which*)
(* depends on the mode and the correlated nodes a call starts with, is the *)
(* premise of the invariant.                                               *)
(***************************************************************************)
EXTENDS JoinOrderCoverageProofs

(* Every predicate has a variable and is not over a single rel alone. *)
PlaceablePredicates ==
    \A q \in Preds : PredVars[q] # {} /\ \A r \in Rels : PredVars[q] # {r}

(* The planNodeIDScan case: a correlated node's own predicate would be dropped. *)
IDScanDropsFilter ==
    /\ subqueryType = "INTERNAL_ID_CORRELATED"
    /\ \E q \in Preds, n \in corrNodes : PredVars[q] = {n}

(* Predicate placement wherever planNodeIDScan does not drop a predicate. *)
PlacedUnlessIDScanned == ~IDScanDropsFilter => PredicatesPlacedOnce

(* The plans of S filter exactly the predicates S makes eligible. *)
FiltersOf(p, S) == p.filters = Indicator(Preds, Eligible(S))

(* Every plan in the table filters what its SubqueryGraph makes eligible. *)
TableFilters == \A S \in SUBSET Elems : \A p \in table[S] : FiltersOf(p, S)

(* The inductive invariant. *)
FilterInv == AssertInv /\ PlacedUnlessIDScanned


-----------------------------------------------------------------------------
(* Eligible predicates and getNewlyMatchedExprs *)

LEMMA EligibleMono ==
    ASSUME NEW S, NEW T, S \subseteq T
    PROVE  Eligible(S) \subseteq Eligible(T)
BY DEF Eligible, ContainAllVariables

(* Two disjoint SubqueryGraphs share no eligible predicate, since each predicate has a variable. *)
LEMMA EligibleDisjoint ==
    ASSUME PlaceablePredicates, NEW S, NEW T, S \cap T = {}
    PROVE  Eligible(S) \cap Eligible(T) = {}
BY DEF PlaceablePredicates, Eligible, ContainAllVariables

(* No predicate is eligible for the empty SubqueryGraph or for a single rel. *)
LEMMA EligibleEmpty ==
    ASSUME PlaceablePredicates
    PROVE  /\ Eligible({}) = {}
           /\ \A r \in Rels : Eligible({r}) = {}
BY DEF PlaceablePredicates, Eligible, ContainAllVariables

(* getNewlyMatchedExprs with one and with two previous SubqueryGraphs. *)
LEMMA NewlyMatchedOne ==
    ASSUME NEW M, NEW N
    PROVE  NewlyMatched({M}, N) = Eligible(N) \ Eligible(M)
BY DEF NewlyMatched, Eligible

LEMMA NewlyMatchedTwo ==
    ASSUME NEW S, NEW T, NEW N
    PROVE  NewlyMatched({S, T}, N) = Eligible(N) \ (Eligible(S) \cup Eligible(T))
BY DEF NewlyMatched, Eligible

(***************************************************************************)
(* appendFilters of the predicates newly matched on top of a plan that     *)
(* filters the eligible predicates of M filters those of N once each.      *)
(***************************************************************************)
LEMMA FiltersNewlyMatched ==
    ASSUME NEW p, NEW M, NEW N, Eligible(M) \subseteq Eligible(N),
           p.filters = Indicator(Preds, Eligible(M))
    PROVE  FiltersOf(AppendFilters(p, Eligible(N) \ Eligible(M)), N)
<1>1. AppendFilters(p, Eligible(N) \ Eligible(M)).filters
        = BagAdd(Indicator(Preds, Eligible(M)), Indicator(Preds, Eligible(N) \ Eligible(M)))
    BY DEF AppendFilters
<1>2. Eligible(M) \cap (Eligible(N) \ Eligible(M)) = {}
      /\ Eligible(M) \cup (Eligible(N) \ Eligible(M)) = Eligible(N)
    OBVIOUS
<1>3. QED
    BY <1>1, <1>2, IndicatorUnion DEF FiltersOf


-----------------------------------------------------------------------------
(* The plans of planBaseTableScans filter their eligible predicates *)

(* A scan filters nothing, which is what the empty SubqueryGraph makes eligible. *)
LEMMA ZeroFilters ==
    ASSUME PlaceablePredicates
    PROVE  Zero(Preds) = Indicator(Preds, Eligible({}))
BY EligibleEmpty DEF Zero, Indicator

(* A base plan: a scan filtered by getNewlyMatchedExprs({{}}, S). *)
LEMMA BaseFilters ==
    ASSUME PlaceablePredicates, NEW p, NEW S, p.filters = Zero(Preds)
    PROVE  FiltersOf(AppendFilters(p, NewlyMatched({{}}, S)), S)
<1>1. NewlyMatched({{}}, S) = Eligible(S) \ Eligible({})
    BY NewlyMatchedOne
<1>2. Eligible({}) \subseteq Eligible(S)
    BY EligibleMono
<1>3. QED
    BY <1>1, <1>2, ZeroFilters, FiltersNewlyMatched

LEMMA NodeScanFilters ==
    ASSUME PlaceablePredicates, NEW m \in Nodes
    PROVE  FiltersOf(PlanNodeScan(m), {m})
BY BaseFilters DEF PlanNodeScan, ScanNodeTable

(* planNodeIDScan filters nothing, and nothing is eligible for a correlated node alone. *)
LEMMA NodeIDScanFilters ==
    ASSUME PlaceablePredicates, ~IDScanDropsFilter,
           subqueryType = "INTERNAL_ID_CORRELATED", NEW m \in corrNodes
    PROVE  FiltersOf(PlanNodeIDScan(m), {m})
<1>1. Eligible({m}) = {}
    BY DEF IDScanDropsFilter, PlaceablePredicates, Eligible, ContainAllVariables
<1>2. QED
    BY <1>1 DEF FiltersOf, PlanNodeIDScan, ScanNodeTable, Zero, Indicator

LEMMA RelScanFilters ==
    ASSUME PlaceablePredicates, NEW r \in Rels, NEW fwd \in BOOLEAN
    PROVE  FiltersOf(RelScanPlan(r, fwd), {r})
BY BaseFilters DEF RelScanPlan, AppendExtend, ScanNodeTable

LEMMA ExpressionsScanFilters ==
    ASSUME PlaceablePredicates
    PROVE  FiltersOf(PlanCorrelatedExpressionsScan, corrNodes)
<1>1. FiltersOf(AppendFilters(ExpressionsScan(corrNodes), NewlyMatched({{}}, corrNodes)), corrNodes)
    BY BaseFilters DEF ExpressionsScan
<1>2. QED
    BY <1>1 DEF PlanCorrelatedExpressionsScan, AppendDistinct, FiltersOf

LEMMA BaseTableFilters ==
    ASSUME PlaceablePredicates, ~IDScanDropsFilter,
           subqueryType \in SubqueryTypes, corrNodes \in SUBSET Nodes,
           NEW S \in SUBSET Elems, NEW p \in BaseTable[S]
    PROVE  FiltersOf(p, S)
<1>1. CASE \E m \in Nodes : S = {m} /\ p \in NodeScanPlans(m)
    <2>1. PICK m \in Nodes : S = {m} /\ p \in NodeScanPlans(m)
        BY <1>1
    <2>2. CASE p = PlanNodeScan(m)
        BY <2>1, <2>2, NodeScanFilters
    <2>3. CASE p = PlanNodeIDScan(m) /\ subqueryType = "INTERNAL_ID_CORRELATED" /\ m \in corrNodes
        BY <2>1, <2>3, NodeIDScanFilters
    <2>4. QED
        BY <2>1, <2>2, <2>3 DEF NodeScanPlans, SubqueryTypes
<1>2. CASE \E r \in Rels : S = {r} /\ p \in PlanRelScan(r)
    <2>1. PICK r \in Rels : S = {r} /\ p \in PlanRelScan(r)
        BY <1>2
    <2>2. PICK fwd \in BOOLEAN : p = RelScanPlan(r, fwd)
        BY <2>1 DEF PlanRelScan, RelScanPlan
    <2>3. QED
        BY <2>1, <2>2, RelScanFilters
<1>3. CASE subqueryType = "CORRELATED" /\ S = corrNodes /\ p = PlanCorrelatedExpressionsScan
    BY <1>3, ExpressionsScanFilters
<1>4. QED
    BY <1>1, <1>2, <1>3 DEF BaseTable


-----------------------------------------------------------------------------
(* The plans of the three join methods filter their target's predicates *)

(* appendFilters of B \ A on a plan filtering A, with A \subseteq B, filters B once each. *)
LEMMA FiltersUpTo ==
    ASSUME NEW p, NEW A, NEW B, A \subseteq B, p.filters = Indicator(Preds, A),
           NEW C, C = B \ A
    PROVE  AppendFilters(p, C).filters = Indicator(Preds, B)
<1>1. A \cap C = {} /\ A \cup C = B
    OBVIOUS
<1>2. BagAdd(Indicator(Preds, A), Indicator(Preds, C)) = Indicator(Preds, B)
    BY <1>1, IndicatorUnion
<1>3. QED
    BY <1>2 DEF AppendFilters

(* The hash join of a plan of S and a plan of a disjoint T, either side probing. *)
LEMMA HashJoinFilterBag ==
    ASSUME PlaceablePredicates, NEW S, NEW T, S \cap T = {}, NEW l, NEW r, NEW N,
           FiltersOf(l, S), FiltersOf(r, T)
    PROVE  /\ AppendHashJoin(l, r, N).filters = Indicator(Preds, Eligible(S) \cup Eligible(T))
           /\ AppendHashJoin(r, l, N).filters = Indicator(Preds, Eligible(S) \cup Eligible(T))
<1>1. Eligible(S) \cap Eligible(T) = {} /\ Eligible(T) \cap Eligible(S) = {}
    BY EligibleDisjoint
<1>2. Eligible(T) \cup Eligible(S) = Eligible(S) \cup Eligible(T)
    OBVIOUS
<1>3. QED
    BY <1>1, <1>2, IndicatorUnion DEF AppendHashJoin, FiltersOf

(* appendFilters of what S \cup T newly matches against S and T, on top of a join of their plans. *)
LEMMA HashJoinAddFilters ==
    ASSUME NEW S, NEW T, NEW pp,
           pp.filters = Indicator(Preds, Eligible(S) \cup Eligible(T))
    PROVE  AppendFilters(pp, NewlyMatched({S, T}, S \cup T)).filters
             = Indicator(Preds, Eligible(S \cup T))
<1>1. PICK U, E : U = Eligible(S) \cup Eligible(T) /\ E = Eligible(S \cup T)
    OBVIOUS
<1>2. NewlyMatched({S, T}, S \cup T) = E \ U
    BY <1>1, NewlyMatchedTwo
<1>3. U \subseteq E /\ pp.filters = Indicator(Preds, U)
    BY <1>1, EligibleMono
<1>4. BagAdd(Indicator(Preds, U), Indicator(Preds, E \ U)) = Indicator(Preds, E)
    BY <1>3 DEF BagAdd, Indicator, SatAdd
<1>5. QED
    BY <1>1, <1>2, <1>3, <1>4 DEF AppendFilters

(* planInnerHashJoin of two disjoint SubqueryGraphs, in both directions. *)
LEMMA HashJoinFilters ==
    ASSUME PlaceablePredicates, TableFilters,
           NEW S \in SUBSET Elems, NEW T \in SUBSET Elems, S \cap T = {},
           NEW flip, NEW p \in HashJoinPlans(S, T, flip)
    PROVE  FiltersOf(p, S \cup T)
<1> DEFINE preds == NewlyMatched({S, T}, S \cup T)
           A == Eligible(S) \cup Eligible(T)
<1>1. PICK pr \in table[S] \X table[T] :
             \/ p = AppendFilters(AppendHashJoin(pr[1], pr[2], S \cup T), preds)
             \/ p = AppendFilters(AppendHashJoin(pr[2], pr[1], S \cup T), preds)
    BY DEF HashJoinPlans
<1>2. FiltersOf(pr[1], S) /\ FiltersOf(pr[2], T)
    BY DEF TableFilters
<1>3. /\ AppendHashJoin(pr[1], pr[2], S \cup T).filters = Indicator(Preds, A)
      /\ AppendHashJoin(pr[2], pr[1], S \cup T).filters = Indicator(Preds, A)
    BY <1>2, HashJoinFilterBag
<1>4. \A pp : pp.filters = Indicator(Preds, A)
          => AppendFilters(pp, preds).filters = Indicator(Preds, Eligible(S \cup T))
    BY HashJoinAddFilters
<1>5. /\ AppendFilters(AppendHashJoin(pr[1], pr[2], S \cup T), preds).filters
           = Indicator(Preds, Eligible(S \cup T))
      /\ AppendFilters(AppendHashJoin(pr[2], pr[1], S \cup T), preds).filters
           = Indicator(Preds, Eligible(S \cup T))
    BY <1>3, <1>4
<1>6. QED
    BY <1>1, <1>5 DEF FiltersOf

(* Extending a plan of M by one rel and filtering what that rel newly matches leaves
   the filters of M \cup {rel}. *)
LEMMA ExtendFilters ==
    ASSUME NEW M, NEW rel, NEW pp, NEW other,
           pp.filters = Indicator(Preds, Eligible(M))
    PROVE  AppendFilters(AppendExtend(pp, rel, other, M \cup {rel}),
                         NewlyMatched({M}, M \cup {rel})).filters
             = Indicator(Preds, Eligible(M \cup {rel}))
<1>1. NewlyMatched({M}, M \cup {rel}) = Eligible(M \cup {rel}) \ Eligible(M)
      /\ Eligible(M) \subseteq Eligible(M \cup {rel})
    BY NewlyMatchedOne, EligibleMono
<1>2. AppendExtend(pp, rel, other, M \cup {rel}).filters = Indicator(Preds, Eligible(M))
    BY DEF AppendExtend
<1>3. QED
    BY <1>1, <1>2 DEF AppendFilters, BagAdd, Indicator, SatAdd

(* tryPlanINLJoin: the other side extended by the single rel, with the predicates newly matched. *)
LEMMA INLFilters ==
    ASSUME TableFilters, NEW S \in SUBSET Elems, NEW T \in SUBSET Elems, S \cap T = {},
           NEW joinNodes, NEW p \in INLPlans(S, T, joinNodes)
    PROVE  FiltersOf(p, S \cup T)
<1> DEFINE multi == IF IsSingleRel(S) THEN T ELSE S
           single == IF IsSingleRel(S) THEN S ELSE T
           rel == CHOOSE x \in single : TRUE
           boundNode == CHOOSE j \in joinNodes : TRUE
<1>1. ~(Cardinality(joinNodes) > 1 \/ (~IsSingleRel(S) /\ ~IsSingleRel(T)))
    BY DEF INLPlans
<1>2. IsSingleRel(single) /\ single \in SUBSET Elems /\ multi \in SUBSET Elems
    BY <1>1
<1>3. single = {rel}
    BY <1>2, SingleRelIsSingleton
<1>4. multi \cup {rel} = S \cup T
    BY <1>3
<1>5. PICK prevPlan \in table[multi] :
             p = AppendFilters(AppendExtend(prevPlan, rel, OtherEnd(rel, boundNode),
                                            multi \cup {rel}),
                               NewlyMatched({multi}, multi \cup {rel}))
    BY <1>1 DEF INLPlans
<1>6. prevPlan.filters = Indicator(Preds, Eligible(multi))
    BY <1>2 DEF TableFilters, FiltersOf
<1>8. AppendFilters(AppendExtend(prevPlan, rel, OtherEnd(rel, boundNode), multi \cup {rel}),
                    NewlyMatched({multi}, multi \cup {rel})).filters
        = Indicator(Preds, Eligible(multi \cup {rel}))
    BY <1>6, ExtendFilters
<1>9. QED
    BY <1>4, <1>5, <1>8 DEF FiltersOf


(***************************************************************************)
(* planWCOJoin: the builds are plans of single rels, which filter nothing *)
(* under PlaceablePredicates, so the Intersect filters what the probe does *)
(* and appendFilters adds what S \cup rels newly matches against {S}.     *)
(***************************************************************************)
LEMMA WCOFilters ==
    ASSUME PlaceablePredicates, TableFilters, NEW S \in SUBSET Elems, NEW n \in Nodes,
           \A r \in IntersectRels(S, n) : WCOBuildCandidates(r, n) # {},
           NEW p \in WCOPlans(S, IntersectRels(S, n), n)
    PROVE  FiltersOf(p, S \cup IntersectRels(S, n))
<1> DEFINE rels == IntersectRels(S, n)
           builds == [r \in rels |-> CHOOSE b \in WCOBuildCandidates(r, n) : TRUE]
<1>1. rels \in SUBSET Rels
    BY DEF IntersectRels, RelNbrs
<1>2. \A r \in rels, x \in Preds : builds[r].filters[x] = 0
    <2> SUFFICES ASSUME NEW r \in rels, NEW x \in Preds PROVE builds[r].filters[x] = 0
        OBVIOUS
    <2>1. {r} \in SUBSET Elems /\ builds[r] \in table[{r}]
        BY <1>1 DEF Elems, WCOBuildCandidates
    <2>2. builds[r].filters = Indicator(Preds, Eligible({r}))
        BY <2>1 DEF TableFilters, FiltersOf
    <2>3. Eligible({r}) = {}
        BY <1>1, EligibleEmpty
    <2>4. QED
        BY <2>2, <2>3 DEF Indicator
<1>3. PICK leftPlan \in table[S] :
             p = AppendFilters(AppendIntersect(leftPlan, rels, builds, n, S \cup rels),
                               NewlyMatched(WCOPrevSubgraphs(S, rels), S \cup rels))
    BY DEF WCOPlans
<1>4. leftPlan.filters = Indicator(Preds, Eligible(S))
    BY DEF TableFilters, FiltersOf
<1>5. AppendIntersect(leftPlan, rels, builds, n, S \cup rels).filters
        = Indicator(Preds, Eligible(S))
    <2>1. Indicator(Preds, Eligible(S)) \in [Preds -> Mult]
        BY IndicatorType
    <2>2. BagSum(leftPlan.filters, rels, [r \in rels |-> builds[r].filters]) = leftPlan.filters
        BY <1>2, <1>4, <2>1, BagSumZero
    <2>3. QED
        BY <1>4, <2>2 DEF AppendIntersect
<1>6. NewlyMatched(WCOPrevSubgraphs(S, rels), S \cup rels) = Eligible(S \cup rels) \ Eligible(S)
      /\ Eligible(S) \subseteq Eligible(S \cup rels)
    BY NewlyMatchedOne, EligibleMono DEF WCOPrevSubgraphs
<1>7. QED
    BY <1>3, <1>5, <1>6, FiltersNewlyMatched


-----------------------------------------------------------------------------
(* The inductive invariant *)

LEMMA FilterContext ==
    ASSUME FilterInv
    PROVE  /\ subqueryType \in SubqueryTypes /\ corrNodes \in SUBSET Nodes
           /\ table \in [SUBSET Elems -> SUBSET Plan] /\ todo \in SUBSET WorkItem
BY DEF FilterInv, AssertInv, LevelInv, TypeInv, TypeOK

(* The mode and the correlated nodes never change, and neither does what a plan must filter. *)
LEMMA FilterPrime ==
    ASSUME UNCHANGED <<subqueryType, corrNodes>>,
           \A S \in SUBSET Elems : \A p \in table'[S] : FiltersOf(p, S),
           \A p \in result' : FiltersOf(p, FullyMatched)
    PROVE  PlacedUnlessIDScanned'
BY DEF PlacedUnlessIDScanned, PredicatesPlacedOnce, FiltersOf

LEMMA AddPlansFilters ==
    ASSUME table \in [SUBSET Elems -> SUBSET Plan], TableFilters,
           NEW T \in SUBSET Elems, NEW plans,
           \A p \in plans : FiltersOf(p, T), AddPlans(T, plans)
    PROVE  \A S \in SUBSET Elems : \A p \in table'[S] : FiltersOf(p, S)
BY DEF AddPlans, TableFilters

LEMMA InitFilterInv == Init => FilterInv
<1> SUFFICES ASSUME Init PROVE FilterInv
    OBVIOUS
<1>1. AssertInv
    BY InitAssertInv
<1>2. PredicatesPlacedOnce
    BY DEF Init, PredicatesPlacedOnce
<1>3. QED
    BY <1>1, <1>2 DEF FilterInv, PlacedUnlessIDScanned

(* Every step but the stutter, where planNodeIDScan drops no predicate. *)
LEMMA FilterSteps ==
    ASSUME PlaceablePredicates, FilterInv, ~IDScanDropsFilter,
           \/ PlanBaseTableScans \/ PlanLevel \/ FinishEnumeration
           \/ \E w \in todo : \/ PlanWCOJoin(w) \/ AbortWCOJoin(w)
                              \/ SkipUnplannedNbr(w) \/ SkipImplicitJoin(w)
                              \/ PlanINLJoin(w) \/ PlanInnerHashJoin(w)
    PROVE  PlacedUnlessIDScanned'
<1>1. /\ subqueryType \in SubqueryTypes /\ corrNodes \in SUBSET Nodes
      /\ table \in [SUBSET Elems -> SUBSET Plan] /\ todo \in SUBSET WorkItem
    BY FilterContext
<1>2. TableFilters /\ \A p \in result : FiltersOf(p, FullyMatched)
    BY DEF FilterInv, PlacedUnlessIDScanned, PredicatesPlacedOnce, TableFilters, FiltersOf
<1>3. CASE PlanBaseTableScans
    <2>1. \A S \in SUBSET Elems : \A p \in table'[S] : FiltersOf(p, S)
        BY <1>1, <1>3, BaseTableFilters DEF PlanBaseTableScans
    <2>2. QED
        BY <1>2, <1>3, <2>1, FilterPrime DEF PlanBaseTableScans
<1>4. CASE PlanLevel
    BY <1>2, <1>4, FilterPrime DEF PlanLevel, TableFilters
<1>5. CASE FinishEnumeration
    <2>1. FullyMatched \in SUBSET Elems
        BY DEF FullyMatched
    <2>2. QED
        BY <1>1, <1>2, <1>5, <2>1, FilterPrime DEF FinishEnumeration, TableFilters
<1>6. ASSUME NEW w \in todo,
             \/ PlanWCOJoin(w) \/ AbortWCOJoin(w)
             \/ SkipUnplannedNbr(w) \/ SkipImplicitJoin(w)
             \/ PlanINLJoin(w) \/ PlanInnerHashJoin(w)
      PROVE  PlacedUnlessIDScanned'
    <2>1. UNCHANGED <<subqueryType, corrNodes, result>>
        BY <1>6 DEF PlanWCOJoin, AbortWCOJoin, WCOJoinStep, SkipUnplannedNbr, SkipImplicitJoin,
                    PlanINLJoin, PlanInnerHashJoin, InnerJoinStep
    <2>2. w \in WorkItem
        BY <1>1
    <2> SUFFICES \A S \in SUBSET Elems : \A p \in table'[S] : FiltersOf(p, S)
        BY <1>2, <2>1, FilterPrime
    <2>3. CASE PlanWCOJoin(w)
        <3>1. stage = "wco"
            BY <2>3 DEF PlanWCOJoin, WCOJoinStep
        <3>2. w.node \in Nodes /\ w.right \in SUBSET Elems
            BY <2>2, <3>1 DEF FilterInv, AssertInv, LevelInv, TypeInv, WCONodesInv, WorkItem
        <3>3. Target(w) = w.right \cup IntersectRels(w.right, w.node)
            BY <3>2, GraphAssumption DEF Target
        <3>4. Target(w) \in SUBSET Elems
            BY <3>2, <3>3 DEF IntersectRels, RelNbrs, Elems
        <3>5. \A p \in WCOPlans(w.right, IntersectRels(w.right, w.node), w.node) :
                 FiltersOf(p, Target(w))
            BY <1>2, <2>3, <3>2, <3>3, WCOFilters DEF PlanWCOJoin
        <3>6. QED
            BY <1>1, <1>2, <2>3, <3>4, <3>5, AddPlansFilters DEF PlanWCOJoin
    <2>4. CASE PlanINLJoin(w) \/ PlanInnerHashJoin(w)
        <3>1. stage = "inner"
            BY <2>4 DEF PlanINLJoin, PlanInnerHashJoin, InnerJoinStep
        <3>2. w.right \in SUBSET Elems /\ w.nbr \in SUBSET Elems /\ w.right \cap w.nbr = {}
            BY <2>2, <3>1 DEF FilterInv, AssertInv, InnerShape, WorkItem
        <3>3. CASE PlanINLJoin(w)
            <4>1. \A p \in INLPlans(w.right, w.nbr, ConnectedNodePos(w.right, w.nbr)) :
                     FiltersOf(p, w.right \cup w.nbr)
                BY <1>2, <3>2, INLFilters
            <4>2. QED
                BY <1>1, <1>2, <3>2, <3>3, <4>1, AddPlansFilters DEF PlanINLJoin
        <3>4. CASE PlanInnerHashJoin(w)
            <4>1. \A p \in HashJoinPlans(w.right, w.nbr, leftLevel # level - leftLevel) :
                     FiltersOf(p, w.right \cup w.nbr)
                BY <1>2, <3>2, HashJoinFilters
            <4>2. QED
                BY <1>1, <1>2, <3>2, <3>4, <4>1, AddPlansFilters DEF PlanInnerHashJoin
        <3>5. QED
            BY <2>4, <3>3, <3>4
    <2>5. CASE AbortWCOJoin(w) \/ SkipUnplannedNbr(w) \/ SkipImplicitJoin(w)
        BY <1>2, <2>5 DEF AbortWCOJoin, SkipUnplannedNbr, SkipImplicitJoin, TableFilters
    <2>6. QED
        BY <1>6, <2>3, <2>4, <2>5
<1>7. QED
    BY <1>3, <1>4, <1>5, <1>6

LEMMA NextFilterInv ==
    ASSUME PlaceablePredicates
    PROVE  FilterInv /\ [Next]_vars => FilterInv'
<1> SUFFICES ASSUME FilterInv, [Next]_vars PROVE FilterInv'
    OBVIOUS
<1>1. AssertInv'
    BY NextAssertInv DEF FilterInv
<1>2. UNCHANGED <<subqueryType, corrNodes>>
    <2>1. CASE PlanBaseTableScans \/ PlanLevel \/ FinishEnumeration \/ UNCHANGED vars
        BY <2>1 DEF vars, PlanBaseTableScans, PlanLevel, FinishEnumeration
    <2>2. CASE \E w \in todo : \/ PlanWCOJoin(w) \/ AbortWCOJoin(w)
                               \/ SkipUnplannedNbr(w) \/ SkipImplicitJoin(w)
                               \/ PlanINLJoin(w) \/ PlanInnerHashJoin(w)
        BY <2>2 DEF PlanWCOJoin, AbortWCOJoin, WCOJoinStep, SkipUnplannedNbr,
                    SkipImplicitJoin, PlanINLJoin, PlanInnerHashJoin, InnerJoinStep
    <2>3. QED
        BY <2>1, <2>2 DEF Next
<1>3. PlacedUnlessIDScanned'
    <2>1. CASE IDScanDropsFilter
        BY <1>2, <2>1 DEF IDScanDropsFilter, PlacedUnlessIDScanned
    <2>2. CASE UNCHANGED vars
        BY <2>2 DEF vars, FilterInv, PlacedUnlessIDScanned, IDScanDropsFilter,
                    PredicatesPlacedOnce
    <2>3. QED
        BY <2>1, <2>2, FilterSteps DEF Next
<1>4. QED
    BY <1>1, <1>3 DEF FilterInv

(***************************************************************************)
(* PredicatesPlacedOnce (spec 8.3), for every query graph, estimator and   *)
(* bound whose predicates each have a variable and are not over one rel    *)
(* alone: unless planNodeIDScan would scan a correlated node that has a   *)
(* predicate of its own, every plan that planBaseTableScans, planWCOJoin, *)
(* tryPlanINLJoin and planInnerHashJoin file under a SubqueryGraph S, and *)
(* every plan returned, filters each predicate S makes eligible exactly    *)
(* once and no other.                                                      *)
(***************************************************************************)
THEOREM PredicatePlacement ==
    ASSUME PlaceablePredicates
    PROVE  Spec => [](~IDScanDropsFilter => PredicatesPlacedOnce)
<1>1. Spec => []FilterInv
    BY InitFilterInv, NextFilterInv, PTL DEF Spec
<1>2. FilterInv => (~IDScanDropsFilter => PredicatesPlacedOnce)
    BY DEF FilterInv, PlacedUnlessIDScanned
<1>3. QED
    BY <1>1, <1>2, PTL

=============================================================================
