------------------------ MODULE MCJoinOrderEnumerator -----------------------
(***************************************************************************)
(* Small query graphs for model checking the join-order enumerator.  The   *)
(* query nodes, rels and predicates are model values; the cfg files pick   *)
(* one graph, its predicates and the exact-planning bound.                 *)
(***************************************************************************)
EXTENDS JoinOrderEnumerator

CONSTANTS a, b, c, e1, e2, e3, p1, p2

(***************************************************************************)
(* Triangle: MATCH (a)-[e1]->(b)-[e2]->(c), (a)-[e3]->(c).  Every split   *)
(* the enumerator knows is reachable: INL extends from node scans, hash    *)
(* joins with and without flip, a WCO intersection on c (or a, or b) at    *)
(* level 5, implicit joins pruned when two sides share a rel endpoint that *)
(* neither selects.                                                        *)
(***************************************************************************)
TriangleNodes == {a, b, c}
TriangleRels == {e1, e2, e3}
TriangleSrc == [r \in TriangleRels |-> CASE r = e1 -> a [] r = e2 -> b [] r = e3 -> a]
TriangleDst == [r \in TriangleRels |-> CASE r = e1 -> b [] r = e2 -> c [] r = e3 -> c]

(* Scenario E: MATCH (a)-[e1]->(b), (b)-[e2]->(a). *)
CycleNodes == {a, b}
CycleRels == {e1, e2}
CycleSrc == [r \in CycleRels |-> IF r = e1 THEN a ELSE b]
CycleDst == [r \in CycleRels |-> IF r = e1 THEN b ELSE a]

(* Chain: MATCH (a)-[e1]->(b)-[e2]->(c). *)
ChainNodes == {a, b, c}
ChainRels == {e1, e2}
ChainSrc == [r \in ChainRels |-> IF r = e1 THEN a ELSE b]
ChainDst == [r \in ChainRels |-> IF r = e1 THEN b ELSE c]

NoRecRels == {}

(* e3 is variable-length: MATCH (a)-[e1]->(b)-[e2]->(c), (a)-[e3*1..2]->(c). *)
RecursiveE3 == {e3}

(***************************************************************************)
(* Predicates.  TwoNodePreds: a.x = c.x and b.y = e2.y, each over two      *)
(* variables.  OneRelPreds: a predicate on e3 alone.  OneNodePreds: a      *)
(* predicate on a alone.                                                   *)
(***************************************************************************)
TwoNodePreds == {p1, p2}
TwoNodePredVars == [p \in TwoNodePreds |-> IF p = p1 THEN {a, c} ELSE {b, e2}]
CyclePredVars == [p \in TwoNodePreds |-> IF p = p1 THEN {a, b} ELSE {a, e2}]
OneRelPreds == {p1}
OneRelPredVars == [p \in OneRelPreds |-> {e3}]
OneNodePreds == {p1}
OneNodePredVars == [p \in OneNodePreds |-> {a}]

(***************************************************************************)
(* The estimator: a selective node c, rels that multiply, predicates that  *)
(* do not count.  Costs differ between join orders, so the pruning against *)
(* the cheapest plan depends on the order the pairs are visited in.        *)
(***************************************************************************)
MCCard(E) ==
    [S \in SUBSET E |->
        1 + 2 * Cardinality(S \cap {e1, e2, e3}) + (IF c \in S THEN 0 ELSE 1)]
TriangleCard == MCCard(TriangleNodes \cup TriangleRels)
CycleCard == MCCard(CycleNodes \cup CycleRels)
ChainCard == MCCard(ChainNodes \cup ChainRels)

(* The subquery modes a run explores. *)
NoneOnly == {"NONE"}
CorrelatedOnly == {"INTERNAL_ID_CORRELATED", "CORRELATED"}

=============================================================================
