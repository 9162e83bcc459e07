----------------------- MODULE MCQueryGraphCollection -----------------------
(***************************************************************************)
(* Small disconnected query graph collections for model checking           *)
(* enumerateQueryGraphCollection.  Nodes, rels, predicates and the outer   *)
(* correlated expression are model values.                                 *)
(***************************************************************************)
EXTENDS QueryGraphCollection

CONSTANTS a, b, c, d, e1, e2, o, p1, p2, p3, lit

(* Scenario D, reduced: MATCH (a)-[e1]->(b), (c). *)
PairNodes == {a, b, c}
PairRels == {e1}
PairCompNodes == <<{a, b}, {c}>>
PairCompRels == <<{e1}, {}>>

(* Scenario D: MATCH (a)-[e1]->(b), (c)-[e2]->(d). *)
TwoEdgeNodes == {a, b, c, d}
TwoEdgeRels == {e1, e2}
TwoEdgeCompNodes == <<{a, b}, {c, d}>>
TwoEdgeCompRels == <<{e1}, {e2}>>

CollSrc == [r \in {e1, e2} |-> IF r = e1 THEN a ELSE c]
CollDst == [r \in {e1, e2} |-> IF r = e1 THEN b ELSE d]
PairSrc == [r \in PairRels |-> CollSrc[r]]
PairDst == [r \in PairRels |-> CollDst[r]]
TwoEdgeSrc == [r \in TwoEdgeRels |-> CollSrc[r]]
TwoEdgeDst == [r \in TwoEdgeRels |-> CollDst[r]]

NoRecRels == {}

(***************************************************************************)
(* Predicates: p1 is a.x = c.x and spans the components, p2 is b.y = e1.y  *)
(* and lies in the first, lit is a literal (WHERE true).  p3 is a         *)
(* predicate without variables that is not a literal (WHERE $flag, a      *)
(* function of no variables).                                              *)
(***************************************************************************)
CollPreds == {p1, p2, lit}
VarlessPreds == {p1, p2, p3, lit}
CollPredVars ==
    [q \in VarlessPreds |-> CASE q = p1 -> {a, c} [] q = p2 -> {b, e1} [] OTHER -> {}]
PredVarsOf(P) == [q \in P |-> CollPredVars[q]]
CollLiterals == {lit}

(* The estimator: rels multiply, node c is selective. *)
CollCard(E) ==
    [S \in SUBSET E |-> 1 + 2 * Cardinality(S \cap {e1, e2}) + (IF c \in S THEN 0 ELSE 1)]

(* Correlated expressions: a node of the first component, or an outer expression. *)
FirstCompCandidates == {a, o}
BothCompCandidates == {a, c, o}

MCPairPredVars == PredVarsOf(CollPreds)
MCVarlessPredVars == PredVarsOf(VarlessPreds)
MCPairCard == CollCard(PairNodes \cup PairRels)
MCTwoEdgeCard == CollCard(TwoEdgeNodes \cup TwoEdgeRels)

=============================================================================
