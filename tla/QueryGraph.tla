----------------------------- MODULE QueryGraph -----------------------------
(***************************************************************************)
(* The bound query graph the join-order enumerator plans, and the          *)
(* SubqueryGraph operations it calls.  A query graph is a set of query     *)
(* nodes and a set of query relationships, each relationship connecting a  *)
(* source and a destination node.  A SubqueryGraph is a node selector and  *)
(* a rel selector over it; since nodes and rels are distinct values we     *)
(* represent it as one set of selected elements.  Its size is the DP level *)
(* the SubPlansTable files it under (selected nodes plus selected rels).   *)
(*                                                                         *)
(* QueryGraph and SubqueryGraph are not part of the sources; they are      *)
(* modelled from the specification (section 3 and 4.1), except for the     *)
(* static helpers of plan_join_order.cpp that are translated from there.   *)
(***************************************************************************)
EXTENDS Naturals, FiniteSets

CONSTANTS
    Nodes,      \* query nodes of the query graph
    Rels,       \* query relationships of the query graph
    Src,        \* Src[r]: the source node of relationship r
    Dst,        \* Dst[r]: the destination node of relationship r
    RecRels,    \* relationships of a recursive type (VARIABLE_LENGTH, SHORTEST, ...)
    Preds,      \* the predicates handed to the query graph
    PredVars,   \* PredVars[p]: the variables DependentVarNameCollector finds in p
    NoNode      \* "no node": what getSequentialScan finds when there is no scan

Elems == Nodes \cup Rels

ASSUME GraphAssumption ==
    /\ IsFiniteSet(Nodes) /\ IsFiniteSet(Rels) /\ IsFiniteSet(Preds)
    /\ Nodes # {}
    /\ Nodes \cap Rels = {}
    /\ Src \in [Rels -> Nodes]
    /\ Dst \in [Rels -> Nodes]
    /\ RecRels \subseteq Rels
    /\ PredVars \in [Preds -> SUBSET Elems]
    /\ NoNode \notin Nodes

Endpoints(r) == {Src[r], Dst[r]}

(***************************************************************************)
(* Incidence: a node and a relationship are adjacent when the node is an   *)
(* endpoint of the relationship.  Two relationships are never adjacent     *)
(* directly, only through a selected node.                                 *)
(***************************************************************************)
Adjacent(x, y) ==
    \/ x \in Rels /\ y \in Endpoints(x)
    \/ y \in Rels /\ x \in Endpoints(y)

Connected(T) ==
    /\ T # {}
    /\ \A U \in SUBSET T :
          (U # {} /\ U # T) => \E x \in U, y \in T \ U : Adjacent(x, y)

(* The binder hands the enumerator one weakly connected query graph. *)
ASSUME ConnectedAssumption == Connected(Elems)

-----------------------------------------------------------------------------
(* SubqueryGraph *)

Level(S) == Cardinality(S)

FullyMatched == Elems

(* Nodes adjacent to the selected rels but not selected themselves. *)
NodeNbrs(S) == (UNION {Endpoints(r) : r \in S \cap Rels}) \ S

(* Rels not selected with an endpoint among the selected nodes. *)
RelNbrs(S) == {r \in Rels \ S : Endpoints(r) \cap S # {}}

(* getNodePositionsIgnoringNodeSelector: selected nodes and rel endpoints. *)
NodesIgnoringSelector(S) == (S \cap Nodes) \cup UNION {Endpoints(r) : r \in S \cap Rels}

(* getNbrSubgraphs(size): connected subgraphs disjoint from S touching it. *)
NbrSubgraphs(S, size) ==
    {T \in SUBSET (Elems \ S) :
        /\ Cardinality(T) = size
        /\ Connected(T)
        /\ \E x \in T, y \in S : Adjacent(x, y)}

(* getConnectedNodePos: the join nodes between S and its neighbour T. *)
ConnectedNodePos(S, T) == (NodeNbrs(S) \cap T) \cup (NodeNbrs(T) \cap S)

IsSingleRel(S) == S \subseteq Rels /\ Cardinality(S) = 1

(* containAllVariables *)
ContainAllVariables(S, vars) == vars \subseteq S

-----------------------------------------------------------------------------
(* Static helpers of plan_join_order.cpp *)

(* getBoundAndNbrNodes for the FWD (TRUE) and BWD (FALSE) directions. *)
BoundNode(r, fwd) == IF fwd THEN Src[r] ELSE Dst[r]
NbrNode(r, fwd) == IF fwd THEN Dst[r] ELSE Src[r]

(* The node at the other end of r seen from node n. *)
OtherEnd(r, n) == IF n = Src[r] THEN Dst[r] ELSE Src[r]

(***************************************************************************)
(* populateIntersectRelCandidates: every neighbouring rel of S with        *)
(* exactly one endpoint selected dangles into its unselected endpoint,     *)
(* the intersect node.  IntersectRels(S, n) lists the rels dangling into n *)
(* (the map's entry for n); closing rels are left to the inner join.       *)
(***************************************************************************)
IntersectNodeOf(S, r) == IF Src[r] \in S THEN Dst[r] ELSE Src[r]

IntersectRels(S, n) ==
    {r \in RelNbrs(S) : ~(Src[r] \in S /\ Dst[r] \in S) /\ IntersectNodeOf(S, r) = n}

(***************************************************************************)
(* needPruneImplicitJoins: the two sides touch more nodes (ignoring node   *)
(* selectors) than the join nodes that were found for them.                *)
(***************************************************************************)
NeedPruneImplicitJoins(L, R, numJoinNodes) ==
    Cardinality(NodesIgnoringSelector(L) \cap NodesIgnoringSelector(R)) # numJoinNodes

(* isExpressionNewlyMatched / getNewlyMatchedExprs *)
NewlyMatched(prevs, new) ==
    {p \in Preds : /\ \A prev \in prevs : ~ContainAllVariables(prev, PredVars[p])
                   /\ ContainAllVariables(new, PredVars[p])}

=============================================================================
