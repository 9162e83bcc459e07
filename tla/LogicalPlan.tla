----------------------------- MODULE LogicalPlan ----------------------------
(***************************************************************************)
(* A LogicalPlan, abstracted to what the enumerator and its properties     *)
(* tell apart: its cost and cardinality, the node its sequential scan      *)
(* starts from (getSequentialScan), the node IDs in its schema's scope,    *)
(* and how often each kind of operator occurs in its tree: ScanNodeTable   *)
(* with properties (planNodeScan), ScanNodeTable of internal IDs only      *)
(* (planNodeIDScan and the bound side of a rel scan), Extend per           *)
(* relationship, Filter per predicate, and ExpressionsScan.  Counts        *)
(* saturate at 2 ("twice or more"): the properties only tell 0, 1 and more *)
(* apart.                                                                  *)
(*                                                                         *)
(* Plans are values: a shallow copy (LogicalPlan::copy) and an append to   *)
(* it never change a plan already in the SubPlansTable, which is what the  *)
(* value semantics of records gives.  The appenders themselves and the     *)
(* cardinality estimator and cost model are not part of the sources; they  *)
(* are modelled from the specification (sections 4.4 and 4.5).            *)
(***************************************************************************)
EXTENDS QueryGraph

CONSTANTS
    Card,          \* Card[S]: the estimator's cardinality for a plan matching S
    CorrExprsCard  \* info.corrExprsCard, set verbatim on the ExpressionsScan plan

ASSUME EstimatorAssumption ==
    /\ Card \in [SUBSET Elems -> Nat]
    /\ CorrExprsCard \in Nat

Mult == 0..2

SatAdd(a, b) == IF a + b > 2 THEN 2 ELSE a + b

Zero(D) == [x \in D |-> 0]
Unit(D, y) == [x \in D |-> IF x = y THEN 1 ELSE 0]
Indicator(D, Y) == [x \in D |-> IF x \in Y THEN 1 ELSE 0]
BagAdd(f, g) == [x \in DOMAIN f |-> SatAdd(f[x], g[x])]

(* The saturated count of the operators f[i] over the index set I. *)
SatCount(I, f) ==
    IF \/ \E i \in I : f[i] = 2
       \/ \E i, j \in I : i # j /\ f[i] >= 1 /\ f[j] >= 1
    THEN 2
    ELSE IF \E i \in I : f[i] >= 1 THEN 1 ELSE 0

(* The saturated sum over the index set I of the bags F[i], added to base. *)
SatTotal(I, F, x) == SatCount(I, [i \in I |-> F[i][x]])

BagSum(base, I, F) == [x \in DOMAIN base |-> SatAdd(base[x], SatTotal(I, F, x))]

Plan ==
    [cost : Nat, card : Nat, seq : Nodes \cup {NoNode}, scope : SUBSET Nodes,
     nodeScans : [Nodes -> Mult], idScans : [Nodes -> Mult],
     extends : [Rels -> Mult], filters : [Preds -> Mult], exprScans : Mult]

-----------------------------------------------------------------------------
(* The appenders.  Each one replaces the plan's root. *)

(* appendScanNodeTable; withProperties is FALSE for an internal-ID scan. *)
ScanNodeTable(n, withProperties) ==
    [cost |-> Card[{n}], card |-> Card[{n}], seq |-> n, scope |-> {n},
     nodeScans |-> IF withProperties THEN Unit(Nodes, n) ELSE Zero(Nodes),
     idScans |-> IF withProperties THEN Zero(Nodes) ELSE Unit(Nodes, n),
     extends |-> Zero(Rels), filters |-> Zero(Preds), exprScans |-> 0]

(* Variant: the rel, not the neighbour node, enters the schema. *)
AppendExtendRelInScope(p, r, nbr, newSubgraph) ==
    [cost |-> p.cost + Card[newSubgraph], card |-> Card[newSubgraph],
     seq |-> IF r \in RecRels THEN NoNode ELSE p.seq, scope |-> p.scope \cup {r},
     nodeScans |-> p.nodeScans, idScans |-> p.idScans,
     extends |-> BagAdd(p.extends, Unit(Rels, r)), filters |-> p.filters,
     exprScans |-> p.exprScans]

(***************************************************************************)
(* appendExtend: a non-recursive Extend keeps the sequential scan below    *)
(* it visible to getSequentialScan; a RecursiveExtend is not one of the    *)
(* operators getSequentialScan searches through, so it hides it.  The      *)
(* estimator gives the cardinality of the pattern newSubgraph.             *)
(***************************************************************************)
AppendExtend(p, r, nbr, newSubgraph) ==
    [cost |-> p.cost + Card[newSubgraph], card |-> Card[newSubgraph],
     seq |-> IF r \in RecRels THEN NoNode ELSE p.seq, scope |-> p.scope \cup {nbr},
     nodeScans |-> p.nodeScans, idScans |-> p.idScans,
     extends |-> BagAdd(p.extends, Unit(Rels, r)), filters |-> p.filters,
     exprScans |-> p.exprScans]

(* appendFilters: one Filter per predicate; cost and cardinality unchanged. *)
AppendFilters(p, preds) ==
    [cost |-> p.cost, card |-> p.card, seq |-> p.seq, scope |-> p.scope,
     nodeScans |-> p.nodeScans, idScans |-> p.idScans, extends |-> p.extends,
     filters |-> BagAdd(p.filters, Indicator(Preds, preds)), exprScans |-> p.exprScans]

(* computeHashJoinCost: build-side materialisation plus probe-side scan. *)
HashJoinCost(probe, build) == probe.cost + build.cost + probe.card + 2 * build.card

(* appendHashJoin(joinNodeIDs, INNER, probe, build) *)
AppendHashJoin(probe, build, newSubgraph) ==
    [cost |-> HashJoinCost(probe, build), card |-> Card[newSubgraph], seq |-> NoNode,
     scope |-> probe.scope \cup build.scope,
     nodeScans |-> BagAdd(probe.nodeScans, build.nodeScans),
     idScans |-> BagAdd(probe.idScans, build.idScans),
     extends |-> BagAdd(probe.extends, build.extends),
     filters |-> BagAdd(probe.filters, build.filters),
     exprScans |-> SatAdd(probe.exprScans, build.exprScans)]

(* appendIntersect(intersectNodeID, boundNodeIDs, probe, builds) *)
AppendIntersect(probe, rels, builds, intersectNode, newSubgraph) ==
    [cost |-> probe.cost + Card[newSubgraph], card |-> Card[newSubgraph], seq |-> NoNode,
     scope |-> probe.scope \cup {intersectNode},
     nodeScans |-> BagSum(probe.nodeScans, rels, [r \in rels |-> builds[r].nodeScans]),
     idScans |-> BagSum(probe.idScans, rels, [r \in rels |-> builds[r].idScans]),
     extends |-> BagSum(probe.extends, rels, [r \in rels |-> builds[r].extends]),
     filters |-> BagSum(probe.filters, rels, [r \in rels |-> builds[r].filters]),
     exprScans |-> SatAdd(probe.exprScans, SatCount(rels, [r \in rels |-> builds[r].exprScans]))]

(* appendExpressionsScan(corrExprs) with setCardinality(info.corrExprsCard). *)
ExpressionsScan(corrNodes) ==
    [cost |-> 0, card |-> CorrExprsCard, seq |-> NoNode, scope |-> corrNodes,
     nodeScans |-> Zero(Nodes), idScans |-> Zero(Nodes),
     extends |-> Zero(Rels), filters |-> Zero(Preds), exprScans |-> 1]

(* appendDistinct(corrExprs): the root is a Distinct, not a sequential scan. *)
AppendDistinct(p) ==
    [cost |-> p.cost, card |-> p.card, seq |-> NoNode, scope |-> p.scope,
     nodeScans |-> p.nodeScans, idScans |-> p.idScans, extends |-> p.extends,
     filters |-> p.filters, exprScans |-> p.exprScans]

(***************************************************************************)
(* isNodeSequentialOnPlan: the chain of Flatten, Filter, Extend and        *)
(* Projection below the root ends in a ScanNodeTable of node n.            *)
(***************************************************************************)
IsNodeSequentialOnPlan(p, n) == p.seq = n

=============================================================================
