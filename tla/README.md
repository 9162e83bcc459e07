# Formal model of Kuzu's join-order planner and CREATE pipeline

This directory holds TLA+ models of two parts of Kuzu:

- the join-order planner (`src/src/planner/plan/plan_join_order.cpp`): the
  dynamic-programming enumerator of one connected query graph, and the
  collection level that composes it over the connected components;
- the CREATE pipeline (`src/src/processor/operator/persistent/insert_executor.cpp`
  and `src/src/storage/store/table_data.cpp`): the node and rel insert
  executors and the node-group append of `TableData::insert`.

It also holds the TLC configurations that check the models on small
instances, and TLAPS proofs that hold for every instance.

## The system and its parts

This source tree snapshot holds the following parts:

- **The join-order enumerator.** `enumerateQueryGraph` (lines 132-156) is
  the core of this snapshot.
  - It fills a SubPlansTable. The table maps every *SubqueryGraph* (a set
    of selected query nodes and rels) to the plans that match it.
  - It runs level by level. `planBaseTableScans` plans the one-node and
    one-rel subgraphs, and also the ExpressionsScan in CORRELATED mode.
  - Every level k splits into a left level l and a right level k - l:
    - `planWCOJoin` intersects l rels on a common node, for l > 1;
    - `planInnerJoin` pairs each subgraph with its neighbour subgraphs;
    - a pair becomes an INL extend (`tryPlanINLJoin`) or hash joins in
      both orientations (`planInnerHashJoin`);
    - `getMaxCost` prunes the hash joins.
  - Up to `MAX_LEVEL_TO_PLAN_EXACTLY` every split is planned. Above it only
    the (1, k-1) split is planned.
  - At the end, the plans of the fully matched SubqueryGraph are returned.
- **The collection level.** `enumerateQueryGraphCollection` (lines 44-130)
  hands each connected component its predicates, chooses the component
  that hosts the correlated ExpressionsScan, and joins the components by
  cross products (`planCrossProduct`). It calls the enumerator once per
  component, so it is the composition of the two parts of the planner.
- **The CREATE pipeline.** For each input tuple `NodeInsertExecutor::insert`
  inserts the node, or under ON CONFLICT DO NOTHING binds the existing node
  with the same key. `NodeTable::insert` (not under `src/`) hands the new
  offset to `TableData::insert`, which appends a node group when the offset
  lies past the existing groups. `RelInsertExecutor::insert` then creates
  the rel from the node ID vector the node insert left behind. The vectors
  are reused from one tuple to the next.
- **Other files.** The rest of the snapshot is peripheral:
  - the logical-plan copy functions;
  - the older `JoinOrderEnumeratorContext` header;
  - the existential-subquery binder;
  - settings, vector dispatch tables, an ORDER BY mapper, the HashAggregate
    header and a test.

`PROJECT.json` lists every part with its status.

## Modules

| module | models |
|---|---|
| `QueryGraph` | The query graph as constants: `Nodes`, `Rels`, `Src`, `Dst`, `RecRels`, `Preds` and `PredVars`. Also SubqueryGraph helpers (`NodeNbrs`, `RelNbrs`, `NbrSubgraphs`, `ConnectedNodePos`) and `IntersectRels` (`populateIntersectRelCandidates`). |
| `LogicalPlan` | A plan as a record of what the properties tell apart: cost, cardinality, the node its sequential scan starts from (`getSequentialScan`), the scope, and saturating counts (0, 1, 2+) of property scans, internal-ID scans, Extends and Filters. Its operators are the appenders (`appendScanNodeTable`, `appendExtend`, `appendFilters`, `appendHashJoin`, `appendIntersect`, `appendExpressionsScan`, `appendDistinct`). |
| `JoinOrderEnumerator` | The enumeration as a state machine. |
| `MCJoinOrderEnumerator` | The small graphs for TLC: a triangle, a 2-cycle (spec scenario E) and a chain, with their predicates and a cost estimator that makes join orders cost different amounts. |
| `JoinOrderEnumeratorProofs` | The TLAPS proofs about the enumerator: types, level discipline, no assertion failure. |
| `JoinOrderCoverageProofs` | The TLAPS proofs of plan coverage and of the ExpressionsScan placement. |
| `JoinOrderPredicateProofs` | The TLAPS proof of predicate placement, under the conditions that make it true. |
| `QueryGraphCollection` | `enumerateQueryGraphCollection`, `getConnectedQueryGraphIdx` and `planCrossProduct`. Every component is enumerated by `Comp(i, P)`, an `INSTANCE` of `JoinOrderEnumerator` on component i's nodes and rels with the predicates P handed to it. |
| `MCQueryGraphCollection` | The instances for TLC: scenario D, `(a)-[e1]->(b), (c)-[e2]->(d)`, and a pair `(a)-[e1]->(b), (c)`, with a cross-component predicate, a local one, a literal and one without variables. |
| `KeyedCreate` | The abstract CREATE over keys: create the node of a new key, bind (DO NOTHING) or abort (THROW) on a present key, create the rel between two keys or skip it. There are no offsets, node groups or vectors. |
| `InsertPipeline` | The executors, `NodeTable::insert` and `TableData::insert`, tuple by tuple, and the refinement mapping to `KeyedCreate`. |
| `MCInsertPipeline` | Three keys as model values for TLC. |
| `InsertPipelineProofs` | The TLAPS proofs about the insert pipeline, including the refinement. |

`LogicalPlan` also counts ExpressionsScans (`exprScans`), so the collection
level can say how often the correlated expressions are bound.

The code's appenders and cost model are not under `src/`. `LogicalPlan`
therefore models them from the specification, sections 4.4 and 4.5. They
are marked `spec_modelled` in the map.

### State of `JoinOrderEnumerator`

- `table` is the SubPlansTable.
- `level` and `leftLevel` are the loop counters of `planLevel`.
- `stage` is WCO or inner join.
- `todo` holds the (subgraph, neighbour or intersect node) pairs that the
  current loop has not visited yet.
- `pc` says whether the call is scanning, planning or done.
- `subqueryType` and `corrNodes` come from `info`, and are chosen freely in
  `Init`.

### Actions

- `PlanBaseTableScans` is `planBaseTableScans`: the whole of it, in the
  three subquery modes.
- `PlanLevel` is the loop header of `planLevelExactly` and
  `planLevelApproximately`, with the `currentLevel++` of the main loop. It
  computes the next split and fills `todo` with that split's work items.
- One action per outcome of one visit:
  - `PlanWCOJoin` and `AbortWCOJoin`: the early return when a rel has no
    build plan (line 430);
  - `SkipUnplannedNbr`: the neighbour belongs to an earlier query part;
  - `SkipImplicitJoin`: `needPruneImplicitJoins`;
  - `PlanINLJoin`;
  - `PlanInnerHashJoin`.
- `FinishEnumeration` moves the plans of the fully matched subgraph out of
  the table.

A level is the number of selected elements, nodes and rels together. A
one-node and a one-rel subgraph are both at level 1, and a one-node plan
extended by one rel is at level 2, which is how the code files them. The
loop bound is modelled as `maxLevel = |nodes| + |rels| + 1`, because
`context.init` is not under `src/`.

### The visit-order reduction

The code iterates over unordered maps and sets, so the order of the visits
within a split is unspecified. Different orders give different outcomes,
because the hash-join cost ceiling is read before the visit and updated by
it. The model reduces the orders it explores as follows:

- A visit reads only lower levels (which no visit of the stage changes) and
  its own target subgraph, and it writes only its target. Visits with
  different targets therefore commute.
- `Visitable` visits the targets in one fixed order (`NextTarget`).
- With `ExploreOrders = TRUE` it keeps every order of the visits that share
  a target, which is where the outcome really depends on the order.
- With `ExploreOrders = FALSE` it fixes one order of those visits as well.
  This is used on the triangle, whose state space otherwise explodes.

### State and actions of `QueryGraphCollection`

- The enumerator's variables are shared by the component instances: one
  component is enumerated at a time, as in the code's loop.
- `infoType` and `corrExprs` are the subquery mode and the correlated
  expressions of `info`, chosen in `Init` from `CorrCandidates`.
- `cur`, `evaluated`, `toEvaluate` and `plansPerQueryGraph` are the loop
  variables of lines 58-94. `cpc` is the collection's program counter, and
  `collResult` the plans returned.
- `StartQueryGraph` is the head of one loop iteration (lines 58-91). It
  computes the component's predicates with `PredicatesToEvaluate`, and its
  subquery mode with `QueryGraphMode`: only component
  `ExpressionsScanIdx` keeps CORRELATED. It then gives the enumerator
  instance its initial state.
- `PlanQueryGraph` is one step of that component's enumerator,
  `Comp(cur, toEvaluate)!Next`.
- `CollectPlans` files the component's plans when its enumerator is done
  (lines 92-94).
- `FinishCollection` is lines 95-129. It plans the independent
  ExpressionsScan when no component holds a correlated node, folds the
  components with `CrossProducts`, and appends the filters of the
  predicates not yet evaluated.

### State and actions of `InsertPipeline`

- `pkIndex` is the primary-key index, from key to offset. `numNodes` is
  the next offset. `numNodeGroups` and `localUpdates` are `TableData`'s node
  groups and local-storage writes.
- `nodeIDVec`, `nodeCol` and `relColNull` are the reused vectors.
- `rels` holds the rels created, with the key of their tuple.
- `phase` says which operator comes next ("node", "rel") or that the query
  aborted. `tuples` counts the input tuples, up to `MaxTuples`.
- `NodeInsert(pk)` is `NodeInsertExecutor::insert` on one tuple. Under DO
  NOTHING, a present key runs `updateNodeID` with the existing offset and
  returns. Otherwise it runs `NodeTableInsert`, which throws on a present
  key (the query aborts) or allocates the next offset, runs
  `TableDataInsert` and `writeColumnVectors`.
- `RelInsert(dst)` is `RelInsertExecutor::insert`. The destination is a
  node that exists or null, and a null endpoint nulls the rel's columns.

### The refinement

`Abstract == INSTANCE KeyedCreate WITH ...` maps the pipeline onto the
keyed CREATE:

- `keys` is the set of keys the index holds (`UsedOf(pkIndex)`);
- `edges` reads every stored rel back as the keys of its two nodes
  (`KeyOf(pkIndex, offset)`);
- `curKey` is `curPK`;
- offsets, node groups, local storage and the vectors have no counterpart.

Because the edge's source key is read back from the stored source
offset, not from the tuple, a rel built from a stale node ID vector maps
to an edge the abstract CreateRel cannot make. A conflict decided without
the conflict action maps to a bind under THROW, which the abstract
specification does not allow either.

## Properties and runs

All runs set `CHECK_DEADLOCK FALSE`:

- for the planner, `pc = "done"` and `cpc = "done"` are the return of the
  planning call;
- the insert pipeline stops when its input is exhausted or the query
  aborts.

Neither is a deadlock.

### Properties

- `TypeOK` is the type invariant.
- `PlanCoverage` (spec 8.2): every plan filed under S, and every plan
  returned, extends exactly the rels of S once each, has the nodes of S in
  scope, and scans each non-correlated node of S with properties exactly
  once.
- `PredicatesPlacedOnce` (spec 8.3): every plan of S filters exactly the
  predicates whose variables S contains, each exactly once.
- `Completeness` (spec 8.1): a planning call of a connected graph returns
  at least one plan.
- `NoAssertionFailure`: the following never happen:
  - a neighbour pair without a join node (`joinNodes[0]` at line 527);
  - two single-rel sides (the swap at line 517);
  - two build plans for one WCO rel (the assertion at line 399).
- `LevelStepsOnlyAddAtCurrentLevel` is an action property: while levels
  are planned, no plan is ever dropped, and plans are added only to
  subgraphs of the current level.
- `Termination`: the call returns.
- `ExpressionsScanPlaced` (spec 8.8): in CORRELATED mode a SubqueryGraph
  that has a plan and touches a correlated node holds all the correlated
  nodes; every plan filed under S, and every plan returned, carries the
  ExpressionsScan of `planCorrelatedExpressionsScan` once if S holds the
  correlated nodes in CORRELATED mode, and never otherwise.
- `CorrelatedNodesNotScanned` (spec 8.8): in CORRELATED mode no
  ScanNodeTable references a correlated node.

Collection level (`QueryGraphCollection`):

- `CollectionCoverage` (spec 8.2 and 8.8): every plan returned extends
  every rel of every component once, has every node in scope, and scans
  with properties exactly the nodes that are not correlated, whichever
  component they lie in.
- `PredicatesAppliedOnce` (spec 8.3): every plan returned filters every
  predicate of the query exactly once, in some component's enumerator or
  after the cross products.
- `ExpressionsScanOnce`: every plan returned binds the correlated
  expressions once in CORRELATED mode, and never otherwise.
- `CollectionCompleteness`: the call returns at least one plan.
- `CollectionTermination`: the call returns.

Insert pipeline (`InsertPipeline`):

- `StorageCovers`: every offset written to local storage lies in a node
  group that exists, and no group is appended before a node needs it.
- `RelEndpointsBound`: every rel starts at the offset its tuple's key holds
  and ends at an existing node.
- `ImplementsKeyedCreate`: the pipeline implements `KeyedCreate!Spec`
  under the mapping above.
- `OutputPKColumn`: after the node insert, the projected key column holds
  the tuple's key.

### Runs

| run | instance | shows |
|---|---|---|
| MCTriangle | triangle, exact, one order, 3 subquery modes | Every property on the graph that reaches Intersect plans at level 5 and hash joins with and without flip, with every non-empty correlated set in CORRELATED mode. |
| MCCycle | 2-cycle, all orders | Coverage and predicates when one node pair is joined by two rels (scenario E), in every visit order. |
| MCChain | chain, `MAX_LEVEL_TO_PLAN_EXACTLY = 3`, all orders | The approximate levels 4-5 still complete the plan, and the call terminates. |
| MCTriangleRecursive | triangle with e3 variable-length | The WCO early return (a RecursiveExtend hides the scan the build plan needs) leaves the DP complete and correct. |
| MCWCODoubleFilter | triangle, predicate on e3 alone | **Violation** of `PredicatesPlacedOnce`. |
| MCNodeIDScanFilter | 2-cycle, predicate on a alone | **Violation** of `PredicatesPlacedOnce`. |
| MCCorrelatedScan | 2-cycle, CORRELATED | **Violation** of `CorrelatedNodesNotScanned`. |
| MCCollectionScenarioD | scenario D, 3 subquery modes, correlated a or an outer expression | Every collection property: each component gets its own predicates, the ExpressionsScan is planned once (by the first component or on its own), and every cross product covers and filters everything once. |
| MCCollectionVarlessPred | pair, with a predicate without variables | **Violation** of `PredicatesAppliedOnce`. |
| MCCollectionTwoCorrelated | pair, CORRELATED with a and c correlated | **Violation** of `CollectionCoverage`. |
| MCInsertPipeline | 4 tuples, 3 keys, groups of 2, THROW and DO NOTHING | `TypeOK`, `StorageCovers`, `RelEndpointsBound` and the refinement `ImplementsKeyedCreate`. |
| MCInsertStaleColumn | 3 tuples, DO NOTHING | **Violation** of `OutputPKColumn`. |

### Why the bounds are enough

The triangle is the smallest graph on which every code path of the
enumerator is reached:

- a WCO intersection on c, which needs two rels dangling into one node;
- implicit-join pruning;
- INL extends and hash joins, with and without flip.

The 2-cycle is the smallest graph with two rels between the same two
nodes. The chain with bound 3 reaches `planLevelApproximately`.

Scenario D is the smallest collection with a predicate spanning two
components and a rel in each. With the correlated candidates {a, o} it
reaches both placements of the ExpressionsScan: in the first component,
and on its own with index -1.

Four tuples over three keys, with node groups of two, cross a group
boundary twice (offsets 0, 1 | 2). With four tuples the DO NOTHING path
also repeats a key and is followed by a rel insert.

Every subquery mode and every set of correlated nodes is explored. Every
disjunct of `Next` fires in some passing run.

Each property has a mutant in `PROJECT.json` that TLC catches:

- a cost ceiling that starts at 0;
- an `addPlan` that overwrites;
- a rel scan from the wrong end;
- a join that files under the wrong key;
- a missing `currentLevel++`;
- others.

## Findings

- **Code bug, line 422.** `planWCOJoin` builds `prevSubgraph` for every
  rel but pushes `subgraph` into `prevSubgraphs`. A predicate on one
  intersected rel is then applied by that rel's build plan and again after
  the Intersect (MCWCODoubleFilter). With the push fixed, TLC passes.
- **Divergence, line 262.** `planNodeIDScan` appends no filters. In
  INTERNAL_ID_CORRELATED mode a predicate on a correlated node alone is
  therefore applied nowhere (MCNodeIDScanFilter).
- **Divergence, line 299.** In CORRELATED mode `planRelScan` still starts
  with a ScanNodeTable of its bound node, which may be correlated
  (MCCorrelatedScan).
- **Divergence, line 69.** A non-literal predicate without variables is
  projectable by the first component and marked evaluated. That
  component's enumerator never finds it newly matched, and the final
  filter loop skips it, so it is applied nowhere (MCCollectionVarlessPred).
- **Divergence, line 88.** Only the component that hosts the
  ExpressionsScan is planned CORRELATED. A correlated node of another
  component is scanned with a ScanNodeTable (MCCollectionTwoCorrelated).
- **Code bug, `insert_executor.cpp:88`.** The DO NOTHING path rebinds the
  node ID vector but returns before `writeColumnVectors`. The projected
  columns the next operator reads therefore keep the previous tuple's
  values (MCInsertStaleColumn).
- **Spec gaps.**
  - The spec's planning timeout check does not exist in this code.
  - The spec counts levels in rels. The code counts variables (nodes plus
    rels), and the model follows the code.
  - In scenario A the fully matched triangle is reached by a hash join
    with {c} after an Intersect at level 5. No single intersection reaches
    it.

## Proofs

`JoinOrderEnumeratorProofs` proves the following for every query graph,
estimator and bound that satisfy the named assumptions (`GraphAssumption`,
`EstimatorAssumption`, `LevelBoundAssumption`):

- **`TypeCorrect`: `Spec => []TypeOK`.**
  - `TypeOK` alone is not inductive. A WCO work item must carry a query
    node as its intersect node, because otherwise `IntersectRels` is not
    known to be a set of rels. The strengthening `TypeInv` adds this as
    `WCONodesInv`.
  - The proof rests on one lemma per appender and per plan-set operator
    (for example `AppendIntersectType`, `HashJoinPlansType` and
    `BaseTableType`). It then has one step lemma per action.
- **`LevelDiscipline`: `Spec => LevelStepsOnlyAddAtCurrentLevel`.**
  - The inductive invariant `TodoTargetsInv` says:
    - every pending work item targets a SubqueryGraph with exactly `level`
      variables;
    - inner-join items have no intersect node.
  - It holds after `PlanLevel` by `WCOWorkLevel` and `InnerWorkLevel`. Both
    rest on `DisjointUnionLevel`: a subgraph of level k - l and a disjoint
    neighbour or rel set of size l give level k.
  - Visits only remove items.
  - `NextLevelStep` then shows that every step between two planning states
    only adds plans to its target, which is at the current level.

- **`NoAssertions`: `Spec => []NoAssertionFailure`.**
  - The strengthening `AssertInv` adds to `LevelInv`:
    - `BaseRelPlans`: after `planBaseTableScans` every single-rel
      SubqueryGraph keeps exactly its two rel scans, because every later
      plan goes to a target of level two or more;
    - `LevelBounds`: work is pending only at level 2 or above;
    - `InnerShape`: an inner-join work item pairs a subgraph with a
      disjoint neighbour set adjacent to it.
  - From `BaseRelPlans` each WCO rel has at most one build plan from the
    bound node (`RelScanCandidates`, which also covers a self-loop, where
    both directions start at the same node). From `InnerShape` an inner
    pair has a join node and is never two single rels (`InnerPairAssert`).

`JoinOrderCoverageProofs` extends the module above and proves:

- **`Coverage`: `Spec => []PlanCoverage`.**
  - `LogicalPlan` counts scans, extends and filters in saturating bags.
    The first part of the module gives sums of indicator bags
    (`IndicatorUnion`, `BagSumIndicator`, `BagSumZero`).
  - One lemma per appender (`MatchFilters`, `MatchHashJoin`, `MatchExtend`,
    `MatchIntersect`) shows that plans matching their subgraphs give a plan
    matching the joined subgraph; `BaseTableMatch`, `HashJoinMatch`,
    `INLMatch` and `WCOMatch` lift this to the plan sets.
  - `PlanCoverage` is not inductive: a WCO work item must have at least one
    intersect rel, or the Intersect would extend nothing. `CoverInv` is
    `AssertInv /\ WCOShape /\ PlanCoverage`.
- **`ExpressionsScanPlacement`: `Spec => []ExpressionsScanPlaced`.**
  - Joins add the ExpressionsScan counts of their sides. A join of two
    subgraphs that both hold the correlated nodes would carry it twice;
    the closure conjunct rules this out, since two disjoint subgraphs
    cannot both hold a non-empty set.
  - The strengthening `PlaceInv` adds `CorrNonEmpty`: in CORRELATED mode
    the correlated set is not empty (`Init` picks it from the non-empty
    subsets). With an empty set every subgraph would count as holding it.
  - `WCOPlaced` uses `planWCOJoin`'s guard that every intersect rel has a
    build candidate.

`JoinOrderPredicateProofs` extends the module above and proves:

- **`PredicatePlacement`: under `PlaceablePredicates`,
  `Spec => [](~IDScanDropsFilter => PredicatesPlacedOnce)`.**
  - `PredicatesPlacedOnce` fails in three ways, and the theorem excludes
    exactly these:
    - A predicate without variables is eligible everywhere but newly
      matched nowhere, so no plan filters it (the finding of
      `MCCollectionVarlessPred`).
    - A predicate over one rel alone is filtered by the rel scan. It is
      filtered again after an Intersect that uses that scan as a build
      (`MCWCODoubleFilter`).
    - In INTERNAL_ID_CORRELATED mode, a predicate over one correlated node
      alone is never filtered, because `planNodeIDScan` appends no filter
      (`MCNodeIDScanFilter`).
  - The first two are conditions on the query's predicates, so they form
    the hypothesis `PlaceablePredicates`. They are stronger than needed: a
    single-rel predicate is only filtered twice when its rel becomes an
    intersect rel, which takes a cycle.
  - The third depends on the mode and on the correlated nodes. It is the
    premise of the invariant.
  - The predicates of the four passing enumerator runs satisfy both
    conditions. TLC evaluated `PlaceablePredicates` on those instances
    while the proof was developed. So the theorem covers every instance
    they check.
  - Two disjoint SubqueryGraphs share no eligible predicate, because
    every predicate has a variable (`EligibleDisjoint`). So a hash join
    adds its sides' filter bags without counting a predicate twice, and
    `getNewlyMatchedExprs` supplies the rest.
  - A WCO build is a plan of a single rel, which makes nothing eligible.
    So the Intersect filters what the probe does (`WCOFilters`, from
    `BagSumZero`).
  - The inductive invariant `FilterInv` is `AssertInv /\
    PlacedUnlessIDScanned`. `AssertInv` is needed for the disjoint sides of
    inner joins and for the WCO node. The mode and the correlated nodes
    never change, so the premise is the same in every state of a behaviour.

TLC checked `TodoTargetsInv`, `AssertInv`, `CoverInv`, `PlaceInv` and
`FilterInv` as invariants before they were proved.

`Init` writes `(SUBSET Nodes) \ {{}}` with parentheses. TLC and tlapm
group the unparenthesised form differently.

`InsertPipelineProofs` proves the following for every key set, node-group
size and number of tuples that satisfy `InsertAssumption`:

- **`NodeGroupsCoverOffsets`: `Spec => []StorageCovers`.**
- **`RelsStartAtTheirKey`: `Spec => []RelEndpointsBound`.**
- **`InsertTypeCorrect`: `Spec => []TypeOK`.**
- **`InsertImplementsKeyedCreate`: `Spec => ImplementsKeyedCreate`.**

The first three rest on the inductive invariant `IInv`. Neither property
is inductive alone, and `IInv` adds:

- `numNodes` is the number of used keys, and every used key maps below it;
- the local writes lie below `numNodes`;
- the node groups hold `0 .. numNodes - 1` without a spare group;
- in phase "rel", the current key is used and the node ID vector names
  its offset, which is what rules out a stale vector;
- every rel's key is used and its source is that key's offset.

`GroupAppend` is the arithmetic of one append. There is one step lemma
each for the conflict, abort, fresh-insert and rel paths.

The refinement rests on `RInv`, which is `IInv` plus the fact that offsets
below `numNodes` and used keys correspond one to one (`Injective`,
`OffsetsOnto`). Without it, `KeyOf` could read back a different key than
the one inserted. The proof goes in three steps:

- `RefineInit`: the initial states map to initial states.
- `RefineStep`: every step maps to one abstract action or to a stutter.
- `FreshEdges`: a fresh insert does not change how old rels read back,
  because its new offset is held by no used key.

`IInv` was checked with TLC before it was proved.

### What is left to TLC

- Liveness (`Termination`, `CollectionTermination`), and anything about
  `ENABLED`.
- The collection properties. `QueryGraphCollection` folds the cross
  products with the recursive function `CrossProducts` over the
  components; what it computes for every number of components needs
  induction over data. Its properties also rest on the enumerator's
  properties for each `Comp(i, P)` instance, which need that instance's
  assumptions (a connected component, a `NoNode` outside it), and the
  collection module does not state them. They also cannot be reused
  through `INSTANCE`: tlapm 1.4.5 hides the theorems of an instanced module
  that has `ASSUME`s, as parametric axioms it cannot cite.
- Properties whose proof needs induction over data.
- `PredicatesPlacedOnce` is false in general: `MCWCODoubleFilter` and
  `MCNodeIDScanFilter` violate it. `PredicatePlacement` proves it under
  the conditions that exclude those failures; outside them, only the
  violation runs speak.
- `Completeness` says that a plan exists at the end. Its proof would need a
  connected split of every target that survives pruning and the cost
  ceiling, in every visit order. That is an existence argument over the
  graph, and it is left to TLC.
- `CorrelatedNodesNotScanned` is violated by the code (`MCCorrelatedScan`).

## Fairness

- `JoinOrderEnumerator` and `QueryGraphCollection` assume weak fairness
  of `Next`. The planner is one sequential function call with no waits,
  so it keeps taking steps until it returns.
- The insert pipeline states no liveness. How many tuples arrive is up to
  the child operators.

## Not modelled

- **Join hints** (`info.hint`, lines 136-143). The join tree they
  describe is solved by `JoinPlanSolver`, which is not under `src/`.
- **`getBestPlan` and the context switch** of
  `planQueryGraphCollection(InNewContext)`. The cost comparison,
  `enterContext` and `exitContext` are not under `src/`. The model returns
  every plan the collection produces.
- **`skipInsert`** of the node and rel executors. Its caller, MERGE, is
  not under `src/`.
- **The batch callers of `TableData::insert`, and `update`, `addColumn`,
  `checkpointInMemory` and `rollbackInMemory`.** They forward to code that
  is not under `src/`. The hazard at `table_data.cpp:13` says why a batch
  would matter.
- **The remaining files.** They are declarations, switch tables or pure
  construction, with no state to check.
