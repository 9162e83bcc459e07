--------------------------- MODULE InsertPipeline ---------------------------
(***************************************************************************)
(* CREATE (n:T {pk: ...})-[:R]->(m) run tuple by tuple: NodeInsertExecutor *)
(* ::insert (insert_executor.cpp) inserts the node, or under ON CONFLICT DO *)
(* NOTHING binds the existing node with that key; NodeTable::insert hands   *)
(* the new offset to TableData::insert (table_data.cpp), which appends a   *)
(* node group when the offset lies past the existing ones; then             *)
(* RelInsertExecutor::insert creates the rel from the node ID vector the    *)
(* node insert left behind, unless an endpoint is null.  The vectors are    *)
(* reused from one tuple to the next.                                       *)
(***************************************************************************)
EXTENDS Integers, FiniteSets, Sequences

CONSTANTS
    PKs,             \* the primary-key values the input tuples carry
    NodeGroupSize,   \* StorageConstants::NODE_GROUP_SIZE
    MaxTuples,       \* the number of input tuples
    ConflictActions, \* the conflict actions the binder may give the executor
    NoValue          \* the content of a vector position never written

ASSUME InsertAssumption ==
    /\ IsFiniteSet(PKs) /\ PKs # {}
    /\ NodeGroupSize \in Nat \ {0}
    /\ MaxTuples \in Nat
    /\ ConflictActions \subseteq {"ON_CONFLICT_THROW", "ON_CONFLICT_DO_NOTHING"}
    /\ ConflictActions # {}
    /\ NoValue \notin PKs

INVALID_OFFSET == -1

VARIABLES
    conflictAction,  \* info.conflictAction
    pkIndex,         \* the primary-key index: key -> offset, INVALID_OFFSET if absent
    numNodes,        \* the nodes of the table, offsets 0 .. numNodes - 1
    numNodeGroups,   \* getNumNodeGroups(transaction)
    localUpdates,    \* offsets with column values in the transaction's local storage
    nodeIDVec,       \* info.nodeIDVector at its selected position
    nodeCol,         \* info.columnVectors: the projected key column of the node
    rels,            \* the rels inserted: source offset, destination offset, the tuple's key
    relColNull,      \* the null flag of the rel's projected column
    phase,           \* "node": next operator is the node insert; "rel"; "aborted"
    curPK,           \* the key of the current tuple
    tuples           \* tuples read so far

vars == <<conflictAction, pkIndex, numNodes, numNodeGroups, localUpdates, nodeIDVec,
          nodeCol, rels, relColNull, phase, curPK, tuples>>

Offsets == 0..Cardinality(PKs)
Vector(V) == [value : V, isNull : BOOLEAN]

(* StorageUtils::getStartOffsetOfNodeGroup *)
StartOffsetOfNodeGroup(g) == g * NodeGroupSize

(* Mutant: a group is appended only past the start of the missing group. *)
NumNodeGroupsAfterInsertStrict(sel) ==
    IF sel[Len(sel)] > StartOffsetOfNodeGroup(numNodeGroups)
    THEN numNodeGroups + 1 ELSE numNodeGroups

(***************************************************************************)
(* TableData::insert of the selected offsets, in selection order: append   *)
(* one node group when the last offset, assumed the largest, lies at or    *)
(* past the start of the first missing group, then write every column but  *)
(* the SERIAL ones to local storage.                                       *)
(***************************************************************************)
NumNodeGroupsAfterInsert(sel) ==
    IF sel[Len(sel)] >= StartOffsetOfNodeGroup(numNodeGroups)
    THEN numNodeGroups + 1 ELSE numNodeGroups

TableDataInsert(sel) ==
    /\ numNodeGroups' = NumNodeGroupsAfterInsert(sel)
    /\ localUpdates' = localUpdates \cup {sel[i] : i \in DOMAIN sel}

(* NodeInsertInfo::updateNodeID *)
UpdateNodeID(offset) == nodeIDVec' = [value |-> offset, isNull |-> FALSE]

(* writeColumnVector of the key column: copy the evaluated key, not null. *)
WriteColumnVectors(pk) == nodeCol' = [value |-> pk, isNull |-> FALSE]

(* validateUniquenessConstraint: the offset holding the key, or INVALID_OFFSET. *)
ValidateUniquenessConstraint(pk) == pkIndex[pk]

(* Mutant: the conflict test ignores the statement's conflict action. *)
CheckConflictAnyAction(pk) == ValidateUniquenessConstraint(pk) # INVALID_OFFSET

(* checkConflict, and the same test inline at the top of insert. *)
CheckConflict(pk) ==
    conflictAction = "ON_CONFLICT_DO_NOTHING" /\ ValidateUniquenessConstraint(pk) # INVALID_OFFSET

(* writeColumnVectorsToNull *)
WriteColumnVectorsToNull == relColNull' = TRUE

(* Mutant: the offset allocation skips one offset per node. *)
NodeTableInsertSkipOffset(pk) ==
    IF pkIndex[pk] # INVALID_OFFSET
    THEN /\ phase' = "aborted"
         /\ UNCHANGED <<pkIndex, numNodes, numNodeGroups, localUpdates, nodeIDVec, nodeCol>>
    ELSE /\ pkIndex' = [pkIndex EXCEPT ![pk] = numNodes]
         /\ numNodes' = numNodes + 2
         /\ UpdateNodeID(numNodes)
         /\ TableDataInsert(<<numNodes>>)
         /\ WriteColumnVectors(pk)
         /\ phase' = "rel"

(***************************************************************************)
(* NodeTable::insert: the key goes into the primary-key index, the next   *)
(* offset is written into the node ID vector and handed to TableData; a   *)
(* key already in the index throws, which aborts the query.               *)
(***************************************************************************)
NodeTableInsert(pk) ==
    IF pkIndex[pk] # INVALID_OFFSET
    THEN /\ phase' = "aborted"
         /\ UNCHANGED <<pkIndex, numNodes, numNodeGroups, localUpdates, nodeIDVec, nodeCol>>
    ELSE /\ pkIndex' = [pkIndex EXCEPT ![pk] = numNodes]
         /\ numNodes' = numNodes + 1
         /\ UpdateNodeID(numNodes)
         /\ TableDataInsert(<<numNodes>>)
         /\ WriteColumnVectors(pk)
         /\ phase' = "rel"

(* Mutant: the conflict path returns without updateNodeID. *)
NodeInsertNoRebind(pk) ==
    /\ phase = "node"
    /\ tuples < MaxTuples
    /\ tuples' = tuples + 1
    /\ curPK' = pk
    /\ IF CheckConflict(pk)
       THEN /\ phase' = "rel"
            /\ UNCHANGED <<pkIndex, numNodes, numNodeGroups, localUpdates, nodeCol, nodeIDVec>>
       ELSE NodeTableInsert(pk)
    /\ UNCHANGED <<conflictAction, rels, relColNull>>

(***************************************************************************)
(* NodeInsertExecutor::insert on one tuple.  Under ON CONFLICT DO NOTHING  *)
(* a key already present binds the node ID vector to the existing node and *)
(* returns before writeColumnVectors.  checkConflict then repeats the same *)
(* test on unchanged state, so it cannot fire and one CheckConflict stands *)
(* for both.                                                               *)
(***************************************************************************)
NodeInsert(pk) ==
    /\ phase = "node"
    /\ tuples < MaxTuples
    /\ tuples' = tuples + 1
    /\ curPK' = pk
    /\ IF CheckConflict(pk)
       THEN /\ UpdateNodeID(ValidateUniquenessConstraint(pk))
            /\ phase' = "rel"
            /\ UNCHANGED <<pkIndex, numNodes, numNodeGroups, localUpdates, nodeCol>>
       ELSE NodeTableInsert(pk)
    /\ UNCHANGED <<conflictAction, rels, relColNull>>

(***************************************************************************)
(* RelInsertExecutor::insert on one tuple: the source is the node ID       *)
(* vector, the destination a node matched earlier or null (OPTIONAL        *)
(* MATCH).  With a null endpoint the rel's columns are set null and        *)
(* nothing is inserted.                                                    *)
(***************************************************************************)
RelInsert(dst) ==
    /\ phase = "rel"
    /\ IF nodeIDVec.isNull \/ dst.isNull
       THEN /\ WriteColumnVectorsToNull
            /\ UNCHANGED rels
       ELSE /\ rels' = rels \cup {[src |-> nodeIDVec.value, dst |-> dst.value, pk |-> curPK]}
            /\ relColNull' = FALSE
    /\ phase' = "node"
    /\ UNCHANGED <<conflictAction, pkIndex, numNodes, numNodeGroups, localUpdates, nodeIDVec,
                   nodeCol, curPK, tuples>>

Init ==
    /\ conflictAction \in ConflictActions
    /\ pkIndex = [k \in PKs |-> INVALID_OFFSET]
    /\ numNodes = 0
    /\ numNodeGroups = 0
    /\ localUpdates = {}
    /\ nodeIDVec = [value |-> INVALID_OFFSET, isNull |-> TRUE]
    /\ nodeCol = [value |-> NoValue, isNull |-> TRUE]
    /\ rels = {}
    /\ relColNull = TRUE
    /\ phase = "node"
    /\ curPK = NoValue
    /\ tuples = 0

Next ==
    \/ \E pk \in PKs : NodeInsert(pk)
    \/ \E dst \in {[value |-> o, isNull |-> FALSE] : o \in 0..numNodes - 1}
                  \cup {[value |-> INVALID_OFFSET, isNull |-> TRUE]} :
           RelInsert(dst)

Spec == Init /\ [][Next]_vars

-----------------------------------------------------------------------------
(* Type invariant. *)
TypeOK ==
    /\ conflictAction \in ConflictActions
    /\ pkIndex \in [PKs -> Offsets \cup {INVALID_OFFSET}]
    /\ numNodes \in Offsets
    /\ numNodeGroups \in Nat
    /\ localUpdates \subseteq Offsets
    /\ nodeIDVec \in Vector(Offsets \cup {INVALID_OFFSET})
    /\ nodeCol \in Vector(PKs \cup {NoValue})
    /\ rels \subseteq [src : Offsets, dst : Offsets, pk : PKs]
    /\ relColNull \in BOOLEAN
    /\ phase \in {"node", "rel", "aborted"}
    /\ curPK \in PKs \cup {NoValue}
    /\ tuples \in 0..MaxTuples

(***************************************************************************)
(* Node-group allocation (TableData::insert, "lastOffset is the max one"): *)
(* every offset written to local storage lies in a node group that exists, *)
(* and no node group is appended before a node needs it.  Breaking it      *)
(* takes a run of inserts up to a group boundary.                          *)
(***************************************************************************)
StorageCovers ==
    /\ \A o \in localUpdates : o < StartOffsetOfNodeGroup(numNodeGroups)
    /\ numNodeGroups > 0 => StartOffsetOfNodeGroup(numNodeGroups - 1) < numNodes

(***************************************************************************)
(* A rel is created from the node its tuple's key names: the node ID       *)
(* vector RelInsertExecutor reads was set for this tuple by                *)
(* NodeInsertExecutor, by the insert or by updateNodeID on a conflict,     *)
(* never left over from the previous tuple; its destination is a node.     *)
(***************************************************************************)
RelEndpointsBound ==
    \A r \in rels : r.src = pkIndex[r.pk] /\ r.dst \in 0..numNodes - 1

(***************************************************************************)
(* After the node insert the projected key column holds this tuple's key,  *)
(* as writeColumnVectors leaves it on the insert path and skipInsert on    *)
(* the match path: the column vectors the next operator reads belong to    *)
(* the node the node ID vector names.                                      *)
(***************************************************************************)
OutputPKColumn ==
    phase = "rel" => nodeCol = [value |-> curPK, isNull |-> FALSE]

-----------------------------------------------------------------------------
(* The keys that hold a node in the primary-key index f. *)
UsedOf(f) == {k \in PKs : f[k] # INVALID_OFFSET}

(* The key whose node has offset o in the primary-key index f. *)
KeyOf(f, o) == CHOOSE k \in PKs : f[k] = o

(***************************************************************************)
(* The refinement mapping: the keys with a node, and each rel read back as *)
(* the keys of the nodes at its two stored offsets.  Offsets, node groups, *)
(* local storage and the vectors have no counterpart.                      *)
(***************************************************************************)
Abstract == INSTANCE KeyedCreate WITH
    keys <- UsedOf(pkIndex),
    edges <- {[from |-> KeyOf(pkIndex, r.src), to |-> KeyOf(pkIndex, r.dst)] : r \in rels},
    curKey <- curPK

(***************************************************************************)
(* The executors implement the keyed CREATE: a new key gets a node, a     *)
(* present key is bound under DO NOTHING and stops the query under THROW, *)
(* and every rel stored starts at the node of its tuple's key and ends at  *)
(* a node that exists.  It fails if a conflict is decided without the      *)
(* conflict action, or a rel is built from a stale node ID vector.         *)
(***************************************************************************)
ImplementsKeyedCreate == Abstract!Spec

=============================================================================
