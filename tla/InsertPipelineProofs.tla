------------------------ MODULE InsertPipelineProofs ------------------------
(***************************************************************************)
(* Proofs about the CREATE pipeline of InsertPipeline, for every set of    *)
(* keys, node-group size and number of tuples: node groups always cover    *)
(* the offsets written (TableData::insert), and every rel starts at the    *)
(* node its tuple's key names (NodeInsertExecutor / RelInsertExecutor),    *)
(* and the pipeline implements the keyed CREATE of KeyedCreate.            *)
(***************************************************************************)
EXTENDS InsertPipeline, FiniteSetTheorems, TLAPS

(***************************************************************************)
(* The inductive invariant.  The offsets handed out are exactly 0 ..       *)
(* numNodes - 1, one per used key; the node groups hold them without a     *)
(* spare group; between the node insert and the rel insert the node ID     *)
(* vector names the current key's node; every rel records the offset its  *)
(* key still maps to.                                                      *)
(***************************************************************************)
IInv ==
    /\ TypeOK
    /\ numNodes = Cardinality(UsedOf(pkIndex))
    /\ \A k \in UsedOf(pkIndex) : pkIndex[k] \in 0..numNodes - 1
    /\ localUpdates \subseteq 0..numNodes - 1
    /\ numNodes <= StartOffsetOfNodeGroup(numNodeGroups)
    /\ numNodeGroups > 0 => StartOffsetOfNodeGroup(numNodeGroups - 1) < numNodes
    /\ phase = "rel" =>
           /\ curPK \in UsedOf(pkIndex)
           /\ nodeIDVec = [value |-> pkIndex[curPK], isNull |-> FALSE]
    /\ \A r \in rels : r.pk \in UsedOf(pkIndex) /\ r.src = pkIndex[r.pk]
                       /\ r.dst \in 0..numNodes - 1

LEMMA PKsFinite == IsFiniteSet(PKs) /\ IsFiniteSet(UsedOf(pkIndex))
<1>1. IsFiniteSet(PKs)
    BY InsertAssumption
<1>2. UsedOf(pkIndex) \subseteq PKs
    BY DEF UsedOf
<1>3. QED
    BY <1>1, <1>2, FS_Subset

(* Inserting a fresh key adds exactly that key to the used keys. *)
LEMMA UsedAdd ==
    ASSUME NEW f \in [PKs -> Offsets \cup {INVALID_OFFSET}], NEW pk \in PKs,
           f[pk] = INVALID_OFFSET, NEW v \in Offsets
    PROVE  /\ UsedOf([f EXCEPT ![pk] = v]) = UsedOf(f) \cup {pk}
           /\ pk \notin UsedOf(f)
BY DEF UsedOf, Offsets, INVALID_OFFSET

(* ... and so adds one to their number, which stays within |PKs|. *)
LEMMA UsedCard ==
    ASSUME NEW U, U \subseteq PKs, NEW pk \in PKs, pk \notin U
    PROVE  /\ Cardinality(U \cup {pk}) = Cardinality(U) + 1
           /\ Cardinality(U \cup {pk}) <= Cardinality(PKs)
           /\ Cardinality(U) \in Nat
<1>1. IsFiniteSet(PKs) /\ IsFiniteSet(U)
    BY InsertAssumption, FS_Subset
<1>2. Cardinality(U \cup {pk}) = Cardinality(U) + 1
    BY <1>1, FS_AddElement
<1>3. Cardinality(U \cup {pk}) <= Cardinality(PKs)
    BY <1>1, FS_Subset
<1>4. QED
    BY <1>1, <1>2, <1>3, FS_CardinalityType

(***************************************************************************)
(* The arithmetic of the node-group append: if the groups hold offsets 0  *)
(* .. n - 1 without a spare one, the groups after inserting offset n hold  *)
(* 0 .. n without a spare one.                                             *)
(***************************************************************************)
LEMMA GroupAppend ==
    ASSUME NEW n \in Nat, NEW g \in Nat, NEW s \in Nat \ {0},
           n <= g * s, g > 0 => (g - 1) * s < n
    PROVE  LET g2 == IF n >= g * s THEN g + 1 ELSE g
           IN  /\ g2 \in Nat
               /\ n + 1 <= g2 * s
               /\ g2 > 0 => (g2 - 1) * s < n + 1
<1> DEFINE g2 == IF n >= g * s THEN g + 1 ELSE g
<1>1. CASE n >= g * s
    <2>1. n = g * s
        BY <1>1
    <2>2. n + 1 <= (g + 1) * s
        BY <2>1
    <2>3. QED
        BY <1>1, <2>1, <2>2
<1>2. CASE ~(n >= g * s)
    <2>1. g > 0
        BY <1>2
    <2>2. QED
        BY <1>2, <2>1
<1>3. QED
    BY <1>1, <1>2

-----------------------------------------------------------------------------
LEMMA InitIInv == Init => IInv
<1> SUFFICES ASSUME Init PROVE IInv
    OBVIOUS
<1>1. UsedOf(pkIndex) = {}
    BY DEF Init, UsedOf, INVALID_OFFSET
<1>2. Cardinality(PKs) \in Nat
    BY InsertAssumption, FS_CardinalityType
<1>3. TypeOK
    BY <1>2, InsertAssumption
       DEF Init, TypeOK, Offsets, Vector, INVALID_OFFSET
<1>4. QED
    BY <1>1, <1>3, FS_EmptySet, InsertAssumption DEF Init, IInv, StartOffsetOfNodeGroup

(* A node insert that meets an existing key under ON CONFLICT DO NOTHING. *)
LEMMA ConflictIInv ==
    ASSUME IInv, NEW pk \in PKs, NodeInsert(pk), CheckConflict(pk)
    PROVE  IInv'
<1>1. /\ UNCHANGED <<conflictAction, pkIndex, numNodes, numNodeGroups, localUpdates,
                     nodeCol, rels, relColNull>>
      /\ nodeIDVec' = [value |-> pkIndex[pk], isNull |-> FALSE]
      /\ phase' = "rel" /\ curPK' = pk /\ tuples' = tuples + 1 /\ tuples < MaxTuples
    BY DEF NodeInsert, UpdateNodeID, CheckConflict, ValidateUniquenessConstraint
<1>2. pk \in UsedOf(pkIndex)
    BY DEF CheckConflict, ValidateUniquenessConstraint, UsedOf
<1>3. pkIndex[pk] \in Offsets
    BY <1>2 DEF IInv, TypeOK, UsedOf
<1>4. TypeOK'
    <2>1. nodeIDVec' \in Vector(Offsets \cup {INVALID_OFFSET})
        BY <1>1, <1>3 DEF Vector
    <2>2. tuples' \in 0..MaxTuples
        BY <1>1, InsertAssumption DEF IInv, TypeOK
    <2>3. QED
        BY <1>1, <2>1, <2>2 DEF IInv, TypeOK
<1>5. QED
    BY <1>1, <1>2, <1>4 DEF IInv

(* A node insert of an existing key without DO NOTHING: the query aborts. *)
LEMMA AbortIInv ==
    ASSUME IInv, NEW pk \in PKs, NodeInsert(pk), ~CheckConflict(pk),
           pkIndex[pk] # INVALID_OFFSET
    PROVE  IInv'
<1>1. /\ UNCHANGED <<conflictAction, pkIndex, numNodes, numNodeGroups, localUpdates,
                     nodeIDVec, nodeCol, rels, relColNull>>
      /\ phase' = "aborted" /\ curPK' = pk /\ tuples' = tuples + 1 /\ tuples < MaxTuples
    BY DEF NodeInsert, NodeTableInsert
<1>2. tuples' \in 0..MaxTuples
    BY <1>1, InsertAssumption DEF IInv, TypeOK
<1>3. TypeOK'
    BY <1>1, <1>2 DEF IInv, TypeOK
<1>4. QED
    BY <1>1, <1>3 DEF IInv

(* A node insert of a fresh key: a new offset, perhaps a new node group. *)
LEMMA FreshIInv ==
    ASSUME IInv, NEW pk \in PKs, NodeInsert(pk), ~CheckConflict(pk),
           pkIndex[pk] = INVALID_OFFSET
    PROVE  IInv'
<1> DEFINE U == UsedOf(pkIndex)
<1>1. /\ pkIndex' = [pkIndex EXCEPT ![pk] = numNodes]
      /\ numNodes' = numNodes + 1
      /\ nodeIDVec' = [value |-> numNodes, isNull |-> FALSE]
      /\ numNodeGroups' = NumNodeGroupsAfterInsert(<<numNodes>>)
      /\ localUpdates' = localUpdates \cup {numNodes}
      /\ nodeCol' = [value |-> pk, isNull |-> FALSE]
      /\ phase' = "rel" /\ curPK' = pk /\ tuples' = tuples + 1 /\ tuples < MaxTuples
      /\ UNCHANGED <<conflictAction, rels, relColNull>>
    BY DEF NodeInsert, NodeTableInsert, UpdateNodeID, TableDataInsert, WriteColumnVectors
<1>2. /\ U \subseteq PKs /\ pk \notin U
      /\ Cardinality(U \cup {pk}) = numNodes + 1
      /\ numNodes + 1 <= Cardinality(PKs)
      /\ numNodes \in Nat
    BY UsedCard DEF IInv, UsedOf
<1>0. /\ pkIndex \in [PKs -> Offsets \cup {INVALID_OFFSET}]
      /\ Cardinality(PKs) \in Nat
    BY PKsFinite, FS_CardinalityType DEF IInv, TypeOK
<1>3. numNodes \in Offsets
    BY <1>0, <1>2 DEF Offsets
<1>4. UsedOf(pkIndex') = U \cup {pk}
    BY <1>1, <1>3, UsedAdd DEF IInv, TypeOK
<1>5. numNodes + 1 \in Offsets
    BY <1>0, <1>2 DEF Offsets
<1>6. /\ numNodeGroups' \in Nat
      /\ numNodes' <= StartOffsetOfNodeGroup(numNodeGroups')
      /\ numNodeGroups' > 0 => StartOffsetOfNodeGroup(numNodeGroups' - 1) < numNodes'
    <2>1. numNodeGroups' = IF numNodes >= numNodeGroups * NodeGroupSize
                           THEN numNodeGroups + 1 ELSE numNodeGroups
        BY <1>1 DEF NumNodeGroupsAfterInsert, StartOffsetOfNodeGroup
    <2>2. numNodeGroups \in Nat /\ NodeGroupSize \in Nat \ {0}
        BY InsertAssumption DEF IInv, TypeOK
    <2>3. QED
        BY <1>1, <1>2, <2>1, <2>2, GroupAppend DEF IInv, StartOffsetOfNodeGroup
<1>7. /\ \A k \in PKs : k # pk => pkIndex'[k] = pkIndex[k]
      /\ pkIndex'[pk] = numNodes
    BY <1>0, <1>1
<1>8. TypeOK'
    <2>1. pkIndex' \in [PKs -> Offsets \cup {INVALID_OFFSET}]
        BY <1>1, <1>3 DEF IInv, TypeOK
    <2>2. localUpdates' \subseteq Offsets
        BY <1>1, <1>3 DEF IInv, TypeOK
    <2>3. nodeIDVec' \in Vector(Offsets \cup {INVALID_OFFSET})
        BY <1>1, <1>3 DEF Vector
    <2>4. nodeCol' \in Vector(PKs \cup {NoValue})
        BY <1>1 DEF Vector
    <2>5. rels' \subseteq [src : Offsets, dst : Offsets, pk : PKs]
        BY <1>1 DEF IInv, TypeOK
    <2>6. tuples' \in 0..MaxTuples
        BY <1>1, InsertAssumption DEF IInv, TypeOK
    <2>7. QED
        BY <1>1, <1>5, <1>6, <2>1, <2>2, <2>3, <2>4, <2>5, <2>6 DEF IInv, TypeOK
<1>9. \A k \in UsedOf(pkIndex') : pkIndex'[k] \in 0..numNodes' - 1
    <2>1. \A k \in U : pkIndex[k] \in 0..numNodes - 1
        BY DEF IInv
    <2>2. QED
        BY <1>1, <1>2, <1>4, <1>7, <2>1
<1>10. \A r \in rels' : r.pk \in UsedOf(pkIndex') /\ r.src = pkIndex'[r.pk]
                        /\ r.dst \in 0..numNodes' - 1
    <2>1. \A r \in rels : r.pk \in U /\ r.src = pkIndex[r.pk] /\ r.dst \in 0..numNodes - 1
        BY DEF IInv
    <2>2. \A r \in rels : r.pk # pk
        BY <1>2, <2>1
    <2>3. SUFFICES ASSUME NEW r \in rels
                   PROVE  r.pk \in UsedOf(pkIndex') /\ r.src = pkIndex'[r.pk]
                          /\ r.dst \in 0..numNodes' - 1
        BY <1>1
    <2>4. r.pk \in U /\ r.pk \in PKs /\ r.pk # pk
        BY <1>2, <2>1, <2>2
    <2>5. pkIndex'[r.pk] = pkIndex[r.pk]
        BY <2>4, <1>7
    <2>6. r.pk \in UsedOf(pkIndex')
        BY <1>4, <2>4
    <2>7. r.src = pkIndex'[r.pk]
        BY <2>1, <2>5
    <2>8. r.dst \in 0..numNodes' - 1
        BY <1>1, <1>2, <2>1
    <2>9. QED
        BY <2>6, <2>7, <2>8
<1>11. localUpdates' \subseteq 0..numNodes' - 1
    <2>1. localUpdates \subseteq 0..numNodes - 1
        BY DEF IInv
    <2>2. QED
        BY <1>1, <1>2, <2>1
<1>12. phase' = "rel" => /\ curPK' \in UsedOf(pkIndex')
                         /\ nodeIDVec' = [value |-> pkIndex'[curPK'], isNull |-> FALSE]
    BY <1>1, <1>4, <1>7
<1>13. QED
    BY <1>2, <1>4, <1>6, <1>8, <1>9, <1>10, <1>11, <1>12, <1>1 DEF IInv

(* A rel insert: it reads the node ID vector the node insert left. *)
LEMMA RelIIv ==
    ASSUME IInv, NEW dst \in {[value |-> o, isNull |-> FALSE] : o \in 0..numNodes - 1}
                             \cup {[value |-> INVALID_OFFSET, isNull |-> TRUE]},
           RelInsert(dst)
    PROVE  IInv'
<1>1. /\ phase = "rel" /\ phase' = "node"
      /\ UNCHANGED <<conflictAction, pkIndex, numNodes, numNodeGroups, localUpdates,
                     nodeIDVec, nodeCol, curPK, tuples>>
      /\ relColNull' \in BOOLEAN
      /\ \/ rels' = rels
         \/ /\ ~dst.isNull /\ ~nodeIDVec.isNull
            /\ rels' = rels \cup {[src |-> nodeIDVec.value, dst |-> dst.value, pk |-> curPK]}
    BY DEF RelInsert, WriteColumnVectorsToNull
<1>2. /\ curPK \in UsedOf(pkIndex)
      /\ nodeIDVec = [value |-> pkIndex[curPK], isNull |-> FALSE]
    BY <1>1 DEF IInv
<1>3. ~dst.isNull => dst.value \in 0..numNodes - 1
    OBVIOUS
<1>4. numNodes \in Offsets /\ pkIndex \in [PKs -> Offsets \cup {INVALID_OFFSET}]
    BY DEF IInv, TypeOK
<1>5. \A r \in rels' : r.pk \in UsedOf(pkIndex') /\ r.src = pkIndex'[r.pk]
                       /\ r.dst \in 0..numNodes' - 1
    BY <1>1, <1>2, <1>3 DEF IInv
<1>6. rels' \subseteq [src : Offsets, dst : Offsets, pk : PKs]
    <2>1. pkIndex[curPK] \in Offsets
        BY <1>2, <1>4 DEF UsedOf
    <2>2. ~dst.isNull => dst.value \in Offsets
        BY <1>3, <1>4, PKsFinite, FS_CardinalityType DEF Offsets
    <2>3. curPK \in PKs
        BY <1>2 DEF UsedOf
    <2>4. QED
        BY <1>1, <1>2, <2>1, <2>2, <2>3 DEF IInv, TypeOK
<1>7. TypeOK'
    BY <1>1, <1>6 DEF IInv, TypeOK
<1>8. QED
    BY <1>1, <1>5, <1>7 DEF IInv

LEMMA NextIInv == IInv /\ [Next]_vars => IInv'
<1> SUFFICES ASSUME IInv, [Next]_vars PROVE IInv'
    OBVIOUS
<1>1. ASSUME NEW pk \in PKs, NodeInsert(pk) PROVE IInv'
    <2>1. CASE CheckConflict(pk)
        BY <1>1, <2>1, ConflictIInv
    <2>2. CASE ~CheckConflict(pk) /\ pkIndex[pk] # INVALID_OFFSET
        BY <1>1, <2>2, AbortIInv
    <2>3. CASE ~CheckConflict(pk) /\ pkIndex[pk] = INVALID_OFFSET
        BY <1>1, <2>3, FreshIInv
    <2>4. QED
        BY <2>1, <2>2, <2>3
<1>2. ASSUME NEW dst \in {[value |-> o, isNull |-> FALSE] : o \in 0..numNodes - 1}
                         \cup {[value |-> INVALID_OFFSET, isNull |-> TRUE]},
             RelInsert(dst)
      PROVE  IInv'
    BY <1>2, RelIIv
<1>3. CASE UNCHANGED vars
    BY <1>3 DEF IInv, TypeOK, UsedOf, vars
<1>4. QED
    BY <1>1, <1>2, <1>3 DEF Next

(* The invariant gives both properties the run checks. *)
LEMMA IInvProperties == IInv => StorageCovers /\ RelEndpointsBound
<1> SUFFICES ASSUME IInv PROVE StorageCovers /\ RelEndpointsBound
    OBVIOUS
<1>1. numNodes \in Nat /\ numNodeGroups \in Nat /\ NodeGroupSize \in Nat
    BY InsertAssumption DEF IInv, TypeOK, Offsets
<1>2. StorageCovers
    BY <1>1 DEF IInv, StorageCovers, StartOffsetOfNodeGroup
<1>3. RelEndpointsBound
    BY DEF IInv, RelEndpointsBound
<1>4. QED
    BY <1>2, <1>3

(***************************************************************************)
(* TableData::insert appends node groups exactly as the node offsets       *)
(* NodeTable hands out need them: every offset written to local storage    *)
(* lies in an existing node group and no group is appended ahead of its    *)
(* first node, for every node-group size and number of tuples.             *)
(***************************************************************************)
THEOREM NodeGroupsCoverOffsets == Spec => []StorageCovers
<1>1. Spec => []IInv
    BY InitIInv, NextIInv, PTL DEF Spec
<1>2. QED
    BY <1>1, IInvProperties, PTL

(***************************************************************************)
(* The rel RelInsertExecutor creates always starts at the node its tuple's *)
(* key names, on the insert path and on the ON CONFLICT DO NOTHING path    *)
(* alike: NodeInsertExecutor never leaves a stale node ID behind.          *)
(***************************************************************************)
THEOREM RelsStartAtTheirKey == Spec => []RelEndpointsBound
<1>1. Spec => []IInv
    BY InitIInv, NextIInv, PTL DEF Spec
<1>2. QED
    BY <1>1, IInvProperties, PTL

(* The type invariant holds in every reachable state. *)
THEOREM InsertTypeCorrect == Spec => []TypeOK
<1>1. Spec => []IInv
    BY InitIInv, NextIInv, PTL DEF Spec
<1>2. IInv => TypeOK
    BY DEF IInv
<1>3. QED
    BY <1>1, <1>2, PTL
-----------------------------------------------------------------------------
(***************************************************************************)
(* The refinement.  KeyOf reads a node's key back from its offset, so the  *)
(* mapping needs offsets and used keys to correspond one to one: no two    *)
(* keys share an offset, and every offset below numNodes belongs to one.   *)
(***************************************************************************)
Injective(f) == \A k1, k2 \in UsedOf(f) : f[k1] = f[k2] => k1 = k2

OffsetsOnto == \A o \in 0..numNodes - 1 : \E k \in UsedOf(pkIndex) : pkIndex[k] = o

RInv == IInv /\ Injective(pkIndex) /\ OffsetsOnto

(* In an injective index, the key read back from a used key's offset is that key. *)
LEMMA KeyOfIndex ==
    ASSUME NEW f \in [PKs -> Offsets \cup {INVALID_OFFSET}], NEW k \in UsedOf(f),
           Injective(f)
    PROVE  (CHOOSE j \in PKs : f[j] = f[k]) = k
<1>1. k \in PKs /\ f[k] # INVALID_OFFSET
    BY DEF UsedOf
<1>2. \A j \in PKs : f[j] = f[k] => j \in UsedOf(f)
    BY <1>1 DEF UsedOf
<1>3. \A j \in PKs : f[j] = f[k] => j = k
    BY <1>2 DEF Injective
<1>4. QED
    BY <1>1, <1>3

LEMMA InitRInv == Init => RInv
<1> SUFFICES ASSUME Init PROVE RInv
    OBVIOUS
<1>1. UsedOf(pkIndex) = {} /\ numNodes = 0
    BY DEF Init, UsedOf, INVALID_OFFSET
<1>2. QED
    BY <1>1, InitIInv DEF RInv, Injective, OffsetsOnto

(* Only a fresh node insert changes the index: it gives the new key the   *)
(* offset numNodes, which no used key holds.                              *)
LEMMA FreshRInv ==
    ASSUME RInv, NEW pk \in PKs, NodeInsert(pk), ~CheckConflict(pk),
           pkIndex[pk] = INVALID_OFFSET
    PROVE  Injective(pkIndex') /\ OffsetsOnto'
<1>1. /\ pkIndex' = [pkIndex EXCEPT ![pk] = numNodes]
      /\ numNodes' = numNodes + 1
    BY DEF NodeInsert, NodeTableInsert
<1>2. /\ pkIndex \in [PKs -> Offsets \cup {INVALID_OFFSET}]
      /\ \A k \in UsedOf(pkIndex) : pkIndex[k] \in 0..numNodes - 1
      /\ numNodes \in Nat
    BY DEF RInv, IInv, TypeOK, Offsets
<1>3. numNodes \in Offsets
    BY <1>1, FreshIInv DEF RInv, IInv, TypeOK
<1>4. UsedOf(pkIndex') = UsedOf(pkIndex) \cup {pk} /\ pk \notin UsedOf(pkIndex)
    BY <1>1, <1>2, <1>3, UsedAdd
<1>5. /\ \A k \in PKs : k # pk => pkIndex'[k] = pkIndex[k]
      /\ pkIndex'[pk] = numNodes
    BY <1>1, <1>2
<1>6. Injective(pkIndex')
    <2> SUFFICES ASSUME NEW k1 \in UsedOf(pkIndex'), NEW k2 \in UsedOf(pkIndex'),
                        pkIndex'[k1] = pkIndex'[k2]
                 PROVE  k1 = k2
        BY DEF Injective
    <2>1. CASE k1 = pk /\ k2 = pk
        BY <2>1
    <2>2. CASE k1 # pk /\ k2 # pk
        BY <2>2, <1>4, <1>5 DEF RInv, Injective, UsedOf
    <2>3. CASE k1 = pk /\ k2 # pk
        <3>1. k2 \in UsedOf(pkIndex) /\ k2 \in PKs
            BY <2>3, <1>4 DEF UsedOf
        <3>2. pkIndex'[k2] \in 0..numNodes - 1
            BY <3>1, <2>3, <1>2, <1>5
        <3>3. QED
            BY <3>2, <2>3, <1>5
    <2>4. CASE k1 # pk /\ k2 = pk
        <3>1. k1 \in UsedOf(pkIndex) /\ k1 \in PKs
            BY <2>4, <1>4 DEF UsedOf
        <3>2. pkIndex'[k1] \in 0..numNodes - 1
            BY <3>1, <2>4, <1>2, <1>5
        <3>3. QED
            BY <3>2, <2>4, <1>5
    <2>5. QED
        BY <2>1, <2>2, <2>3, <2>4
<1>7. OffsetsOnto'
    <2> SUFFICES ASSUME NEW o \in 0..numNodes' - 1
                 PROVE  \E k \in UsedOf(pkIndex') : pkIndex'[k] = o
        BY DEF OffsetsOnto
    <2>1. CASE o = numNodes
        BY <2>1, <1>4, <1>5
    <2>2. CASE o # numNodes
        <3>1. o \in 0..numNodes - 1
            BY <2>2, <1>1, <1>2
        <3>2. PICK k \in UsedOf(pkIndex) : pkIndex[k] = o
            BY <3>1 DEF RInv, OffsetsOnto
        <3>3. k # pk /\ k \in PKs
            BY <1>4 DEF UsedOf
        <3>4. QED
            BY <3>2, <3>3, <1>4, <1>5
    <2>3. QED
        BY <2>1, <2>2
<1>8. QED
    BY <1>6, <1>7

LEMMA NextRInv == RInv /\ [Next]_vars => RInv'
<1> SUFFICES ASSUME RInv, [Next]_vars PROVE RInv'
    OBVIOUS
<1>1. IInv'
    BY NextIInv DEF RInv
<1>2. ASSUME NEW pk \in PKs, NodeInsert(pk), ~CheckConflict(pk),
             pkIndex[pk] = INVALID_OFFSET
      PROVE  RInv'
    BY <1>1, <1>2, FreshRInv DEF RInv
<1>3. ASSUME UNCHANGED <<pkIndex, numNodes>> PROVE RInv'
    BY <1>1, <1>3 DEF RInv, Injective, OffsetsOnto, UsedOf
<1>4. ASSUME NEW pk \in PKs, NodeInsert(pk),
             CheckConflict(pk) \/ pkIndex[pk] # INVALID_OFFSET
      PROVE  UNCHANGED <<pkIndex, numNodes>>
    BY <1>4 DEF NodeInsert, NodeTableInsert
<1>5. ASSUME NEW dst, RelInsert(dst) PROVE UNCHANGED <<pkIndex, numNodes>>
    BY <1>5 DEF RelInsert
<1>6. QED
    BY <1>2, <1>3, <1>4, <1>5 DEF Next, vars

(* Under the one-to-one correspondence, KeyOf inverts the index. *)
LEMMA KeyOfUsed ==
    ASSUME NEW f \in [PKs -> Offsets \cup {INVALID_OFFSET}], Injective(f),
           NEW k \in UsedOf(f)
    PROVE  KeyOf(f, f[k]) = k
BY KeyOfIndex DEF KeyOf

LEMMA KeyOfOffset ==
    ASSUME RInv, NEW o \in 0..numNodes - 1
    PROVE  KeyOf(pkIndex, o) \in UsedOf(pkIndex) /\ pkIndex[KeyOf(pkIndex, o)] = o
<1>1. PICK k \in UsedOf(pkIndex) : pkIndex[k] = o
    BY DEF RInv, OffsetsOnto
<1>2. pkIndex \in [PKs -> Offsets \cup {INVALID_OFFSET}] /\ Injective(pkIndex)
    BY DEF RInv, IInv, TypeOK
<1>3. QED
    BY <1>1, <1>2, KeyOfUsed

(* The abstract rels: every stored rel read back through KeyOf. *)
EdgesOf(f, R) == {[from |-> KeyOf(f, r.src), to |-> KeyOf(f, r.dst)] : r \in R}

(* A fresh node insert gives a new offset, so the rels read back the same. *)
LEMMA FreshEdges ==
    ASSUME RInv, RInv', NEW pk \in PKs, NodeInsert(pk), ~CheckConflict(pk),
           pkIndex[pk] = INVALID_OFFSET
    PROVE  EdgesOf(pkIndex', rels') = EdgesOf(pkIndex, rels)
<1>1. /\ pkIndex' = [pkIndex EXCEPT ![pk] = numNodes]
      /\ rels' = rels
    BY DEF NodeInsert, NodeTableInsert
<1>2. /\ pkIndex \in [PKs -> Offsets \cup {INVALID_OFFSET}] /\ Injective(pkIndex)
      /\ pkIndex' \in [PKs -> Offsets \cup {INVALID_OFFSET}] /\ Injective(pkIndex')
    BY DEF RInv, IInv, TypeOK
<1>3. UsedOf(pkIndex) \subseteq UsedOf(pkIndex')
    BY <1>1, <1>2 DEF UsedOf, Offsets, INVALID_OFFSET
<1>4. \A k \in UsedOf(pkIndex) : pkIndex'[k] = pkIndex[k]
    BY <1>1, <1>2 DEF UsedOf
<1>5. \A k \in UsedOf(pkIndex) : KeyOf(pkIndex', pkIndex[k]) = KeyOf(pkIndex, pkIndex[k])
    <2> SUFFICES ASSUME NEW k \in UsedOf(pkIndex)
                 PROVE  KeyOf(pkIndex', pkIndex[k]) = KeyOf(pkIndex, pkIndex[k])
        OBVIOUS
    <2>1. KeyOf(pkIndex, pkIndex[k]) = k
        BY <1>2, KeyOfUsed
    <2>2. KeyOf(pkIndex', pkIndex'[k]) = k
        BY <1>2, <1>3, KeyOfUsed
    <2>3. QED
        BY <1>4, <2>1, <2>2
<1>6. ASSUME NEW r \in rels
      PROVE  /\ KeyOf(pkIndex', r.src) = KeyOf(pkIndex, r.src)
             /\ KeyOf(pkIndex', r.dst) = KeyOf(pkIndex, r.dst)
    <2>1. r.pk \in UsedOf(pkIndex) /\ r.src = pkIndex[r.pk] /\ r.dst \in 0..numNodes - 1
        BY <1>6 DEF RInv, IInv
    <2>2. KeyOf(pkIndex, r.dst) \in UsedOf(pkIndex) /\ pkIndex[KeyOf(pkIndex, r.dst)] = r.dst
        BY <2>1, KeyOfOffset
    <2>3. QED
        BY <1>5, <2>1, <2>2
<1>7. QED
    BY <1>1, <1>6 DEF EdgesOf

(* A rel insert with both endpoints set adds the edge between their keys. *)
LEMMA RelEdge ==
    ASSUME RInv, NEW o \in 0..numNodes - 1,
           RelInsert([value |-> o, isNull |-> FALSE])
    PROVE  /\ EdgesOf(pkIndex', rels')
                = EdgesOf(pkIndex, rels) \cup {[from |-> curPK, to |-> KeyOf(pkIndex, o)]}
           /\ KeyOf(pkIndex, o) \in UsedOf(pkIndex)
<1>1. /\ phase = "rel"
      /\ curPK \in UsedOf(pkIndex)
      /\ nodeIDVec = [value |-> pkIndex[curPK], isNull |-> FALSE]
    BY DEF RelInsert, RInv, IInv
<1>2. /\ rels' = rels \cup {[src |-> pkIndex[curPK], dst |-> o, pk |-> curPK]}
      /\ pkIndex' = pkIndex
    BY <1>1 DEF RelInsert
<1>3. KeyOf(pkIndex, pkIndex[curPK]) = curPK
    BY <1>1, KeyOfUsed DEF RInv, IInv, TypeOK
<1>4. KeyOf(pkIndex, o) \in UsedOf(pkIndex)
    BY KeyOfOffset
<1> DEFINE nr == [src |-> pkIndex[curPK], dst |-> o, pk |-> curPK]
<1>5. EdgesOf(pkIndex', rels') = EdgesOf(pkIndex, rels \cup {nr})
    BY <1>2
<1>6. EdgesOf(pkIndex, rels \cup {nr})
        = EdgesOf(pkIndex, rels) \cup {[from |-> KeyOf(pkIndex, nr.src), to |-> KeyOf(pkIndex, nr.dst)]}
    BY DEF EdgesOf
<1>7. nr.src = pkIndex[curPK] /\ nr.dst = o
    OBVIOUS
<1>8. QED
    BY <1>3, <1>4, <1>5, <1>6, <1>7

(* The mapping's edges are EdgesOf the index and the rels, in both states. *)
LEMMA EdgesMapping ==
    /\ {[from |-> KeyOf(pkIndex, r.src), to |-> KeyOf(pkIndex, r.dst)] : r \in rels}
         = EdgesOf(pkIndex, rels)
    /\ {[from |-> KeyOf(pkIndex', r.src), to |-> KeyOf(pkIndex', r.dst)] : r \in rels'}
         = EdgesOf(pkIndex', rels')
BY DEF EdgesOf

(***************************************************************************)
(* Every step of the executors is a step of the keyed CREATE: a conflict   *)
(* under DO NOTHING binds, one under THROW aborts, a fresh key creates its *)
(* node, a rel insert creates the edge between the keys or is skipped.     *)
(***************************************************************************)
LEMMA RefineStep == RInv /\ RInv' /\ [Next]_vars => [Abstract!Next]_Abstract!avars
<1> SUFFICES ASSUME RInv, RInv', [Next]_vars PROVE [Abstract!Next]_Abstract!avars
    OBVIOUS
<1> USE EdgesMapping
<1>0. /\ pkIndex \in [PKs -> Offsets \cup {INVALID_OFFSET}]
      /\ conflictAction \in {"ON_CONFLICT_THROW", "ON_CONFLICT_DO_NOTHING"}
    BY InsertAssumption DEF RInv, IInv, TypeOK
<1>1. ASSUME NEW pk \in PKs, NodeInsert(pk), CheckConflict(pk)
      PROVE  Abstract!BindExisting(pk)
    <2>1. /\ phase = "node" /\ tuples < MaxTuples /\ tuples' = tuples + 1 /\ curPK' = pk
          /\ phase' = "rel" /\ UNCHANGED <<conflictAction, pkIndex, rels>>
        BY <1>1 DEF NodeInsert, CheckConflict
    <2>2. conflictAction = "ON_CONFLICT_DO_NOTHING" /\ pk \in UsedOf(pkIndex)
        BY <1>1 DEF CheckConflict, ValidateUniquenessConstraint, UsedOf
    <2>3. QED
        BY <2>1, <2>2 DEF Abstract!BindExisting, Abstract!ReadTuple, EdgesOf, UsedOf
<1>2. ASSUME NEW pk \in PKs, NodeInsert(pk), ~CheckConflict(pk),
             pkIndex[pk] # INVALID_OFFSET
      PROVE  Abstract!Abort(pk)
    <2>1. /\ phase = "node" /\ tuples < MaxTuples /\ tuples' = tuples + 1 /\ curPK' = pk
          /\ phase' = "aborted" /\ UNCHANGED <<conflictAction, pkIndex, rels>>
        BY <1>2 DEF NodeInsert, NodeTableInsert
    <2>2. conflictAction = "ON_CONFLICT_THROW" /\ pk \in UsedOf(pkIndex)
        BY <1>0, <1>2 DEF CheckConflict, ValidateUniquenessConstraint, UsedOf
    <2>3. QED
        BY <2>1, <2>2 DEF Abstract!Abort, Abstract!ReadTuple, EdgesOf, UsedOf
<1>3. ASSUME NEW pk \in PKs, NodeInsert(pk), ~CheckConflict(pk),
             pkIndex[pk] = INVALID_OFFSET
      PROVE  Abstract!CreateNode(pk)
    <2>1. /\ phase = "node" /\ tuples < MaxTuples /\ tuples' = tuples + 1 /\ curPK' = pk
          /\ phase' = "rel" /\ UNCHANGED conflictAction
          /\ pkIndex' = [pkIndex EXCEPT ![pk] = numNodes]
        BY <1>3 DEF NodeInsert, NodeTableInsert
    <2>2. numNodes \in Offsets
        BY <1>3, FreshIInv DEF RInv, IInv, TypeOK
    <2>3. UsedOf(pkIndex') = UsedOf(pkIndex) \cup {pk} /\ pk \notin UsedOf(pkIndex)
        BY <1>0, <1>3, <2>1, <2>2, UsedAdd
    <2>4. EdgesOf(pkIndex', rels') = EdgesOf(pkIndex, rels)
        BY <1>3, FreshEdges
    <2>5. QED
        BY <2>1, <2>3, <2>4 DEF Abstract!CreateNode, Abstract!ReadTuple
<1>4. ASSUME NEW o \in 0..numNodes - 1, RelInsert([value |-> o, isNull |-> FALSE])
      PROVE  Abstract!CreateRel(KeyOf(pkIndex, o))
    <2>1. /\ phase = "rel" /\ phase' = "node"
          /\ UNCHANGED <<conflictAction, pkIndex, curPK, tuples>>
        BY <1>4 DEF RelInsert
    <2>2. /\ EdgesOf(pkIndex', rels')
               = EdgesOf(pkIndex, rels) \cup {[from |-> curPK, to |-> KeyOf(pkIndex, o)]}
          /\ KeyOf(pkIndex, o) \in UsedOf(pkIndex)
        BY <1>4, RelEdge
    <2>3. UsedOf(pkIndex') = UsedOf(pkIndex)
        BY <2>1 DEF UsedOf
    <2>4. QED
        BY <2>1, <2>2, <2>3 DEF Abstract!CreateRel
<1>5. ASSUME RelInsert([value |-> INVALID_OFFSET, isNull |-> TRUE])
      PROVE  Abstract!SkipRel
    <2>1. /\ phase = "rel" /\ phase' = "node"
          /\ UNCHANGED <<conflictAction, pkIndex, rels, curPK, tuples>>
        BY <1>5 DEF RelInsert, WriteColumnVectorsToNull
    <2>2. QED
        BY <2>1 DEF Abstract!SkipRel, EdgesOf, UsedOf
<1>6. CASE UNCHANGED vars
    BY <1>6 DEF vars, Abstract!avars, EdgesOf, UsedOf
<1>7. QED
    <2>1. ASSUME NEW pk \in PKs, NodeInsert(pk) PROVE Abstract!Next
        BY <2>1, <1>1, <1>2, <1>3 DEF Abstract!Next
    <2>2. ASSUME NEW o \in 0..numNodes - 1, RelInsert([value |-> o, isNull |-> FALSE])
          PROVE  Abstract!Next
        <3>1. KeyOf(pkIndex, o) \in UsedOf(pkIndex)
            BY RelEdge, <2>2
        <3>2. QED
            BY <3>1, <2>2, <1>4 DEF Abstract!Next
    <2>3. CASE \E pk \in PKs : NodeInsert(pk)
        BY <2>3, <2>1
    <2>4. CASE \E dst \in {[value |-> o, isNull |-> FALSE] : o \in 0..numNodes - 1}
                         \cup {[value |-> INVALID_OFFSET, isNull |-> TRUE]} : RelInsert(dst)
        <3>1. PICK dst \in {[value |-> o, isNull |-> FALSE] : o \in 0..numNodes - 1}
                         \cup {[value |-> INVALID_OFFSET, isNull |-> TRUE]} : RelInsert(dst)
            BY <2>4
        <3>2. CASE dst = [value |-> INVALID_OFFSET, isNull |-> TRUE]
            BY <3>1, <3>2, <1>5 DEF Abstract!Next
        <3>3. CASE \E o \in 0..numNodes - 1 : dst = [value |-> o, isNull |-> FALSE]
            BY <3>1, <3>3, <2>2
        <3>4. QED
            BY <3>1, <3>2, <3>3
    <2>5. QED
        BY <2>3, <2>4, <1>6 DEF Next

(* The initial state of the executors maps to the keyed CREATE's. *)
LEMMA RefineInit == Init => Abstract!Init
<1> SUFFICES ASSUME Init PROVE Abstract!Init
    OBVIOUS
<1>1. UsedOf(pkIndex) = {} /\ rels = {}
    BY DEF Init, UsedOf, INVALID_OFFSET
<1>2. QED
    BY <1>1 DEF Init, Abstract!Init

(***************************************************************************)
(* NodeInsertExecutor and RelInsertExecutor, with NodeTable's offsets and  *)
(* TableData's node groups, implement the keyed CREATE for every set of    *)
(* keys, node-group size and number of tuples: the refinement mapping      *)
(* reads each stored rel back as the keys of its two nodes.                *)
(***************************************************************************)
THEOREM InsertImplementsKeyedCreate == Spec => ImplementsKeyedCreate
<1>1. Spec => []RInv
    BY InitRInv, NextRInv, PTL DEF Spec
<1>2. QED
    BY <1>1, RefineInit, RefineStep, PTL DEF Spec, ImplementsKeyedCreate, Abstract!Spec

====
