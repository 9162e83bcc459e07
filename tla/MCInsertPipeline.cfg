\* Four tuples over three keys with node groups of two, under both conflict actions.
CONSTANTS
    k1 = k1
    k2 = k2
    k3 = k3
    NoValue = NoValue
    PKs <- MCPKs
    NodeGroupSize = 2
    MaxTuples = 4
    ConflictActions <- BothConflictActions

SPECIFICATION Spec
\* The pipeline stops when its input is exhausted or the query aborts.
CHECK_DEADLOCK FALSE

INVARIANTS
    TypeOK
    StorageCovers
    RelEndpointsBound

PROPERTIES
    ImplementsKeyedCreate
