\* ON CONFLICT DO NOTHING: a conflicting tuple leaves the projected column of the previous tuple.
CONSTANTS
    k1 = k1
    k2 = k2
    k3 = k3
    NoValue = NoValue
    PKs <- MCPKs
    NodeGroupSize = 2
    MaxTuples = 3
    ConflictActions <- DoNothingOnly

SPECIFICATION Spec
CHECK_DEADLOCK FALSE

INVARIANT
    OutputPKColumn
