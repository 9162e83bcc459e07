------------------------- MODULE MCInsertPipeline ---------------------------
(* Three primary keys as model values, node groups of two nodes. *)
EXTENDS InsertPipeline

CONSTANTS k1, k2, k3

MCPKs == {k1, k2, k3}
BothConflictActions == {"ON_CONFLICT_THROW", "ON_CONFLICT_DO_NOTHING"}
DoNothingOnly == {"ON_CONFLICT_DO_NOTHING"}

=============================================================================
