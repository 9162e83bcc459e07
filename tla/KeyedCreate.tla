---------------------------- MODULE KeyedCreate -----------------------------
(***************************************************************************)
(* What a CREATE (n {pk: k})-[:R]->(m) over keyed nodes promises, with no  *)
(* offsets, node groups or vectors: each tuple either creates the node of *)
(* a new key, or, for a key that has a node, binds that node under ON     *)
(* CONFLICT DO NOTHING and stops the query otherwise; its rel then starts *)
(* at the tuple's node and ends at a node that exists, or is skipped.     *)
(***************************************************************************)
EXTENDS Naturals

CONSTANTS PKs, MaxTuples, ConflictActions, NoValue

VARIABLES
    conflictAction,  \* the statement's conflict action
    keys,            \* the keys that have a node
    edges,           \* the rels, as the keys of their two nodes
    phase,           \* "node", "rel" or "aborted"
    curKey,          \* the key of the current tuple
    tuples           \* tuples read so far

avars == <<conflictAction, keys, edges, phase, curKey, tuples>>

ReadTuple(k) ==
    /\ phase = "node"
    /\ tuples < MaxTuples
    /\ tuples' = tuples + 1
    /\ curKey' = k

CreateNode(k) ==
    /\ ReadTuple(k)
    /\ k \notin keys
    /\ keys' = keys \cup {k}
    /\ phase' = "rel"
    /\ UNCHANGED <<conflictAction, edges>>

BindExisting(k) ==
    /\ ReadTuple(k)
    /\ conflictAction = "ON_CONFLICT_DO_NOTHING"
    /\ k \in keys
    /\ phase' = "rel"
    /\ UNCHANGED <<conflictAction, keys, edges>>

Abort(k) ==
    /\ ReadTuple(k)
    /\ conflictAction = "ON_CONFLICT_THROW"
    /\ k \in keys
    /\ phase' = "aborted"
    /\ UNCHANGED <<conflictAction, keys, edges>>

CreateRel(d) ==
    /\ phase = "rel"
    /\ d \in keys
    /\ edges' = edges \cup {[from |-> curKey, to |-> d]}
    /\ phase' = "node"
    /\ UNCHANGED <<conflictAction, keys, curKey, tuples>>

SkipRel ==
    /\ phase = "rel"
    /\ phase' = "node"
    /\ UNCHANGED <<conflictAction, keys, edges, curKey, tuples>>

Init ==
    /\ conflictAction \in ConflictActions
    /\ keys = {}
    /\ edges = {}
    /\ phase = "node"
    /\ curKey = NoValue
    /\ tuples = 0

Next ==
    \/ \E k \in PKs : CreateNode(k) \/ BindExisting(k) \/ Abort(k)
    \/ \E d \in keys : CreateRel(d)
    \/ SkipRel

Spec == Init /\ [][Next]_avars

=============================================================================
