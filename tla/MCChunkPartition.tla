-------------------------- MODULE MCChunkPartition --------------------------
(***************************************************************************)
(* Instances of ChunkPartition.                                            *)
(***************************************************************************)
EXTENDS ChunkPartition

CONSTANT Ids   \* ids that rows may have

\* Every table with rows of these ids in the first two blocks.
MCTables == UNION {[ids -> 0 .. 1] : ids \in SUBSET Ids}

\* Ids of both signs and the largest one.  Their span may exceed what an int64 holds.
SparseIds == {-8, -2, 3, 7}

\* pg_class says -1 for a table that was never analyzed.
MCEstimates == {-1, 2}
=============================================================================
