---------------------------- MODULE MCMigration -----------------------------
(***************************************************************************)
(* Instances of Migration: two processes, three rows in two chunks.        *)
(***************************************************************************)
EXTENDS Migration

CONSTANTS a, b, k1, k2, k3

MCInstances == {a, b}
MCKeys == {k1, k2, k3}
MCChunkRows == << <<k1, k2>>, <<k3>> >>

Op(op, k, to, toasted) == [op |-> op, key |-> k, to |-> to, toasted |-> toasted]
Update(k) == Op("update", k, k, FALSE)
UpdateToasted(k) == Op("update", k, k, TRUE)
Rename(k, to) == Op("update", k, to, TRUE)
Delete(k) == Op("delete", k, k, FALSE)
Insert(k) == Op("insert", k, k, FALSE)

MCScenarios ==
  { [ops |-> <<Update(k3), UpdateToasted(k3)>>, only |-> FALSE],
    [ops |-> <<Delete(k3), Rename(k1, k3)>>, only |-> FALSE],
    [ops |-> <<Delete(k3), Insert(k3)>>, only |-> TRUE] }

\* A behaviour is followed up to its first mishap: Converges speaks of no other, and
\* what the invariants say after one is left to their proofs.
NoMishap == mishaps = {}
=============================================================================
