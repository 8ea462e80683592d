CONSTANTS
  a = a
  b = b
  Instances <- MCInstances
  Tables <- MCTables
  Heartbeat <- MCHeartbeat
  Leaves <- MCLeaves
  ReplicaIdentity <- MCReplicaIdentity
  Scenarios <- MCScenarios
  Nil = Nil
  MaxCrashes = 1
SPECIFICATION FairSpec
INVARIANTS TypeOK IdentitiesAligned SnapshotTablesStreamed FailsOnlyInRace
PROPERTY EveryoneReady
CHECK_DEADLOCK FALSE
