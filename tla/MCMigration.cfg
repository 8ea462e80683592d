CONSTANTS
  a = a
  b = b
  k1 = k1
  k2 = k2
  k3 = k3
  Absent = Absent
  Unchanged = Unchanged
  Nobody = Nobody
  Keys <- MCKeys
  Instances <- MCInstances
  ChunkRows <- MCChunkRows
  Scenarios <- MCScenarios
  ChunkSize = 2
  BufferSize = 2
  MaxCrashes = 1
SPECIFICATION FairSpec
INVARIANTS TypeOK MigrationInv KeptRowIsCurrent
PROPERTY Converges
CONSTRAINT NoMishap
CHECK_DEADLOCK FALSE
