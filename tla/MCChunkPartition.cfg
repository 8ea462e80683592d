SPECIFICATION Spec
CONSTANTS
  MaxInt = 7
  Ids <- SparseIds
  Tables <- MCTables
  ChunkSizes = {1, 2, 4, 7}
  MaxBlocks = 2
  Estimates <- MCEstimates
  Counts = {0, 3}
  Nil = Nil
INVARIANTS EachRowOnce PartitionInv
CHECK_DEADLOCK FALSE
