CONSTANTS
  a = a
  b = b
  Nobody = Nobody
  Instances <- Pair
  NumChunks = 2
  MaxExports = 4
  MaxAttempts = 2
  MaxRetries = 2
  LiveExpiry = FALSE
  Resnapshot = {FALSE}
  CrashPoints <- Anywhere
  ErrorPoints <- Statements
  MaxWal = 1
  MaxCrashes = 0
  MaxErrors = 0
SPECIFICATION FairSpec
CHECK_DEADLOCK FALSE
PROPERTY SnapshotCompletes
