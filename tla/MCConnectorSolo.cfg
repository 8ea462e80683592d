CONSTANTS
  a = a
  b = b
  Nobody = Nobody
  Instances <- Solo
  NumChunks = 2
  MaxExports = 4
  MaxAttempts = 2
  MaxRetries = 2
  LiveExpiry = FALSE
  Resnapshot = {TRUE, FALSE}
  CrashPoints <- NotWhileCreating
  ErrorPoints <- OtherStatements
  MaxWal = 3
  MaxCrashes = 2
  MaxErrors = 2
SPECIFICATION FairSpec
CHECK_DEADLOCK FALSE
PROPERTIES NoGap SnapshotCompletes
