CONSTANTS
  a = a
  b = b
  Nobody = Nobody
  Instances <- Pair
  NumChunks = 2
  MaxExports = 4
  MaxAttempts = 2
  MaxRetries = 2
  LiveExpiry = FALSE
  Resnapshot = {FALSE}
  CrashPoints <- Anywhere
  ErrorPoints <- Statements
  MaxWal = 2
  MaxCrashes = 1
  MaxErrors = 0
SPECIFICATION Spec
CHECK_DEADLOCK FALSE
PROPERTY NoGap
