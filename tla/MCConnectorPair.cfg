CONSTANTS
  a = a
  b = b
  Nobody = Nobody
  Instances <- Pair
  NumChunks = 2
  MaxExports = 5
  MaxAttempts = 2
  MaxRetries = 2
  LiveExpiry = TRUE
  Resnapshot = {FALSE}
  CrashPoints <- Anywhere
  ErrorPoints <- ReadOnly
  MaxWal = 2
  MaxCrashes = 1
  MaxErrors = 0
SPECIFICATION Spec
SYMMETRY Symmetry
CONSTRAINT Unraced
CHECK_DEADLOCK FALSE
INVARIANT GapInv
PROPERTY NoGap
