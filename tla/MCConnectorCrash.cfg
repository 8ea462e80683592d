CONSTANTS
  a = a
  b = b
  Nobody = Nobody
  Instances <- Pair
  NumChunks = 2
  MaxExports = 5
  MaxAttempts = 2
  MaxRetries = 2
  LiveExpiry = TRUE
  Resnapshot = {FALSE}
  CrashPoints <- Anywhere
  ErrorPoints <- ReadOnly
  MaxWal = 1
  MaxCrashes = 2
  MaxErrors = 1
SPECIFICATION Spec
SYMMETRY Symmetry
VIEW Visible
CHECK_DEADLOCK FALSE
INVARIANTS TypeOK CompletedChunksRead OneJobAtATime
