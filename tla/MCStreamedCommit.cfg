CONSTANTS
  k1 = k1
  k2 = k2
  none = none
  NoKey = none
  Keys <- MCKeys
  SkipKeys = {}
  Feeds <- CommittedFeeds
  MessageCap = 1
  ChunkSize = 2
  MaxCrashes = 0
SPECIFICATION Spec
INVARIANT ConfirmedReflected
