CONSTANTS
  k1 = k1
  k2 = k2
  hb = hb
  none = none
  NoKey = none
  Keys <- MCKeys
  SkipKeys <- MCSkipKeys
  Feeds <- MCFeeds
  MessageCap = 1
  ChunkSize = 2
  MaxCrashes = 2
SPECIFICATION FairSpec
INVARIANTS TypeOK ConfirmedReflected IInv
PROPERTIES InOrderApply OrderedAtLeastOnce CatchesUp
