CONSTANTS
  k1 = k1
  k2 = k2
  hb = hb
  none = none
  p1 = p1
  p2 = p2
  NoKey = none
  Keys <- MCKeys
  SkipKeys <- MCSkipKeys
  Partitions <- MCPartitions
  PartitionOf <- MCPartitionOf
  Feeds <- MCFeeds
  MessageCap = 1
  FlushBatchSize = 2
  PendingQueueSize = 1
  KafkaRetryCount = 2
  MaxWriteFailures = 2
  MaxLookupFailures = 1
  MaxCrashes = 1
SPECIFICATION FairSpec
INVARIANTS TypeOK IInv ConfirmedStored
PROPERTIES PerRowOrder TopicCatchesUp
