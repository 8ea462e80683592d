CONSTANTS
  MaxSlotInUse = 2
  MaxHeartbeats = 2
SPECIFICATION FairSpec
INVARIANTS TokenFindsChannelOpen SinkEndClosedOnce TokenForEveryCloser LifecycleInv
PROPERTIES CloseReturnsAfterOpen LostConnectionEnds
CHECK_DEADLOCK FALSE
