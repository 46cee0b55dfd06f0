SPECIFICATION FairSpec
CONSTANTS
  NumWorkers = 2
  DurationFrames = 16
  FrameStep = 2
  PoolSize = 2
  KeepFrames = TRUE
  Faulty <- AnyFrame
  MayCancel = TRUE
INVARIANTS InOrderDelivery FrameConservation StreamEnds BrowsersReturned ShortPoolFails
PROPERTIES NoSendOnClosedChannel StreamSpec RunEnds
CHECK_DEADLOCK FALSE
