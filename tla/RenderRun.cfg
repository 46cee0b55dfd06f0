SPECIFICATION FairRunSpec
CONSTANTS
  NumWorkers = 2
  DurationFrames = 8
  FrameStep = 2
  PoolSize = 2
  KeepFrames = FALSE
  Faulty <- AnyFrame
  MayCancel = TRUE
  Relays <- AnyRelay
  FfmpegMayFail = TRUE
INVARIANTS SuccessMeansComplete VideoIsPrefix FailureIsReported
PROPERTIES RenderReturns
CHECK_DEADLOCK FALSE
