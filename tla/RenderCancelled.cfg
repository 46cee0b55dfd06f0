SPECIFICATION FairRunSpec
CONSTANTS
  NumWorkers = 2
  DurationFrames = 4
  FrameStep = 1
  PoolSize = 2
  KeepFrames = FALSE
  Faulty = {}
  MayCancel = TRUE
  Relays = {"track"}
  FfmpegMayFail = FALSE
PROPERTIES InFlightRenderEnds
CHECK_DEADLOCK FALSE
