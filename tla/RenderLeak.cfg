SPECIFICATION FairRunSpec
CONSTANTS
  NumWorkers = 1
  DurationFrames = 12
  FrameStep = 1
  PoolSize = 1
  KeepFrames = FALSE
  Faulty = {}
  MayCancel = FALSE
  Relays = {"track"}
  FfmpegMayFail = TRUE
PROPERTIES BrowsersComeBack
CHECK_DEADLOCK FALSE
