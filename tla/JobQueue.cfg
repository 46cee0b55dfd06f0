SPECIFICATION FairSpec
CONSTANTS
  j1 = j1
  j2 = j2
  Job <- TwoJobs
  Visited <- FirstJob
  Lasting <- FirstJob
  MaxConcurrent = 1
  QueueDepth = 1
  MaxRetries = 2
  NoJob = NoJob
INVARIANTS ConcurrencyBound RenderingIsShown DoneHasVideo ServesCompleteVideos
PROPERTIES StatusOrder JobsSettle VideosAreCleaned
CHECK_DEADLOCK FALSE
