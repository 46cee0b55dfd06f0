SPECIFICATION FairSpec
CONSTANTS
  Worker = {w1, w2}
  Total = 5
  QueueDepth = 2
  Faulty <- AnyFrame
  MayCancel = TRUE
  NoFrame = NoFrame
INVARIANTS JobConservation PendingCountsJobs ResultsComplete
PROPERTIES SchedulerEnds
CHECK_DEADLOCK FALSE
