SPECIFICATION FairSpec
CONSTANTS
  Size = 2
  r1 = r1
  r2 = r2
  Render <- TwoRenders
  User <- FourUsers
  Pooled = Pooled
  NoSlot = NoSlot
  Flaky = FALSE
  Crashes = TRUE
  LaunchMayFail = TRUE
INVARIANTS Exclusive NoneLost SetUpReachesEveryBrowser ShutdownStopsChrome
PROPERTIES RendersEnd
CHECK_DEADLOCK FALSE
