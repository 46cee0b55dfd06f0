SPECIFICATION BusySpec
CONSTANTS
  Size = 1
  r1 = r1
  r2 = r2
  Render <- OneRender
  User <- OneUser
  Pooled = Pooled
  NoSlot = NoSlot
  Flaky = TRUE
  Crashes = FALSE
  LaunchMayFail = FALSE
PROPERTIES HealthCatchesUp
CHECK_DEADLOCK FALSE
