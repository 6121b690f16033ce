SPECIFICATION FairSpec
CONSTANTS
  LaterTimers = {"cleanup"}
  TwoSeconds = 1
  FiveMinutes = 1
  TenMinutes = 2
  Width = 4
  ActivityWidth = 2
  MaxTime = 6
INVARIANTS TypeOK SleepsOnlyWhenServed TimersTimely
PROPERTY EventuallyServed
CHECK_DEADLOCK FALSE
