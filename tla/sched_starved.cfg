SPECIFICATION FairSpec
CONSTANTS
  Executor <- FanExecutor
  Root = "task"
  Kids <- FanKids
  Mode <- FanMode
  Permits = 3
  BeforeFails <- DeepNone
  RunFails <- DeepNone
  CallbackFails <- DeepNone
  ErrorFails <- DeepNone
  Fragile <- DeepNone
PROPERTY Termination
CHECK_DEADLOCK FALSE
