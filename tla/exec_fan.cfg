SPECIFICATION Spec
CONSTANTS
  Executor <- FanExecutor
  Root = "task"
  Kids <- FanKids
  Kind <- FanKind
  Mode <- FanMode
  Permits = 9
  Disabled = {}
  BeforeFails <- NoExecutor
  RunFails <- FanRunFails
  Strategies <- FanStrategies
  InnerStrategy <- NoInner
INVARIANTS
  SkipsHaveACause
  CallerDecidesForItself
  InsideStaysInside
PROPERTIES
  StopIsFinal
