SPECIFICATION Spec
CONSTANTS
  Executor <- LoopExecutor
  Root = "task"
  Kids <- LoopKids
  Kind <- LoopKind
  Mode <- LoopMode
  Permits = 10
  Disabled = {"off"}
  BeforeFails <- LoopBeforeFails
  RunFails <- LoopRunFails
  Strategies <- LoopStrategies
  InnerStrategy <- NoInner
INVARIANTS
  TypeOK
  SkipsCascade
  VerdictIsTrue
  CountsAreExact
  MultitaskerEndsItself
