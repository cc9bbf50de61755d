SPECIFICATION Spec
CONSTANTS
  Executor <- DeepExecutor
  Root = "task"
  Kids <- DeepKids
  Mode <- DeepMode
  Permits = 6
  BeforeFails <- DeepSteps
  RunFails <- DeepSteps
  CallbackFails <- DeepNone
  ErrorFails <- DeepNone
  Fragile <- DeepNone
INVARIANT SequentialInOrder
PROPERTY ImplementsForkJoin
