SPECIFICATION FairSpec
CONSTANTS
  Executor <- WideExecutor
  Root = "task"
  Kids <- WideKids
  Mode <- WideMode
  Permits = 3
  BeforeFails <- WideExecutor
  RunFails <- WideExecutor
  CallbackFails <- WideExecutor
  ErrorFails <- WideExecutor
  Fragile <- WideSteps
INVARIANTS
  TypeOK
  PermitsConserved
  WaitersSuspended
  QueuedOnce
  NoLostWakeup
  ParentsLeaveAPermit
  ActiveChildAwaited
  NormalEndIsComplete
PROPERTY Termination
