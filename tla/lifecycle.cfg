SPECIFICATION Spec
CONSTANTS
    Runs <- TwoRuns
    TaskOf <- TasksOneAndTen
    Methods <- AnyThenRemote
    Troubled = {"r1"}
INVARIANTS
    TypeOK
    StartedIsEnded
    UntroubledRunReleases
    TornBackupByDeath
    NothingLeftRunning
    OwnFilesKept
PROPERTIES
    LimitEnforced
    EveryTaskEnds
