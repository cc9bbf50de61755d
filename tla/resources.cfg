SPECIFICATION Spec
CONSTANTS
    Queries = {"q1", "q2", "q3", "q4", "q5", "q6"}
    Scripts = {"q1", "s1", "s2"}
    Groups <- SideBySide
    Orphans = {"q3", "s2"}
    ConfigOf <- Configs
    EnvOf <- Where
    KindOf <- Kinds
    Programs <- Done
    Files <- SystemFiles
    Named <- Hits
    Default = 1000
    NoKey = "no key"
    NoPath = NoPath
INVARIANTS
    PoolsAccounted
    LimitRestored
    KeysNameFiles
CHECK_DEADLOCK FALSE
