SPECIFICATION Spec
CONSTANTS
    Father <- Tree
    TypeOf <- Types
    ProjectOf <- Projects
    EnvOf <- Environments
    Iterations <- Made
    Drives <- LoopDrives
    Strategies = {"self_case", "current_case"}
    Datasets <- Data
    Actions <- Done
    Stored <- Environ
    Shared <- Globals
    MaxGenerated = 1
    Tokens <- Written
    Missing = Missing
    Texts <- Operands
    Number <- Floats
    Subtexts <- Substrings
    Items <- Parts
    Matches <- Matched
    Invalid = {"("}
    Empty = ""
    None = "None"
    NaN = NaN
    NoNumber = NoNumber
INVARIANTS
    TwinsAgree
    WrittenIsRead
CHECK_DEADLOCK FALSE
