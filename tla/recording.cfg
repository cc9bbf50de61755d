SPECIFICATION Spec
CONSTANTS
    Week = 2
    Hour = 1
    Visits <- CaseVisits
    StepOf <- CaseStep
    ParentOf <- CaseParent
    KindOf <- CaseKind
    After <- CaseAfter
    Within <- CaseWithin
    InCase = {"i", "p"}
    Outcomes <- CaseOutcomes
    Unmakeable = {"c"}
    Prints = 2
    Shown = {"step"}
    MaxFlying = 2
    RunTicks = 1
    MaxTicks = 2
    Steady = {"d"}
    NoStep = "none"
    Followed <- CaseList
    Extras <- CaseExtra
    Wanted <- SomeValues
    Looks = {0, 5}
INVARIANTS
    EachMessageOnce
    ReaderAgrees
    AwaitedIsSaved
    AwaitedComesFirst
    ExpiredMeansGone
