SPECIFICATION Spec
CONSTANTS
    Parts = {
        "dispatch", "ledger", "groups", "selection", "dashboard",
        "night", "liveness"}
    DispatchGroups = {"a", "b"}
    Limit = 1
    Retries = 1
    DispatchMaxPolls = 2
    MaxClosings = 2
    LedgerTests = {"t", "u"}
    FileOf <- OneFile
    Variants = {1, 2}
    Window = 3
    MinDays = 2
    QuietDays = 2
    MaxRejected = 1
    OldPulls <- TwoOld
    LedgerMaxNights = 2
    MaxPulls = 3
    MaxTouches = 1
    Runners = {r, q}
    DashboardMaxPolls = 1
    NightGroups = {"g", "h"}
    ModelOf <- TwoModels
    Clusters = {"h"}
    Keys = {1, 2}
    NightMaxRuns = 2
    MaxIssues = 2
    NightMaxFaults = 1
    LivenessTests = {1, 2, 3}
    Suites <- FullOrFirst
    TestsIn <- OneAndTwo
    LivenessMaxRuns = 2
    MaxBreaks = 2
    BaselineRuns = 1
INVARIANTS  LedgerKept  IssueKept
PROPERTIES VerdictsKept
SYMMETRY Alike
CHECK_DEADLOCK FALSE
